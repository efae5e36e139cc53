------------------------ MODULE ClusterOperatorProofs ------------------------
(***************************************************************************)
(* What is proved of the cluster-scoped half of the OpenStack operator:    *)
(* images are made a bounded number of times.                              *)
(***************************************************************************)
EXTENDS ClusterOperator, SequenceTheorems, TLAPS

-----------------------------------------------------------------------------
(* What holds of single rows, given the resources S and the last id n.     *)

\* An id that belongs to no resource of another kind, or with a name not among M.
Named(i, k, M, S, n) == i \in 0..n /\ \A s \in S : s.id = i => s.kind = k /\ s.name \in M

\* Resources have ids of their own, and none has an id that is yet to come.
Stocked(S, n) ==
  /\ n \in 0..MaxIds
  /\ S \subseteq Row
  /\ \A s \in S : s.id <= n
  /\ \A s, u \in S : s.id = u.id => s = u

\* The names that record d may have, by plan pl.
Mine(pl, d) == {w.name : w \in pl.wishes[d]}

\* A record's resource has one of its names, and it has a status only when kopf holds it.
RecordFits(pl, d, r, S, n) ==
  /\ r \in Record
  /\ r.at # "absent" => r.spec \in pl.wishes[d]
  /\ Named(r.id, pl.kinds[d], Mine(pl, d), S, n)
  /\ r.tries <= 2
  /\ ~r.held => r.phase = "" /\ r.id = 0 /\ r.tries = 0
  /\ r.at = "absent" => ~r.held

\* A registered resource has the kind and a name of its record.
EntryFits(pl, e, k, S, n) ==
  \/ e = NoEntry
  \/ e.cr \in Records /\ pl.kinds[e.cr] = k /\ Named(e.id, k, Mine(pl, e.cr), S, n)
BlobFits(pl, b, k, S, n) == \A m \in Names : EntryFits(pl, b[m], k, S, n)
RegistryFits(pl, g, S, n) == \A k \in Kinds : BlobFits(pl, g[k], k, S, n)

MakeSteps == {"find", "make", "blob", "whole", "enlist", "patch"}
GcSteps == {"scan", "next", "erase", "blob", "whole", "delist"}

\* A handler or timer of record d, whose row is r, that has steps to do.
WorkFits(pl, d, th, r, S, n) ==
  /\ th.cr = d
  /\ th.kind = pl.kinds[d]
  /\ th.spec \in pl.wishes[d]
  /\ r.held
  /\ th.fn \in {"create", "update", "delete", "look", "recreate", "poll"}
  /\ th.fn = "create" => th.todo \in Seq(MakeSteps) /\ th.end # "permanent"
  /\ th.end = "permanent" => th.todo = <<"patch">>
  /\ Named(th.id, th.kind, Mine(pl, th.cr), S, n)
  /\ Named(th.was, th.kind, Mine(pl, th.cr), S, n)
  /\ th.put.id # -1 => Named(th.put.id, th.kind, Mine(pl, th.cr), S, n)
  /\ th.put.tries <= 2

\* The images: what the threads of an image record are about.
MakeTodos == {<<"find", "make", "blob", "whole", "enlist", "patch">>,
              <<"make", "blob", "whole", "enlist", "patch">>,
              <<"blob", "whole", "enlist", "patch">>, <<"whole", "enlist", "patch">>,
              <<"enlist", "patch">>, <<"patch">>}
FindTodos == {<<"find", "patch">>, <<"patch">>}
DeleteSteps == {"erase", "blob", "whole", "delist", "release"}

Making(th) ==
  /\ ~th.spec.external
  /\ th.todo \in MakeTodos
  /\ th.end = "ok" \/ (th.end = "failed" /\ Head(th.todo) = "patch")
Finding(th) == th.spec.external /\ th.todo \in FindTodos /\ th.end \in {"ok", "failed", "missing"}

ChangeFits(g, r) ==
  \/ g.fn = "create" /\ (Making(g) \/ Finding(g))
  \/ g.fn = "update" /\ g.todo \in {<<"settings", "patch">>, <<"patch">>} /\ g.end \in {"ok", "failed"}
  \/ g.fn = "delete" /\ g.todo \in Seq(DeleteSteps) /\ r.at = "deleting"

\* An image that was seen active is active as long as it is there.
SeenFits(m, S) == m.seen = "active" => \A s \in S : s.id = m.id => s.state = "active"
TimerFits(m, S) ==
  \/ /\ m.fn = "look"
     /\ m.todo \in {<<"look", "patch">>, <<"settings", "patch">>, <<"patch">>}
     /\ m.put.phase \in {"same", "Pending"}
     /\ m.put.tries = -1
  \/ /\ m.fn = "recreate"
     /\ Finding(m) \/ (Making(m) /\ (Head(m.todo) = "find" \/ m.end = "failed" \/ SeenFits(m, S)))

PollFits(q, r) ==
  /\ q.fn = "poll"
  /\ r.tries <= q.tries /\ q.tries <= 2
  /\ \/ q.todo = <<"look", "patch">> /\ q.put = Same
     \/ q.todo = <<"drop", "patch">> /\ q.put = Retried(q)
     \/ q.todo = <<"patch">> /\ \/ q.put \in {Lost, Retried(q)}
                                \/ q.put \in [phase : {"same", "Ready", "Error"}, id : {-1},
                                              tries : {-1}, began : -1..2]

ImageFits(w, th, r, S) ==
  \/ w = "change" /\ ChangeFits(th, r)
  \/ w = "timer" /\ TimerFits(th, S)
  \/ w = "poll" /\ PollFits(th, r)

ThreadFits(pl, d, w, th, r, S, n) ==
  /\ th \in Thread
  /\ BlobFits(pl, th.blob, th.kind, S, n)
  /\ RegistryFits(pl, th.whole, S, n)
  /\ th.todo # <<>> =>
       /\ WorkFits(pl, d, th, r, S, n)
       /\ pl.kinds[d] = "image" => ImageFits(w, th, r, S)

\* What the collector deletes belongs to a record that it did not list.
Strange(pl, k, i, expected, S, n) ==
  \E d \in Records \ expected : pl.kinds[d] = k /\ Named(i, k, Mine(pl, d), S, n)
CollectorFits(pl, th, g, S, n) ==
  /\ th \in Thread
  /\ BlobFits(pl, th.blob, th.kind, S, n)
  /\ RegistryFits(pl, th.whole, S, n)
  /\ th.todo # <<>> =>
       /\ th.fn = "gc"
       /\ th.todo \in Seq(GcSteps)
       /\ g.kinds \in Seq(Kinds) /\ g.kinds # <<>>
       /\ th.id = 0 \/ Strange(pl, th.kind, th.id, g.expected, S, n)
       /\ \A o \in g.doomed : Strange(pl, Head(g.kinds), o.id, g.expected, S, n)
-----------------------------------------------------------------------------
(* The images that may yet be made for a record.                           *)

Stage(th) == IF th.todo = <<>> THEN "idle" ELSE Head(th.todo)
One(b) == IF b THEN 1 ELSE 0

Makes(th) == th.fn \in {"create", "recreate"} /\ ~th.spec.external /\ Stage(th) \in {"find", "make"}
Changes(g) == g.fn \in {"create", "update"} /\ Stage(g) # "idle"
Remakes(m) == m.fn = "recreate" /\ ~m.spec.external /\ Stage(m) # "idle"

\* The retries that are left.
Tried(r, q) == IF Stage(q) # "idle" /\ q.put.tries > r.tries THEN q.put.tries ELSE r.tries
Left(r, q) == 2 - Tried(r, q)

\* What the change handler costs: an image and the three that its record may then need.
ChangeCost(g) == IF g.end = "ok" /\ Stage(g) \in {"blob", "whole", "enlist", "patch"} THEN 3 ELSE 4

\* Neither timer runs, and neither is due.
Dormant(r, m, q) == r.phase \in {"", "Error"} /\ Stage(m) = "idle" /\ Stage(q) = "idle"

\* The images of X that poll q is not about to delete.
Spared(X, q) == IF Stage(q) = "drop" THEN X \ {q.id} ELSE X

\* No image need be made but for a retry: one that is active stays;
Resting(r, m) == Stage(m) = "idle" /\ r.phase \notin {"Ready", "Pending"}
Ending(q) == Stage(q) # "idle" /\ q.put.phase = "Error"
Lull(r, m, q, X) ==
  /\ Stage(q) = "idle"
  /\ X # {}
  /\ Stage(m) = "idle" \/ (Remakes(m) /\ Stage(m) = "find")
  /\ r.phase = "Error" \/ (r.phase = "Pending" /\ r.id = 0)
Bringing(r, m, q, X) ==
  /\ Remakes(m) /\ m.end = "ok" /\ Stage(m) # "find"
  /\ m.id \in X
  /\ m.id # r.id \/ r.phase \notin {"Provisioning", "Pending"}
  /\ Stage(q) = "idle" \/ q.id # m.id
Covered(r, m, q, X, A) ==
  /\ ~(Makes(m) /\ Stage(m) = "make" /\ m.id = 0)
  /\ \/ Spared(A, q) # {}
     \/ Resting(r, m) /\ (Ending(q) \/ Spared(X, q) # {})
     \/ Dormant(r, m, q)
     \/ Lull(r, m, q, X)
     \/ Bringing(r, m, q, X)
Owed(q, A) == Stage(q) # "idle" /\ q.put.phase = "Ready" /\ Spared(A, q) = {}

\* What the retries cost, and what the change that goes on or is due.
Retries(r, g, m, q) ==
  IF r.spec.external THEN Left(r, q) + 1 + One(Makes(m))
  ELSE IF Dormant(r, m, q) /\ ~(Changes(g) /\ g.spec.external) THEN 0 ELSE Left(r, q)
Change(r, g) ==
  IF ~Changes(g) THEN (IF r.handled = r.spec THEN 0 ELSE IF r.spec.external THEN 1 ELSE 4)
  ELSE IF r.spec.external THEN (IF g.spec.external THEN 1 ELSE ChangeCost(g) + 1)
  ELSE IF g.spec = r.spec THEN ChangeCost(g)
  ELSE IF g.spec.external THEN 5 ELSE ChangeCost(g) + 4
Bare(r, m, q, X, A) == ~r.spec.external /\ ~Covered(r, m, q, X, A)
Ahead(r, g, m, q, X, A) ==
  IF r.at # "live" THEN One(Makes(g)) + One(Makes(m))
  ELSE One(Owed(q, A)) + Retries(r, g, m, q) + Change(r, g) + One(Bare(r, m, q, X, A))

Images(S, m) == {s \in S : s.kind = "image" /\ s.name = m}
IdsOf(S, m) == {s.id : s \in Images(S, m)}
ActiveIdsOf(S, m) == {s.id : s \in {u \in Images(S, m) : u.state = "active"}}

AheadOf(c) == Ahead(cr[c], task[<<c, "change">>], task[<<c, "timer">>], task[<<c, "poll">>],
                    IdsOf(stock, cr[c].spec.name), ActiveIdsOf(stock, cr[c].spec.name))
-----------------------------------------------------------------------------
Listed == [expected : SUBSET Records, kinds : Seq(Kinds), doomed : SUBSET [name : Names, id : 0..MaxIds]]

Typed ==
  /\ Stocked(stock, ids)
  /\ cr \in [Records -> Record]
  /\ task \in [Threads -> Thread]
  /\ registry \in Registry
  /\ plan \in Plans
  /\ events \in Nat
  /\ imports \in [Records -> Nat]
  /\ gc \in Listed

Fits ==
  /\ \A d \in Records : RecordFits(plan, d, cr[d], stock, ids)
  /\ RegistryFits(plan, registry, stock, ids)
  /\ \A d \in Records, w \in {"change", "timer", "poll"} :
       ThreadFits(plan, d, w, task[<<d, w>>], cr[d], stock, ids)
  /\ CollectorFits(plan, task[Collector], gc, stock, ids)
  /\ Busy(Collector) => \A d \in Records \ gc.expected : ~cr[d].held

Budgeted(c) ==
  IF Kind(c) = "image" THEN Alone(c) => imports[c] + AheadOf(c) <= 4 * events ELSE imports[c] = 0
Inv == Typed /\ Fits /\ \A c \in Records : Budgeted(c)

-----------------------------------------------------------------------------
(* Resources that stay, come and go.                                       *)

\* u is what has become of s.
Alike(s, u) ==
  /\ u.id = s.id /\ u.kind = s.kind /\ u.name = s.name
  /\ s.state = "active" => u.state = "active"

\* What is there in S2 was there in S, or has an id that is new.
Grown(S, n, S2, n2) ==
  /\ n <= n2
  /\ \A u \in S2 : u.id > n \/ \E s \in S : Alike(s, u)

\* No image of name m is gone, and none that is active has become another.
Kept(S, S2, m) ==
  \A s \in S : s.kind = "image" /\ s.name = m => \E u \in S2 : Alike(s, u)

LEMMA NamedGrown ==
  ASSUME NEW i, NEW k, NEW m, NEW S, NEW S2, NEW n \in Nat, NEW n2 \in Nat,
         Named(i, k, m, S, n), Grown(S, n, S2, n2)
  PROVE  Named(i, k, m, S2, n2)
<1>1. i \in 0..n2
  BY DEF Named, Grown
<1>2. ASSUME NEW u \in S2, u.id = i
      PROVE  u.kind = k /\ u.name \in m
  <2>1. ~ u.id > n
    BY <1>2 DEF Named
  <2>2. PICK s \in S : Alike(s, u)
    BY <2>1 DEF Grown
  <2> QED
    BY <1>2, <2>2 DEF Named, Alike
<1> QED
  BY <1>1, <1>2 DEF Named

\* The same resources, or fewer.
LEMMA FewerGrown ==
  ASSUME NEW S, NEW n \in Nat, NEW S2 \in SUBSET S, Stocked(S, n)
  PROVE  Stocked(S2, n) /\ Grown(S, n, S2, n)
BY DEF Stocked, Grown, Alike

LEMMA SameKept ==
  ASSUME NEW S, NEW m
  PROVE  Kept(S, S, m)
BY DEF Kept, Alike

\* One resource is changed in place.
LEMMA ReplacedGrown ==
  ASSUME NEW S, NEW n \in Nat, Stocked(S, n), NEW r \in S, NEW u \in Row, Alike(r, u),
         NEW S2, S2 = (S \ {r}) \cup {u}
  PROVE  Stocked(S2, n) /\ Grown(S, n, S2, n) /\ \A m : Kept(S, S2, m)
<1>1. Stocked(S2, n)
  BY DEF Stocked, Alike
<1>2. Grown(S, n, S2, n)
  BY DEF Grown, Alike
<1>3. ASSUME NEW m PROVE Kept(S, S2, m)
  BY DEF Kept, Alike
<1> QED
  BY <1>1, <1>2, <1>3

\* Every resource of S2 is what has become of one of S, and the other way round.
Refit(S, S2) ==
  /\ S2 \subseteq Row
  /\ \A u \in S2 : \E s \in S : Alike(s, u)
  /\ \A s \in S : \E u \in S2 : Alike(s, u)
  /\ \A u, v \in S2 : u.id = v.id => u = v

LEMMA RefitGrown ==
  ASSUME NEW S, NEW n \in Nat, Stocked(S, n), NEW S2, Refit(S, S2)
  PROVE  Stocked(S2, n) /\ Grown(S, n, S2, n) /\ \A m : Kept(S, S2, m)
<1>1. Stocked(S2, n)
  BY DEF Stocked, Alike, Refit
<1>2. Grown(S, n, S2, n)
  BY DEF Grown, Refit
<1>3. ASSUME NEW m PROVE Kept(S, S2, m)
  BY DEF Kept, Refit
<1> QED
  BY <1>1, <1>2, <1>3

\* A resource with a new id.
LEMMA AddedGrown ==
  ASSUME NEW S, NEW n \in Nat, Stocked(S, n), NEW u \in Row, u.id = n + 1, n + 1 <= MaxIds,
         NEW S2, S2 = S \cup {u}
  PROVE  Stocked(S2, n + 1) /\ Grown(S, n, S2, n + 1) /\ \A m : Kept(S, S2, m)
<1>1. Stocked(S2, n + 1)
  <2>1. \A s \in S : s \in Row /\ s.id \in Int /\ s.id <= n
    BY DEF Stocked, Row
  <2>2. \A s \in S2 : s \in Row /\ s.id <= n + 1
    BY <2>1
  <2>3. \A s, v \in S2 : s.id = v.id => s = v
    BY <2>1 DEF Stocked
  <2>4. n + 1 \in 0..MaxIds
    BY ClusterCloudAssumption
  <2> QED
    BY <2>2, <2>3, <2>4 DEF Stocked
<1>2. Grown(S, n, S2, n + 1)
  BY DEF Grown, Alike
<1>3. ASSUME NEW m PROVE Kept(S, S2, m)
  BY DEF Kept, Alike
<1> QED
  BY <1>1, <1>2, <1>3
-----------------------------------------------------------------------------
(* Rows that a step does not touch still fit.                              *)

LEMMA RecordGrown ==
  ASSUME NEW pl, NEW d, NEW r, NEW S, NEW S2, NEW n \in Nat, NEW n2 \in Nat,
         RecordFits(pl, d, r, S, n), Grown(S, n, S2, n2)
  PROVE  RecordFits(pl, d, r, S2, n2)
BY NamedGrown DEF RecordFits

LEMMA BlobGrown ==
  ASSUME NEW pl, NEW b, NEW k, NEW S, NEW S2, NEW n \in Nat, NEW n2 \in Nat,
         BlobFits(pl, b, k, S, n), Grown(S, n, S2, n2)
  PROVE  BlobFits(pl, b, k, S2, n2)
<1> SUFFICES ASSUME NEW m \in Names PROVE EntryFits(pl, b[m], k, S2, n2)
  BY DEF BlobFits
<1>1. EntryFits(pl, b[m], k, S, n)
  BY DEF BlobFits
<1> QED
  BY <1>1, NamedGrown DEF EntryFits

LEMMA RegistryGrown ==
  ASSUME NEW pl, NEW g, NEW S, NEW S2, NEW n \in Nat, NEW n2 \in Nat,
         RegistryFits(pl, g, S, n), Grown(S, n, S2, n2)
  PROVE  RegistryFits(pl, g, S2, n2)
BY BlobGrown DEF RegistryFits

LEMMA WorkGrown ==
  ASSUME NEW pl, NEW d, NEW th, NEW r, NEW S, NEW S2, NEW n \in Nat, NEW n2 \in Nat,
         WorkFits(pl, d, th, r, S, n), Grown(S, n, S2, n2)
  PROVE  WorkFits(pl, d, th, r, S2, n2)
BY NamedGrown DEF WorkFits

LEMMA ImageGrown ==
  ASSUME NEW w, NEW th, NEW r, NEW S, NEW S2, NEW n \in Nat, NEW n2 \in Nat,
         th.id \in 0..n, ImageFits(w, th, r, S), Grown(S, n, S2, n2)
  PROVE  ImageFits(w, th, r, S2)
<1>1. SeenFits(th, S) => SeenFits(th, S2)
  <2> SUFFICES ASSUME SeenFits(th, S), th.seen = "active", NEW u \in S2, u.id = th.id
               PROVE  u.state = "active"
    BY DEF SeenFits
  <2>1. PICK s \in S : Alike(s, u)
    BY DEF Grown
  <2> QED
    BY <2>1 DEF SeenFits, Alike
<1>2. TimerFits(th, S) => TimerFits(th, S2)
  BY <1>1 DEF TimerFits
<1> QED
  BY <1>2 DEF ImageFits

LEMMA ThreadGrown ==
  ASSUME NEW pl, NEW d, NEW w, NEW th, NEW r, NEW S, NEW S2, NEW n \in Nat, NEW n2 \in Nat,
         ThreadFits(pl, d, w, th, r, S, n), Grown(S, n, S2, n2)
  PROVE  ThreadFits(pl, d, w, th, r, S2, n2)
<1>1. th \in Thread /\ BlobFits(pl, th.blob, th.kind, S2, n2) /\ RegistryFits(pl, th.whole, S2, n2)
  BY BlobGrown, RegistryGrown DEF ThreadFits
<1>2. ASSUME th.todo # <<>>
      PROVE  WorkFits(pl, d, th, r, S2, n2) /\ (pl.kinds[d] = "image" => ImageFits(w, th, r, S2))
  <2>1. WorkFits(pl, d, th, r, S, n) /\ (pl.kinds[d] = "image" => ImageFits(w, th, r, S))
    BY <1>2 DEF ThreadFits
  <2>2. th.id \in 0..n
    BY <2>1 DEF WorkFits, Named
  <2> QED
    BY <2>1, <2>2, WorkGrown, ImageGrown
<1> QED
  BY <1>1, <1>2 DEF ThreadFits

LEMMA CollectorGrown ==
  ASSUME NEW pl, NEW th, NEW g, NEW S, NEW S2, NEW n \in Nat, NEW n2 \in Nat,
         CollectorFits(pl, th, g, S, n), Grown(S, n, S2, n2)
  PROVE  CollectorFits(pl, th, g, S2, n2)
<1>1. ASSUME NEW k, NEW i, Strange(pl, k, i, g.expected, S, n)
      PROVE  Strange(pl, k, i, g.expected, S2, n2)
  <2>1. PICK d \in Records \ g.expected : pl.kinds[d] = k /\ Named(i, k, Mine(pl, d), S, n)
    BY <1>1 DEF Strange
  <2> QED
    BY <2>1, NamedGrown DEF Strange
<1> QED
  BY <1>1, BlobGrown, RegistryGrown DEF CollectorFits

\* What threads need of their record, which has kind k: it is held and is
\* deleted for good.
Softer(k, w, r, r2) ==
  /\ r2.held
  /\ r.at = "deleting" => r2.at = "deleting"
  /\ w = "poll" /\ k = "image" => r2.tries <= r.tries

LEMMA ThreadSofter ==
  ASSUME NEW pl, NEW d, NEW w, NEW th, NEW r \in Record, NEW r2 \in Record, NEW S, NEW n,
         ThreadFits(pl, d, w, th, r, S, n), th.todo # <<>> => Softer(pl.kinds[d], w, r, r2)
  PROVE  ThreadFits(pl, d, w, th, r2, S, n)
<1> SUFFICES ASSUME th.todo # <<>>, WorkFits(pl, d, th, r, S, n), Softer(pl.kinds[d], w, r, r2),
                    pl.kinds[d] = "image" => ImageFits(w, th, r, S), th \in Thread
             PROVE  WorkFits(pl, d, th, r2, S, n) /\ (pl.kinds[d] = "image" => ImageFits(w, th, r2, S))
  BY DEF ThreadFits
<1>1. WorkFits(pl, d, th, r2, S, n)
  BY DEF WorkFits, Softer
<1>2. ChangeFits(th, r) /\ w = "change" => ChangeFits(th, r2)
  BY DEF ChangeFits, Softer
<1>3. PollFits(th, r) /\ w = "poll" /\ pl.kinds[d] = "image" => PollFits(th, r2)
  <2>1. r.tries \in 0..3 /\ r2.tries \in 0..3 /\ th.tries \in 0..3
    BY DEF Record, Thread
  <2> QED
    BY <2>1 DEF PollFits, Softer
<1> QED
  BY <1>1, <1>2, <1>3 DEF ImageFits

-----------------------------------------------------------------------------
(* What follows for all rows from what a step does to a few.               *)

Ways == {"change", "timer", "poll"}

LEMMA ThreadsAre ==
  /\ Collector \in Threads
  /\ \A d \in Records, w \in Ways : <<d, w>> \in Threads /\ <<d, w>> # Collector
BY DEF Threads, Collector, Ways

\* A thread of record c goes on, and the record may change.
LEMMA RowsMove ==
  ASSUME Typed, Fits,
         NEW c \in Records, NEW w \in Ways, NEW x, NEW r2,
         task' = [task EXCEPT ![<<c, w>>] = x],
         cr' = [cr EXCEPT ![c] = r2],
         Stocked(stock', ids'), Grown(stock, ids, stock', ids'),
         RecordFits(plan, c, r2, stock', ids'),
         ThreadFits(plan, c, w, x, r2, stock', ids'),
         \A v \in Ways \ {w} : task[<<c, v>>].todo # <<>> => Softer(plan.kinds[c], v, cr[c], r2),
         Busy(Collector) => r2.held = cr[c].held,
         registry' \in Registry, RegistryFits(plan, registry', stock', ids'),
         plan' = plan, gc' = gc, events' \in Nat, imports' \in [Records -> Nat]
  PROVE  Typed' /\ Fits'
<1>0. ids \in Nat /\ ids' \in Nat
  BY ClusterCloudAssumption DEF Stocked, Typed
<1>1. Typed'
  <2>1. cr' \in [Records -> Record] /\ task' \in [Threads -> Thread]
    BY ThreadsAre DEF Typed, RecordFits, ThreadFits
  <2> QED
    BY <2>1 DEF Typed
<1>2. ASSUME NEW d \in Records
      PROVE  RecordFits(plan, d, cr'[d], stock', ids')
  <2>1. RecordFits(plan, d, cr[d], stock, ids)
    BY DEF Fits
  <2>2. CASE d = c
    BY <2>2 DEF Typed
  <2>3. CASE d # c
    BY <1>0, <2>1, <2>3, RecordGrown DEF Typed
  <2> QED
    BY <2>2, <2>3
<1>3. ASSUME NEW d \in Records, NEW v \in Ways
      PROVE  ThreadFits(plan, d, v, task'[<<d, v>>], cr'[d], stock', ids')
  <2>1. ThreadFits(plan, d, v, task[<<d, v>>], cr[d], stock', ids')
    BY <1>0, ThreadGrown DEF Fits, Ways
  <2>2. CASE d # c
    BY <2>1, <2>2, ThreadsAre DEF Typed
  <2>3. CASE d = c /\ v = w
    BY <2>3, ThreadsAre DEF Typed
  <2>4. CASE d = c /\ v # w
    <3>1. task'[<<d, v>>] = task[<<d, v>>] /\ cr'[d] = r2 /\ r2 \in Record
      BY <2>4, ThreadsAre DEF Typed, RecordFits
    <3>2. cr[d] \in Record
      BY DEF Typed
    <3>3. task[<<d, v>>].todo # <<>> => Softer(plan.kinds[c], v, cr[d], r2)
      BY <2>4
    <3> QED
      BY <2>1, <3>1, <3>2, <3>3, ThreadSofter
  <2> QED
    BY <2>2, <2>3, <2>4
<1>4. CollectorFits(plan, task'[Collector], gc', stock', ids')
  <2>1. task'[Collector] = task[Collector]
    BY ThreadsAre DEF Typed
  <2>2. CollectorFits(plan, task[Collector], gc, stock', ids')
    BY <1>0, CollectorGrown DEF Fits
  <2> QED
    BY <2>1, <2>2
<1>5. task'[Collector].todo # <<>> => \A d \in Records \ gc'.expected : ~cr'[d].held
  <2>1. task'[Collector] = task[Collector]
    BY ThreadsAre DEF Typed
  <2> QED
    BY <2>1 DEF Fits, Busy, Typed
<1> QED
  BY <1>1, <1>2, <1>3, <1>4, <1>5 DEF Fits, Busy, Ways

\* A thread of record c goes on, and no record changes.
LEMMA ThreadMoves ==
  ASSUME Typed, Fits,
         NEW c \in Records, NEW w \in Ways, NEW x,
         task' = [task EXCEPT ![<<c, w>>] = x],
         cr' = cr,
         Stocked(stock', ids'), Grown(stock, ids, stock', ids'),
         ThreadFits(plan, c, w, x, cr[c], stock', ids'),
         registry' \in Registry, RegistryFits(plan, registry', stock', ids'),
         plan' = plan, gc' = gc, events' \in Nat, imports' \in [Records -> Nat]
  PROVE  Typed' /\ Fits'
<1>0. ids \in Nat /\ ids' \in Nat
  BY ClusterCloudAssumption DEF Stocked, Typed
<1>1. cr' = [cr EXCEPT ![c] = cr[c]]
  BY DEF Typed
<1>2. RecordFits(plan, c, cr[c], stock', ids')
  BY <1>0, RecordGrown DEF Fits
<1>3. \A v \in Ways \ {w} : task[<<c, v>>].todo # <<>> => Softer(plan.kinds[c], v, cr[c], cr[c])
  <2> SUFFICES ASSUME NEW v \in Ways, task[<<c, v>>].todo # <<>>
               PROVE  Softer(plan.kinds[c], v, cr[c], cr[c])
    OBVIOUS
  <2>1. ThreadFits(plan, c, v, task[<<c, v>>], cr[c], stock, ids)
    BY DEF Fits, Ways
  <2>2. cr[c].held
    BY <2>1 DEF ThreadFits, WorkFits
  <2>3. cr[c] \in Record
    BY DEF Typed
  <2>4. cr[c].tries \in 0..3
    BY <2>3 DEF Record
  <2> QED
    BY <2>2, <2>4 DEF Softer
<1> QED
  BY <1>1, <1>2, <1>3, RowsMove

\* A record changes, and none of its threads.
LEMMA RecordMoves ==
  ASSUME Typed, Fits, NEW c \in Records, NEW r2,
         task' = task, cr' = [cr EXCEPT ![c] = r2],
         stock' = stock, ids' = ids,
         RecordFits(plan, c, r2, stock, ids),
         \A v \in Ways : task[<<c, v>>].todo # <<>> => Softer(plan.kinds[c], v, cr[c], r2),
         Busy(Collector) => r2.held = cr[c].held,
         registry' = registry, plan' = plan, gc' = gc, events' \in Nat, imports' = imports
  PROVE  Typed' /\ Fits'
<1>0. ids \in Nat
  BY ClusterCloudAssumption DEF Stocked, Typed
<1>1. task' = [task EXCEPT ![<<c, "change">>] = task[<<c, "change">>]]
  BY DEF Typed
<1>2. Stocked(stock', ids') /\ Grown(stock, ids, stock', ids')
  BY <1>0, FewerGrown DEF Typed
<1>3. ThreadFits(plan, c, "change", task[<<c, "change">>], r2, stock', ids')
  <2>1. ThreadFits(plan, c, "change", task[<<c, "change">>], cr[c], stock, ids)
    BY DEF Fits
  <2>2. cr[c] \in Record /\ r2 \in Record
    BY DEF Typed, RecordFits
  <2>3. task[<<c, "change">>].todo # <<>> => Softer(plan.kinds[c], "change", cr[c], r2)
    BY DEF Ways
  <2> QED
    BY <2>1, <2>2, <2>3, ThreadSofter
<1>4. registry' \in Registry /\ RegistryFits(plan, registry', stock', ids') /\ imports' \in [Records -> Nat]
  BY DEF Typed, Fits
<1>5. "change" \in Ways
  BY DEF Ways
<1> QED
  BY <1>1, <1>2, <1>3, <1>4, <1>5, RowsMove

\* The world changes, and no record or thread.
LEMMA StockMoves ==
  ASSUME Typed, Fits, Stocked(stock', ids'), Grown(stock, ids, stock', ids'),
         task' = task, cr' = cr, registry' = registry, plan' = plan, gc' = gc,
         events' \in Nat, imports' = imports
  PROVE  Typed' /\ Fits'
<1>0. ids \in Nat /\ ids' \in Nat
  BY ClusterCloudAssumption DEF Stocked, Typed
<1>1. Typed'
  BY DEF Typed
<1>2. \A d \in Records : RecordFits(plan, d, cr[d], stock', ids')
  BY <1>0, RecordGrown DEF Fits
<1>3. \A d \in Records, v \in Ways : ThreadFits(plan, d, v, task[<<d, v>>], cr[d], stock', ids')
  BY <1>0, ThreadGrown DEF Fits, Ways
<1>4. CollectorFits(plan, task[Collector], gc, stock', ids') /\ RegistryFits(plan, registry, stock', ids')
  BY <1>0, CollectorGrown, RegistryGrown DEF Fits
<1> QED
  BY <1>1, <1>2, <1>3, <1>4 DEF Fits, Busy, Ways

\* The collector goes on.
LEMMA CollectorMoves ==
  ASSUME Typed, Fits, NEW x,
         task' = [task EXCEPT ![Collector] = x],
         Stocked(stock', ids'), Grown(stock, ids, stock', ids'),
         CollectorFits(plan, x, gc', stock', ids'),
         x.todo # <<>> => \A d \in Records \ gc'.expected : ~cr[d].held,
         gc' \in Listed,
         registry' \in Registry, RegistryFits(plan, registry', stock', ids'),
         cr' = cr, plan' = plan, events' \in Nat, imports' = imports
  PROVE  Typed' /\ Fits'
<1>0. ids \in Nat /\ ids' \in Nat
  BY ClusterCloudAssumption DEF Stocked, Typed
<1>1. Typed'
  <2>1. task' \in [Threads -> Thread]
    BY ThreadsAre DEF Typed, CollectorFits
  <2> QED
    BY <2>1 DEF Typed
<1>2. \A d \in Records : RecordFits(plan, d, cr[d], stock', ids')
  BY <1>0, RecordGrown DEF Fits
<1>3. \A d \in Records, v \in Ways : ThreadFits(plan, d, v, task[<<d, v>>], cr[d], stock', ids')
  BY <1>0, ThreadGrown DEF Fits, Ways
<1>4. \A d \in Records, v \in Ways : task'[<<d, v>>] = task[<<d, v>>]
  BY ThreadsAre DEF Typed
<1>5. task'[Collector] = x
  BY ThreadsAre DEF Typed
<1> QED
  BY <1>1, <1>2, <1>3, <1>4, <1>5 DEF Fits, Busy, Ways

-----------------------------------------------------------------------------
(* The initial state, and threads that are idle.                           *)

LEMMA EmptyFits ==
  ASSUME NEW pl, NEW S, NEW n
  PROVE  /\ \A k : BlobFits(pl, EmptyBlob, k, S, n)
         /\ RegistryFits(pl, NoRegistry, S, n)
         /\ NoRegistry \in Registry
         /\ EmptyBlob \in [Names -> [id : 0..MaxIds, cr : Records \cup {0}]]
<1>1. NoEntry \in [id : 0..MaxIds, cr : Records \cup {0}]
  BY ClusterCloudAssumption DEF NoEntry
<1>2. EmptyBlob \in [Names -> [id : 0..MaxIds, cr : Records \cup {0}]]
  BY <1>1 DEF EmptyBlob
<1>3. NoRegistry \in Registry
  BY <1>2 DEF NoRegistry, Registry
<1>4. \A k : BlobFits(pl, EmptyBlob, k, S, n)
  BY DEF BlobFits, EmptyBlob, EntryFits
<1>5. RegistryFits(pl, NoRegistry, S, n)
  BY <1>4 DEF RegistryFits, NoRegistry
<1> QED
  BY <1>2, <1>3, <1>4, <1>5

LEMMA IdleIsThread == Idle \in Thread /\ Idle.todo = <<>> /\ Idle.put = Same
<1>1. Same \in Put
  BY ClusterCloudAssumption DEF Same, Put
<1>2. NoWish \in [name : Names \cup {"none"}]
  BY DEF NoWish
<1>3. EmptyBlob \in [Names -> [id : 0..MaxIds, cr : Records \cup {0}]] /\ NoRegistry \in Registry
  BY EmptyFits
<1>4. "domain" \in Kinds /\ 0 \in 0..MaxIds /\ <<>> \in Seq(Steps)
  BY ClusterCloudAssumption DEF Kinds
<1> QED
  BY <1>1, <1>2, <1>3, <1>4 DEF Idle, Thread

LEMMA IdleFits ==
  ASSUME NEW pl, NEW d, NEW w, NEW r, NEW g, NEW S, NEW n
  PROVE  ThreadFits(pl, d, w, Idle, r, S, n) /\ CollectorFits(pl, Idle, g, S, n)
<1>1. Idle.blob = EmptyBlob /\ Idle.whole = NoRegistry
  BY DEF Idle
<1> QED
  BY <1>1, EmptyFits, IdleIsThread DEF ThreadFits, CollectorFits

LEMMA AbsentFits ==
  ASSUME NEW pl, NEW d, NEW S, NEW n, Stocked(S, n)
  PROVE  RecordFits(pl, d, Absent, S, n)
<1>1. Absent \in Record
  BY ClusterCloudAssumption DEF Absent, Record
<1>2. \A s \in S : s.id # 0
  BY DEF Stocked, Row
<1>3. n \in 0..MaxIds
  BY DEF Stocked
<1>4. Absent.at = "absent" /\ Absent.id = 0 /\ Absent.tries = 0 /\ Absent.phase = ""
  BY DEF Absent
<1>5. ~Absent.held
  BY DEF Absent
<1>6. \A i, k, m : i = 0 => Named(i, k, m, S, n)
  BY <1>2, <1>3, ClusterCloudAssumption DEF Named
<1>7. Named(Absent.id, pl.kinds[d], Mine(pl, d), S, n)
  BY <1>4, <1>6
<1>8. Absent.tries <= 2
  BY DEF Absent
<1>9. Absent.at # "absent" => Absent.spec \in pl.wishes[d]
  BY <1>4
<1> QED
  BY <1>1, <1>4, <1>5, <1>7, <1>8, <1>9 DEF RecordFits

LEMMA InitFits == Init => Typed /\ Fits
<1> SUFFICES ASSUME Init PROVE Typed /\ Fits
  OBVIOUS
<1>1. Stocked(stock, ids)
  BY ClusterCloudAssumption DEF Init, InitCloud, Stocked
<1>2. Absent \in Record
  BY <1>1, AbsentFits DEF RecordFits
<1>3. registry \in Registry
  <2>1. registry = NoRegistry
    BY DEF Init, InitRecords, NoRegistry
  <2> QED
    BY <2>1, EmptyFits
<1>4. Typed
  BY <1>1, <1>2, <1>3, IdleIsThread DEF Typed, Init, InitRecords, NoGc, Listed
<1>5. RegistryFits(plan, registry, stock, ids)
  <2>1. registry = NoRegistry
    BY DEF Init, InitRecords, NoRegistry
  <2> QED
    BY <2>1, EmptyFits
<1>6. \A d \in Records : RecordFits(plan, d, cr[d], stock, ids)
  BY <1>1, AbsentFits DEF Init, InitRecords
<1>7. \A t \in Threads : task[t] = Idle
  BY DEF Init
<1>8. ~Busy(Collector)
  BY <1>7, ThreadsAre, IdleIsThread DEF Busy
<1> QED
  BY <1>4, <1>5, <1>6, <1>7, <1>8, ThreadsAre, IdleFits DEF Fits, Ways

LEMMA NamedZero ==
  ASSUME NEW S, NEW n, NEW k, NEW m, Stocked(S, n)
  PROVE  Named(0, k, m, S, n)
<1>1. \A s \in S : s.id # 0
  BY DEF Stocked, Row
<1>2. n \in 0..MaxIds
  BY DEF Stocked
<1> QED
  BY <1>1, <1>2, ClusterCloudAssumption DEF Named

LEMMA PlanFits ==
  ASSUME Typed, NEW c \in Records
  PROVE  plan.wishes[c] \subseteq Wish /\ plan.kinds[c] \in Kinds
BY ClusterRecordsAssumption DEF Typed

LEMMA BusyHeld ==
  ASSUME Fits, NEW c \in Records, NEW w \in Ways, task[<<c, w>>].todo # <<>>
  PROVE  cr[c].held /\ WorkFits(plan, c, task[<<c, w>>], cr[c], stock, ids)
<1>1. ThreadFits(plan, c, w, task[<<c, w>>], cr[c], stock, ids)
  BY DEF Fits, Ways
<1> QED
  BY <1>1 DEF ThreadFits, WorkFits

LEMMA RowsTyped ==
  ASSUME Typed, Fits, NEW c \in Records
  PROVE  /\ cr[c] \in Record
         /\ RecordFits(plan, c, cr[c], stock, ids)
         /\ ids \in Nat /\ events \in Nat
BY ClusterCloudAssumption DEF Typed, Fits, Stocked
-----------------------------------------------------------------------------
(* Users, Glance and time.                                                 *)

LEMMA CreateRecordFits ==
  ASSUME Typed, Fits, NEW c \in Records, CreateRecord(c), UNCHANGED <<task, gc>>
  PROVE  Typed' /\ Fits'
<1>1. PICK w \in plan.wishes[c] : cr' = [cr EXCEPT ![c] = [Absent EXCEPT !.at = "live", !.spec = w]]
  BY DEF CreateRecord
<1> DEFINE r2 == [Absent EXCEPT !.at = "live", !.spec = w]
<1>2. w \in Wish
  BY PlanFits
<1>3. Absent \in Record
  BY AbsentFits DEF RecordFits, Typed
<1>4. r2 \in Record
  BY <1>2, <1>3 DEF Record
<1>5. r2.at = "live" /\ r2.spec = w /\ r2.id = 0 /\ r2.phase = "" /\ r2.tries = 0
  BY DEF Absent
<1>6. ~r2.held /\ r2.tries <= 2
  BY DEF Absent
<1>7. cr' = [cr EXCEPT ![c] = r2]
  BY <1>1
<1>8. events' \in Nat
  BY RowsTyped DEF CreateRecord, Event
<1>9. ~cr[c].held
  BY RowsTyped DEF CreateRecord, RecordFits
<1> HIDE DEF r2
<1>10. Named(r2.id, plan.kinds[c], Mine(plan, c), stock, ids)
  BY <1>5, NamedZero DEF Typed
<1>11. RecordFits(plan, c, r2, stock, ids)
  BY <1>4, <1>5, <1>6, <1>10 DEF RecordFits
<1>12. \A v \in Ways : task[<<c, v>>].todo = <<>>
  BY <1>9, BusyHeld
<1>13. r2.held = cr[c].held
  BY <1>4, <1>6, <1>9, RowsTyped DEF Record
<1> QED
  BY <1>7, <1>8, <1>11, <1>12, <1>13, RecordMoves DEF CreateRecord

LEMMA EditRecordFits ==
  ASSUME Typed, Fits, NEW c \in Records, EditRecord(c), UNCHANGED <<task, gc>>
  PROVE  Typed' /\ Fits'
<1>1. PICK w \in plan.wishes[c] : cr' = [cr EXCEPT ![c].spec = w]
  BY DEF EditRecord
<1> DEFINE r2 == [cr[c] EXCEPT !.spec = w]
<1>2. w \in Wish /\ cr[c] \in Record /\ RecordFits(plan, c, cr[c], stock, ids)
  BY PlanFits, RowsTyped
<1>3. r2 \in Record /\ r2.spec = w
  BY <1>2 DEF Record
<1>4. /\ r2.at = cr[c].at /\ r2.id = cr[c].id /\ r2.phase = cr[c].phase
      /\ r2.tries = cr[c].tries /\ r2.held = cr[c].held
  BY <1>2 DEF Record
<1>5. cr' = [cr EXCEPT ![c] = r2]
  BY <1>1, <1>2 DEF Typed
<1>6. events' \in Nat
  BY RowsTyped DEF EditRecord, Event
<1> HIDE DEF r2
<1>7. RecordFits(plan, c, r2, stock, ids)
  BY <1>2, <1>3, <1>4 DEF RecordFits
<1>8. \A v \in Ways : task[<<c, v>>].todo # <<>> => Softer(plan.kinds[c], v, cr[c], r2)
  <2>1. r2.tries \in 0..3 /\ cr[c].tries \in 0..3
    BY <1>2, <1>3 DEF Record
  <2> QED
    BY <1>1, <1>3, <1>4, <2>1, BusyHeld DEF Softer
<1> QED
  BY <1>4, <1>5, <1>6, <1>7, <1>8, RecordMoves DEF EditRecord

LEMMA DeleteRecordFits ==
  ASSUME Typed, Fits, NEW c \in Records, DeleteRecord(c), UNCHANGED <<task, gc>>
  PROVE  Typed' /\ Fits'
<1> DEFINE r2 == IF cr[c].held THEN [cr[c] EXCEPT !.at = "deleting"] ELSE Absent
<1>1. cr' = [cr EXCEPT ![c] = r2]
  BY DEF DeleteRecord
<1>2. cr[c] \in Record /\ RecordFits(plan, c, cr[c], stock, ids) /\ events' \in Nat
  BY RowsTyped DEF DeleteRecord, Event
<1>3. CASE cr[c].held
  <2>1. r2 \in Record /\ r2.at = "deleting"
    BY <1>2, <1>3 DEF Record
  <2>2. /\ r2.spec = cr[c].spec /\ r2.id = cr[c].id /\ r2.phase = cr[c].phase
        /\ r2.tries = cr[c].tries /\ r2.held = cr[c].held
    BY <1>2, <1>3 DEF Record
  <2>3. cr[c].at = "live"
    BY DEF DeleteRecord, Live
  <2> HIDE DEF r2
  <2>4. RecordFits(plan, c, r2, stock, ids)
    BY <1>2, <2>1, <2>2, <2>3 DEF RecordFits
  <2>5. \A v \in Ways : Softer(plan.kinds[c], v, cr[c], r2)
    <3>1. r2.tries \in 0..3 /\ cr[c].tries \in 0..3
      BY <1>2, <2>1 DEF Record
    <3> QED
      BY <1>3, <2>1, <2>2, <3>1 DEF Softer
  <2> QED
    BY <1>1, <1>2, <2>2, <2>4, <2>5, RecordMoves DEF DeleteRecord
<1>4. CASE ~cr[c].held
  <2>1. r2 = Absent
    BY <1>4
  <2>2. ~Absent.held
    BY DEF Absent
  <2>3. RecordFits(plan, c, Absent, stock, ids)
    BY AbsentFits DEF Typed
  <2>4. \A v \in Ways : task[<<c, v>>].todo = <<>>
    BY <1>4, BusyHeld
  <2>5. Absent.held = cr[c].held
    BY <1>2, <1>4, <2>2, <2>3 DEF Record, RecordFits
  <2>6. cr' = [cr EXCEPT ![c] = Absent]
    BY <1>1, <2>1
  <2> HIDE DEF r2
  <2> QED
    BY <1>2, <2>3, <2>4, <2>5, <2>6, RecordMoves DEF DeleteRecord
<1> QED
  BY <1>3, <1>4

LEMMA ImportAgesFits ==
  ASSUME Typed, Fits, NEW c \in Records, ImportAges(c), UNCHANGED <<task, gc>>
  PROVE  Typed' /\ Fits'
<1>0. PICK late \in 0..2 : late = 2
  OBVIOUS
<1> DEFINE r2 == [cr[c] EXCEPT !.began = late]
<1>1. cr[c] \in Record /\ RecordFits(plan, c, cr[c], stock, ids) /\ events' \in Nat
  BY RowsTyped DEF ImportAges
<1>2. r2 \in Record
  <2>1. cr[c] \in Record
    BY <1>1
  <2> QED
    BY <2>1 DEF Record
<1>6. cr' = [cr EXCEPT ![c] = r2]
  BY <1>0 DEF Typed, ImportAges
<1>3. /\ r2.at = cr[c].at /\ r2.spec = cr[c].spec /\ r2.id = cr[c].id
      /\ r2.phase = cr[c].phase /\ r2.tries = cr[c].tries /\ r2.held = cr[c].held
  BY <1>1 DEF Record
<1> HIDE DEF r2
<1>4. RecordFits(plan, c, r2, stock, ids)
  BY <1>1, <1>2, <1>3 DEF RecordFits
<1>5. \A v \in Ways : task[<<c, v>>].todo # <<>> => Softer(plan.kinds[c], v, cr[c], r2)
  <2>1. r2.tries \in 0..3 /\ cr[c].tries \in 0..3
    BY <1>1, <1>2 DEF Record
  <2> QED
    BY <1>3, <2>1, BusyHeld DEF Softer
<1> QED
  BY <1>1, <1>3, <1>4, <1>5, <1>6, RecordMoves DEF ImportAges

LEMMA NewRowIs ==
  ASSUME NEW id \in 1..MaxIds, NEW k \in Kinds, NEW w \in Wish, NEW own \in BOOLEAN
  PROVE  /\ NewRow(id, k, w, own) \in Row
         /\ NewRow(id, k, w, own).id = id
         /\ NewRow(id, k, w, own).kind = k
         /\ NewRow(id, k, w, own).name = w.name
         /\ k = "image" => NewRow(id, k, w, own).state = "queued"
BY DEF NewRow, Row, Wish

\* The world changes so that what is there was there, or is new.
LEMMA UploadImageFits ==
  ASSUME Typed, Fits, NEW c \in Records, UploadImage(c), UNCHANGED <<task, gc>>
  PROVE  Typed' /\ Fits'
<1>1. PICK w \in plan.wishes[c] :
        stock' = {r \in stock : r.own \/ r.name # w.name} \cup {NewRow(ids + 1, "image", w, FALSE)}
  BY DEF UploadImage
<1> DEFINE S == {r \in stock : r.own \/ r.name # w.name}
           u == NewRow(ids + 1, "image", w, FALSE)
<1>2. w \in Wish /\ ids \in Nat /\ events' \in Nat /\ ids' = ids + 1 /\ ids + 1 \in 1..MaxIds
  BY PlanFits, RowsTyped, ClusterCloudAssumption DEF UploadImage, Event
<1>3. u \in Row /\ u.id = ids + 1
  BY <1>2, NewRowIs DEF Kinds
<1>4. Stocked(S, ids) /\ S \subseteq stock
  BY <1>2, FewerGrown DEF Typed
<1>5. stock' = S \cup {u}
  BY <1>1
<1> HIDE DEF S, u
<1>6. Stocked(stock', ids') /\ Grown(S, ids, stock', ids')
  BY <1>2, <1>3, <1>4, <1>5, AddedGrown
<1>7. Grown(stock, ids, stock', ids')
  BY <1>4, <1>6 DEF Grown
<1> QED
  BY <1>2, <1>6, <1>7, StockMoves DEF UploadImage

LEMMA LoseResourceFits ==
  ASSUME Typed, Fits, LoseResource, UNCHANGED <<task, gc>>
  PROVE  Typed' /\ Fits'
<1>1. ids \in Nat /\ events' \in Nat
  BY ClusterCloudAssumption DEF Typed, Stocked, LoseResource, Fault, Event
<1>2. stock' \in SUBSET stock
  BY DEF LoseResource
<1>3. Stocked(stock', ids) /\ Grown(stock, ids, stock', ids)
  BY <1>1, <1>2, FewerGrown DEF Typed
<1> QED
  BY <1>1, <1>3, StockMoves DEF LoseResource

LEMMA ImportGoesOnFits ==
  ASSUME Typed, Fits, ImportGoesOn, UNCHANGED <<task, gc>>
  PROVE  /\ Typed' /\ Fits'
         /\ \A m : Kept(stock, stock', m)
<1>1. PICK r \in stock, s \in {"queued", "busy", "active", "killed"} :
        r.state \in {"queued", "busy"} /\ stock' = Replaced(r, [r EXCEPT !.state = s])
  BY DEF ImportGoesOn
<1> DEFINE u == [r EXCEPT !.state = s]
<1>2. r \in Row /\ ids \in Nat
  BY ClusterCloudAssumption DEF Typed, Stocked
<1>3. u \in Row /\ Alike(r, u)
  BY <1>1, <1>2 DEF Row, Alike
<1>4. stock' = (stock \ {r}) \cup {u}
  BY <1>1 DEF Replaced
<1> HIDE DEF u
<1>5. Stocked(stock', ids) /\ Grown(stock, ids, stock', ids) /\ \A m : Kept(stock, stock', m)
  BY <1>2, <1>3, <1>4, ReplacedGrown DEF Typed
<1>6. ids' = ids /\ UNCHANGED records /\ events' \in Nat
  BY DEF ImportGoesOn, records, Typed
<1> QED
  BY <1>5, <1>6, StockMoves DEF records

-----------------------------------------------------------------------------
(* Programs.                                                               *)

LEMMA HeadTail ==
  ASSUME NEW Q, NEW s \in Seq(Q), s # <<>>
  PROVE  Head(s) \in Q /\ Tail(s) \in Seq(Q)
OBVIOUS

LEMMA Skipped ==
  ASSUME NEW Q, NEW s \in Seq(Q)
  PROVE  SubSeq(s, 4, Len(s)) \in Seq(Q)
<1>1. CASE Len(s) >= 3
  BY <1>1, SubSeqProperties
<1>2. CASE Len(s) < 3
  BY <1>2
<1> QED
  BY <1>1, <1>2

\* The steps of an import, one after the other.
Follows(a, b) ==
  \/ a = "find" /\ b = "make"
  \/ a = "make" /\ b = "blob"
  \/ a = "blob" /\ b = "whole"
  \/ a = "whole" /\ b = "enlist"
  \/ a = "enlist" /\ b = "patch"

LEMMA MakeTodoGoes ==
  ASSUME NEW s \in MakeTodos, Head(s) # "patch"
  PROVE  /\ Tail(s) \in MakeTodos
         /\ Tail(s) # <<>>
         /\ Follows(Head(s), Head(Tail(s)))
<1>1. CASE s = <<"find", "make", "blob", "whole", "enlist", "patch">>
  <2>1. Tail(s) = <<"make", "blob", "whole", "enlist", "patch">>
    BY <1>1
  <2> QED
    BY <1>1, <2>1 DEF MakeTodos, Follows
<1>2. CASE s = <<"make", "blob", "whole", "enlist", "patch">>
  <2>1. Tail(s) = <<"blob", "whole", "enlist", "patch">>
    BY <1>2
  <2> QED
    BY <1>2, <2>1 DEF MakeTodos, Follows
<1>3. CASE s = <<"blob", "whole", "enlist", "patch">>
  <2>1. Tail(s) = <<"whole", "enlist", "patch">>
    BY <1>3
  <2> QED
    BY <1>3, <2>1 DEF MakeTodos, Follows
<1>4. CASE s = <<"whole", "enlist", "patch">>
  <2>1. Tail(s) = <<"enlist", "patch">>
    BY <1>4
  <2> QED
    BY <1>4, <2>1 DEF MakeTodos, Follows
<1>5. CASE s = <<"enlist", "patch">>
  <2>1. Tail(s) = <<"patch">>
    BY <1>5
  <2> QED
    BY <1>5, <2>1 DEF MakeTodos, Follows
<1>6. CASE s = <<"patch">>
  BY <1>6
<1> QED
  BY <1>1, <1>2, <1>3, <1>4, <1>5, <1>6 DEF MakeTodos

LEMMA MakeTodoIs ==
  ASSUME NEW s \in MakeTodos
  PROVE  /\ s # <<>>
         /\ s \in Seq(MakeSteps)
         /\ Head(s) \in MakeSteps
         /\ Head(s) = "blob" => s[3] = "enlist"
         /\ Head(s) = "patch" => s = <<"patch">>
<1>1. CASE s = <<"find", "make", "blob", "whole", "enlist", "patch">>
  BY <1>1 DEF MakeSteps
<1>2. CASE s = <<"make", "blob", "whole", "enlist", "patch">>
  BY <1>2 DEF MakeSteps
<1>3. CASE s = <<"blob", "whole", "enlist", "patch">>
  BY <1>3 DEF MakeSteps
<1>4. CASE s = <<"whole", "enlist", "patch">>
  BY <1>4 DEF MakeSteps
<1>5. CASE s = <<"enlist", "patch">>
  BY <1>5 DEF MakeSteps
<1>6. CASE s = <<"patch">>
  BY <1>6 DEF MakeSteps
<1> QED
  BY <1>1, <1>2, <1>3, <1>4, <1>5, <1>6 DEF MakeTodos

\* The other programs of the threads of an image.
LEMMA ShortTodos ==
  /\ \A b : /\ <<b, "patch">> # <<>> /\ Head(<<b, "patch">>) = b
            /\ Tail(<<b, "patch">>) = <<"patch">>
  /\ <<"patch">> # <<>> /\ Head(<<"patch">>) = "patch"
OBVIOUS

\* One program after the other.
LEMMA Concat ==
  ASSUME NEW Q, NEW s \in Seq(Q), NEW u \in Seq(Q), NEW k \in Nat, NEW l \in Nat,
         Len(s) = k, Len(u) = l
  PROVE  /\ s \o u \in Seq(Q)
         /\ Len(s \o u) = k + l
         /\ \A i \in 1..k : (s \o u)[i] = s[i]
         /\ \A i \in 1..l : (s \o u)[k + i] = u[i]
<1>1. s \o u \in Seq(Q) /\ Len(s \o u) = k + l
  OBVIOUS
<1>2. \A i \in 1..k : (s \o u)[i] = s[i]
  OBVIOUS
<1>3. \A i \in 1..l : (s \o u)[k + i] = u[i]
  OBVIOUS
<1> QED
  BY <1>1, <1>2, <1>3

LEMMA OfTwo ==
  ASSUME NEW Q, NEW v \in Seq(Q), NEW k \in Nat, Len(v) = k, k = 2
  PROVE  v = <<v[1], v[2]>>
OBVIOUS
LEMMA OfFive ==
  ASSUME NEW Q, NEW v \in Seq(Q), NEW k \in Nat, Len(v) = k, k = 5
  PROVE  v = <<v[1], v[2], v[3], v[4], v[5]>>
OBVIOUS
LEMMA OfSix ==
  ASSUME NEW Q, NEW v \in Seq(Q), NEW k \in Nat, Len(v) = k, k = 6
  PROVE  v = <<v[1], v[2], v[3], v[4], v[5], v[6]>>
OBVIOUS

LEMMA OneAndOne ==
  ASSUME NEW a, NEW b
  PROVE  <<a>> \o <<b>> = <<a, b>>
<1> DEFINE s == <<a>>
           u == <<b>>
           v == s \o u
           Q == {a, b}
<1>0. PICK k \in Nat : k = 1
  OBVIOUS
<1>1. s \in Seq(Q) /\ u \in Seq(Q) /\ s[1] = a /\ u[1] = b
  OBVIOUS
<1>2. Len(s) = k /\ Len(u) = k
  BY <1>0
<1> HIDE DEF s, u, Q
<1>3. v \in Seq(Q) /\ Len(v) = k + k /\ (\A i \in 1..k : v[i] = s[i]) /\ \A i \in 1..k : v[k + i] = u[i]
  BY <1>1, <1>2, Concat
<1> HIDE DEF v
<1>4. v[1] = a /\ v[2] = b
  BY <1>0, <1>1, <1>3
<1>5. v = <<v[1], v[2]>>
  BY <1>0, <1>3, OfTwo
<1>6. v = <<a, b>>
  BY <1>4, <1>5
<1> QED
  BY <1>6 DEF v, s, u

LEMMA TwoAndThree ==
  ASSUME NEW a, NEW b, NEW c, NEW d, NEW e
  PROVE  <<a, b>> \o <<c, d, e>> = <<a, b, c, d, e>>
<1> DEFINE s == <<a, b>>
           u == <<c, d, e>>
           v == s \o u
           Q == {a, b, c, d, e}
<1>0. PICK k \in Nat, l \in Nat : k = 2 /\ l = 3
  OBVIOUS
<1>1. s \in Seq(Q) /\ u \in Seq(Q)
  OBVIOUS
<1>2. s[1] = a /\ s[2] = b /\ u[1] = c /\ u[2] = d /\ u[3] = e
  OBVIOUS
<1>3. Len(s) = k /\ Len(u) = l
  BY <1>0
<1> HIDE DEF s, u, Q
<1>4. v \in Seq(Q) /\ Len(v) = k + l /\ (\A i \in 1..k : v[i] = s[i]) /\ \A i \in 1..l : v[k + i] = u[i]
  BY <1>1, <1>3, Concat
<1> HIDE DEF v
<1>5. v[1] = a /\ v[2] = b
  BY <1>0, <1>2, <1>4
<1>6. v[3] = c /\ v[4] = d /\ v[5] = e
  BY <1>0, <1>2, <1>4
<1>7. v = <<v[1], v[2], v[3], v[4], v[5]>>
  BY <1>0, <1>4, OfFive
<1>8. v = <<a, b, c, d, e>>
  BY <1>5, <1>6, <1>7
<1> QED
  BY <1>8 DEF v, s, u

LEMMA FiveAndOne ==
  ASSUME NEW a, NEW b, NEW c, NEW d, NEW e, NEW f
  PROVE  <<a, b, c, d, e>> \o <<f>> = <<a, b, c, d, e, f>>
<1> DEFINE s == <<a, b, c, d, e>>
           u == <<f>>
           v == s \o u
           Q == {a, b, c, d, e, f}
<1>0. PICK k \in Nat, l \in Nat : k = 5 /\ l = 1
  OBVIOUS
<1>1. s \in Seq(Q) /\ u \in Seq(Q)
  OBVIOUS
<1>2. s[1] = a /\ s[2] = b /\ s[3] = c /\ s[4] = d /\ s[5] = e /\ u[1] = f
  OBVIOUS
<1>3. Len(s) = k /\ Len(u) = l
  BY <1>0
<1> HIDE DEF s, u, Q
<1>4. v \in Seq(Q) /\ Len(v) = k + l /\ (\A i \in 1..k : v[i] = s[i]) /\ \A i \in 1..l : v[k + i] = u[i]
  BY <1>1, <1>3, Concat
<1> HIDE DEF v
<1>5. v[1] = a /\ v[2] = b /\ v[3] = c /\ v[4] = d /\ v[5] = e
  BY <1>0, <1>2, <1>4
<1>6. v[6] = f
  BY <1>0, <1>2, <1>4
<1>7. v = <<v[1], v[2], v[3], v[4], v[5], v[6]>>
  BY <1>0, <1>4, OfSix
<1>8. v = <<a, b, c, d, e, f>>
  BY <1>5, <1>6, <1>7
<1> QED
  BY <1>8 DEF v, s, u

\* What the handlers of images are given to do.
LEMMA ImagePrograms ==
  /\ <<"find", "make">> \o Register \o <<"patch">> \in MakeTodos
  /\ Head(<<"find", "make">> \o Register \o <<"patch">>) = "find"
  /\ <<"find">> \o <<"patch">> = <<"find", "patch">>
  /\ <<"settings">> \o <<"patch">> = <<"settings", "patch">>
<1>1. <<"find", "make">> \o Register = <<"find", "make", "blob", "whole", "enlist">>
  BY TwoAndThree DEF Register
<1>2. <<"find", "make">> \o Register \o <<"patch">> = <<"find", "make", "blob", "whole", "enlist", "patch">>
  BY <1>1, FiveAndOne
<1>3. <<"find", "make", "blob", "whole", "enlist", "patch">> \in MakeTodos
  BY DEF MakeTodos
<1>4. Head(<<"find", "make", "blob", "whole", "enlist", "patch">>) = "find"
  OBVIOUS
<1> QED
  BY <1>2, <1>3, <1>4, OneAndOne

LEMMA Joined ==
  ASSUME NEW Q, NEW s \in Seq(Q), NEW u \in Seq(Q)
  PROVE  s \o u \in Seq(Q)
OBVIOUS

-----------------------------------------------------------------------------
(* Threads that go on, and threads that fail.                              *)

\* x is what th is when it has taken its first step.
Onward(th, x) ==
  /\ x \in Thread
  /\ x.todo = Tail(th.todo)
  /\ x.fn = th.fn /\ x.cr = th.cr /\ x.kind = th.kind /\ x.spec = th.spec
  /\ x.was = th.was /\ x.tries = th.tries /\ x.put = th.put
  /\ \/ x.end = th.end
     \/ x.end = "missing" /\ th.spec.external /\ Head(th.todo) = "find"

LEMMA OnwardWork ==
  ASSUME NEW pl, NEW d, NEW th \in Thread, NEW x, NEW r, NEW S, NEW n,
         WorkFits(pl, d, th, r, S, n), th.todo # <<>>, Head(th.todo) # "patch",
         Onward(th, x), Named(x.id, th.kind, Mine(pl, th.cr), S, n)
  PROVE  WorkFits(pl, d, x, r, S, n)
<1>1. th.fn = "create" => x.todo \in Seq(MakeSteps) /\ x.end # "permanent"
  BY HeadTail DEF WorkFits, Onward
<1>2. th.end # "permanent"
  BY DEF WorkFits
<1>3. x.end # "permanent"
  BY <1>2 DEF Onward
<1> QED
  BY <1>1, <1>3 DEF WorkFits, Onward

\* An image thread: what it saw holds, or it holds what it saw before.
LEMMA OnwardImage ==
  ASSUME NEW w, NEW th \in Thread, NEW x, NEW r, NEW S,
         ImageFits(w, th, r, S), th.todo # <<>>, Onward(th, x),
         Head(th.todo) \notin {"patch", "look", "release"},
         SeenFits(x, S) \/ (x.id = th.id /\ x.seen = th.seen /\ Head(th.todo) # "find"),
         th.spec.external \in BOOLEAN
  PROVE  ImageFits(w, x, r, S)
<1>1. ASSUME Making(th)
      PROVE  Making(x) /\ Head(x.todo) # "find"
  <2>1. Tail(th.todo) \in MakeTodos /\ Tail(th.todo) # <<>> /\ Head(Tail(th.todo)) # "find"
    BY <1>1, MakeTodoGoes DEF Making, Follows
  <2> QED
    BY <1>1, <2>1 DEF Making, Onward
<1>2. ASSUME Finding(th)
      PROVE  Finding(x)
  <2>1. th.todo = <<"find", "patch">>
    BY <1>2, ShortTodos DEF Finding, FindTodos
  <2>2. x.todo = <<"patch">>
    BY <2>1, ShortTodos DEF Onward
  <2> QED
    BY <1>2, <2>2, ShortTodos DEF Finding, FindTodos, Onward
<1>3. ASSUME w = "change", ChangeFits(th, r)
      PROVE  ChangeFits(x, r)
  <2>1. CASE th.fn = "create"
    BY <1>1, <1>2, <1>3, <2>1 DEF ChangeFits, Onward
  <2>2. CASE th.fn = "update"
    <3>1. th.todo = <<"settings", "patch">> /\ th.end \in {"ok", "failed"}
      BY <1>3, <2>2, ShortTodos DEF ChangeFits
    <3>2. x.todo = <<"patch">>
      BY <3>1, ShortTodos DEF Onward
    <3>3. x.end \in {"ok", "failed"}
      BY <3>1, ShortTodos DEF Onward
    <3> QED
      BY <2>2, <3>2, <3>3, ShortTodos DEF ChangeFits, Onward
  <2>3. CASE th.fn = "delete"
    <3>1. th.todo \in Seq(DeleteSteps) /\ r.at = "deleting"
      BY <1>3, <2>3 DEF ChangeFits
    <3>2. x.todo \in Seq(DeleteSteps)
      BY <3>1, HeadTail DEF Onward
    <3> QED
      BY <2>3, <3>1, <3>2 DEF ChangeFits, Onward
  <2> QED
    BY <1>3, <2>1, <2>2, <2>3 DEF ChangeFits
<1>4. ASSUME w = "timer", TimerFits(th, S)
      PROVE  TimerFits(x, S)
  <2>1. CASE th.fn = "look"
    <3>1. th.todo = <<"settings", "patch">> /\ th.put.phase \in {"same", "Pending"} /\ th.put.tries = -1
      BY <1>4, <2>1, ShortTodos DEF TimerFits
    <3>2. x.todo = <<"patch">>
      BY <3>1, ShortTodos DEF Onward
    <3> QED
      BY <2>1, <3>1, <3>2 DEF TimerFits, Onward
  <2>2. CASE th.fn = "recreate" /\ Finding(th)
    BY <1>2, <2>2 DEF TimerFits, Onward
  <2>3. CASE th.fn = "recreate" /\ Making(th)
    <3>1. Making(x) /\ Head(x.todo) # "find" /\ x.fn = "recreate"
      BY <1>1, <2>3 DEF Onward
    <3>2. Head(th.todo) = "find" \/ th.end = "failed" \/ SeenFits(th, S)
      BY <1>4, <2>3 DEF TimerFits, Making, Finding
    <3>3. x.end = "failed" \/ SeenFits(x, S)
      <4>1. th.end = "failed" => x.end = "failed"
        BY <2>3 DEF Making, Onward
      <4>2. SeenFits(th, S) /\ x.id = th.id /\ x.seen = th.seen => SeenFits(x, S)
        BY DEF SeenFits
      <4> QED
        BY <3>2, <4>1, <4>2
    <3> QED
      BY <3>1, <3>3 DEF TimerFits
  <2> QED
    BY <1>4, <2>1, <2>2, <2>3 DEF TimerFits
<1>5. ASSUME w = "poll", PollFits(th, r)
      PROVE  PollFits(x, r)
  <2>1. th.todo = <<"drop", "patch">> /\ th.put = Retried(th)
    BY <1>5, ShortTodos DEF PollFits
  <2>2. x.todo = <<"patch">>
    BY <2>1, ShortTodos DEF Onward
  <2>3. Retried(x) = Retried(th)
    BY DEF Retried, Onward
  <2> QED
    BY <1>5, <2>1, <2>2, <2>3 DEF PollFits, Onward
<1> QED
  BY <1>3, <1>4, <1>5 DEF ImageFits

LEMMA OnwardFits ==
  ASSUME NEW pl, NEW d, NEW w, NEW th, NEW x, NEW r, NEW S, NEW n, pl.wishes[d] \subseteq Wish,
         ThreadFits(pl, d, w, th, r, S, n), th.todo # <<>>, Onward(th, x),
         Head(th.todo) \notin {"patch", "look", "release"},
         \/ pl.kinds[d] # "image" \/ SeenFits(x, S)
         \/ x.id = th.id /\ x.seen = th.seen /\ Head(th.todo) # "find",
         Named(x.id, th.kind, Mine(pl, th.cr), S, n),
         BlobFits(pl, x.blob, th.kind, S, n), RegistryFits(pl, x.whole, S, n)
  PROVE  ThreadFits(pl, d, w, x, r, S, n)
<1>1. th \in Thread /\ WorkFits(pl, d, th, r, S, n)
  BY DEF ThreadFits
<1>2. th.spec.external \in BOOLEAN
  <2>1. th.spec \in Wish
    BY <1>1 DEF WorkFits
  <2> QED
    BY <2>1 DEF Wish
<1>3. WorkFits(pl, d, x, r, S, n)
  BY <1>1, OnwardWork
<1>4. pl.kinds[d] = "image" => ImageFits(w, x, r, S)
  BY <1>1, <1>2, OnwardImage DEF ThreadFits
<1>5. x \in Thread /\ x.kind = th.kind
  BY DEF Onward
<1> QED
  BY <1>3, <1>4, <1>5 DEF ThreadFits

LEMMA FailedImage ==
  ASSUME NEW w, NEW th, NEW x, NEW r, NEW S,
         ImageFits(w, th, r, S), th.fn # "delete",
         x.fn = th.fn, x.spec = th.spec, x.tries = th.tries, x.put = th.put,
         x.todo = <<"patch">>, x.end = "failed"
  PROVE  ImageFits(w, x, r, S)
<1>1. <<"patch">> \in MakeTodos /\ <<"patch">> \in FindTodos
  BY DEF MakeTodos, FindTodos
<1>2. Making(th) => Making(x)
  BY <1>1 DEF Making
<1>3. Finding(th) => Finding(x)
  BY <1>1 DEF Finding
<1>4. ChangeFits(th, r) => ChangeFits(x, r)
  BY <1>2, <1>3 DEF ChangeFits
<1>5. TimerFits(th, S) => TimerFits(x, S)
  BY <1>2, <1>3 DEF TimerFits
<1>6. PollFits(th, r) => PollFits(x, r)
  <2>1. Retried(x) = Retried(th)
    BY DEF Retried
  <2>2. Same \in [phase : {"same", "Ready", "Error"}, id : {-1}, tries : {-1}, began : -1..2]
    BY DEF Same
  <2> QED
    BY <2>1, <2>2 DEF PollFits
<1> QED
  BY <1>4, <1>5, <1>6 DEF ImageFits

\* A thread that fails still fits.
LEMMA FailedFits ==
  ASSUME NEW pl, NEW d, NEW w, NEW t, NEW th, NEW r, NEW S, NEW n,
         ThreadFits(pl, d, w, th, r, S, n), th.todo # <<>>
  PROVE  ThreadFits(pl, d, w, Failed(t, th), r, S, n)
<1>1. th \in Thread /\ WorkFits(pl, d, th, r, S, n) /\ (pl.kinds[d] = "image" => ImageFits(w, th, r, S))
  BY DEF ThreadFits
<1>2. CASE th.fn = "delete"
  <2>1. Failed(t, th) = Idle
    BY <1>2 DEF Failed
  <2> QED
    BY <2>1, IdleFits
<1>3. CASE th.fn # "delete"
  <2> DEFINE x == [th EXCEPT !.todo = <<"patch">>, !.end = "failed"]
  <2>1. th.fn \in {"create", "update", "look", "recreate", "poll"}
    BY <1>1, <1>3 DEF WorkFits
  <2>2. Failed(t, th) = x
    BY <2>1 DEF Failed
  <2>3. <<"patch">> \in Seq(Steps) /\ <<"patch">> \in Seq(MakeSteps)
    BY DEF Steps, MakeSteps
  <2>4. x \in Thread
    BY <1>1, <2>3 DEF Thread
  <2>5. /\ x.todo = <<"patch">> /\ x.end = "failed" /\ x.fn = th.fn /\ x.cr = th.cr
        /\ x.kind = th.kind /\ x.spec = th.spec /\ x.id = th.id /\ x.was = th.was
        /\ x.tries = th.tries /\ x.put = th.put /\ x.blob = th.blob /\ x.whole = th.whole
    BY <1>1 DEF Thread
  <2> HIDE DEF x
  <2>6. WorkFits(pl, d, x, r, S, n)
    BY <1>1, <2>3, <2>5 DEF WorkFits
  <2>7. pl.kinds[d] = "image" => ImageFits(w, x, r, S)
    BY <1>1, <1>3, <2>5, FailedImage
  <2>8. ThreadFits(pl, d, w, x, r, S, n)
    BY <2>4, <2>5, <2>6, <2>7 DEF ThreadFits
  <2> QED
    BY <2>2, <2>8
<1> QED
  BY <1>2, <1>3

-----------------------------------------------------------------------------
(* What the calls of a step do to the resources.                           *)

LEMMA FoundIs ==
  ASSUME NEW r \in Row, NEW v \in Wish
  PROVE  FoundAs(r, v) \in Row /\ Alike(r, FoundAs(r, v))
<1>1. v.extra \in SUBSET Extras /\ r.extra \in SUBSET Extras /\ r.kind \in Kinds
  BY DEF Wish, Row
<1>2. [r EXCEPT !.extra = v.extra] \in Row /\ Alike(r, [r EXCEPT !.extra = v.extra])
  BY <1>1 DEF Row, Alike
<1>3. [r EXCEPT !.extra = @ \cup v.extra] \in Row /\ Alike(r, [r EXCEPT !.extra = @ \cup v.extra])
  BY <1>1 DEF Row, Alike
<1>4. Alike(r, r)
  BY DEF Alike
<1>5. CASE r.kind = "domain"
  BY <1>2, <1>5 DEF FoundAs, FoundDomain
<1>6. CASE r.kind = "flavor"
  BY <1>3, <1>6 DEF FoundAs, FoundFlavor
<1>7. CASE r.kind = "image"
  BY <1>2, <1>7 DEF FoundAs, FoundImage, ConfiguredImage
<1>8. CASE r.kind = "network"
  BY <1>4, <1>8 DEF FoundAs, FoundNetwork
<1>9. CASE r.kind = "policy"
  BY <1>4, <1>9 DEF FoundAs, FoundPolicy
<1> QED
  BY <1>1, <1>5, <1>6, <1>7, <1>8, <1>9 DEF Kinds

LEMMA UpdatedIs ==
  ASSUME NEW r \in Row, NEW v \in Wish
  PROVE  Updated(r, v) \in Row /\ Alike(r, Updated(r, v))
<1>1. v.extra \in SUBSET Extras /\ r.extra \in SUBSET Extras /\ r.kind \in Kinds
  BY DEF Wish, Row
<1>2. [r EXCEPT !.extra = v.extra] \in Row /\ Alike(r, [r EXCEPT !.extra = v.extra])
  BY <1>1 DEF Row, Alike
<1>3. [r EXCEPT !.extra = @ \cup v.extra] \in Row /\ Alike(r, [r EXCEPT !.extra = @ \cup v.extra])
  BY <1>1 DEF Row, Alike
<1>4. CASE r.kind \in {"domain", "image", "policy"}
  BY <1>2, <1>4 DEF Updated
<1>5. CASE r.kind = "flavor"
  BY <1>3, <1>5 DEF Updated, FoundFlavor
<1>6. CASE r.kind = "network"
  BY <1>3, <1>6 DEF Updated, UpdatedSubnets
<1> QED
  BY <1>1, <1>4, <1>5, <1>6 DEF Kinds

LEMMA HalfDeletedIs ==
  ASSUME NEW r \in Row
  PROVE  HalfDeleted(r) \in Row /\ Alike(r, HalfDeleted(r))
<1>1. [r EXCEPT !.extra = {}] \in Row /\ Alike(r, [r EXCEPT !.extra = {}])
  BY DEF Row, Alike
<1>2. Alike(r, r)
  BY DEF Alike
<1> QED
  BY <1>1, <1>2 DEF HalfDeleted

\* Resources of T are changed, all others stay.
LEMMA SetInPlace ==
  ASSUME NEW S, NEW n \in Nat, Stocked(S, n), NEW T, NEW v \in Wish,
         NEW S2, \A u : u \in S2 <=> \E r \in S : u = IF r \in T THEN Updated(r, v) ELSE r
  PROVE  Stocked(S2, n) /\ Grown(S, n, S2, n) /\ \A m : Kept(S, S2, m)
<1>1. \A r \in S : r \in Row
  BY DEF Stocked
<1> DEFINE To(r) == IF r \in T THEN Updated(r, v) ELSE r
<1>2. \A r \in S : To(r) \in Row /\ Alike(r, To(r))
  BY <1>1, UpdatedIs DEF Alike
<1>3. \A u : u \in S2 <=> \E r \in S : u = To(r)
  OBVIOUS
<1> HIDE DEF To
<1>4. S2 \subseteq Row
  BY <1>2, <1>3
<1>5. \A u \in S2 : \E s \in S : u = To(s) /\ Alike(s, u)
  BY <1>2, <1>3
<1>6. \A s \in S : \E u \in S2 : Alike(s, u)
  BY <1>2, <1>3
<1>7. ASSUME NEW u \in S2, NEW x \in S2, u.id = x.id PROVE u = x
  <2>1. PICK r \in S : u = To(r) /\ Alike(r, u)
    BY <1>5
  <2>2. PICK s \in S : x = To(s) /\ Alike(s, x)
    BY <1>5
  <2>3. r.id = s.id
    BY <1>7, <2>1, <2>2 DEF Alike
  <2>4. r = s
    BY <2>3 DEF Stocked
  <2> QED
    BY <2>1, <2>2, <2>4
<1>8. Refit(S, S2)
  BY <1>4, <1>5, <1>6, <1>7 DEF Refit
<1> QED
  BY <1>8, RefitGrown

LEMMA HalfDeletedInPlace ==
  ASSUME NEW S, NEW n \in Nat, Stocked(S, n), NEW T,
         NEW S2, S2 = {IF r \in T THEN HalfDeleted(r) ELSE r : r \in S}
  PROVE  Stocked(S2, n) /\ Grown(S, n, S2, n) /\ \A m : Kept(S, S2, m)
<1>1. \A r \in S : r \in Row
  BY DEF Stocked
<1> DEFINE To(r) == IF r \in T THEN HalfDeleted(r) ELSE r
<1>2. \A r \in S : To(r) \in Row /\ Alike(r, To(r))
  BY <1>1, HalfDeletedIs DEF Alike
<1>3. S2 = {To(r) : r \in S}
  OBVIOUS
<1> HIDE DEF To
<1>4. S2 \subseteq Row
  BY <1>2, <1>3
<1>5. \A u \in S2 : \E s \in S : u = To(s) /\ Alike(s, u)
  BY <1>2, <1>3
<1>6. \A s \in S : \E u \in S2 : Alike(s, u)
  BY <1>2, <1>3
<1>7. ASSUME NEW u \in S2, NEW x \in S2, u.id = x.id PROVE u = x
  <2>1. PICK r \in S : u = To(r) /\ Alike(r, u)
    BY <1>5
  <2>2. PICK s \in S : x = To(s) /\ Alike(s, x)
    BY <1>5
  <2>3. r.id = s.id
    BY <1>7, <2>1, <2>2 DEF Alike
  <2>4. r = s
    BY <2>3 DEF Stocked
  <2> QED
    BY <2>1, <2>2, <2>4
<1>8. Refit(S, S2)
  BY <1>4, <1>5, <1>6, <1>7 DEF Refit
<1> QED
  BY <1>8, RefitGrown

\* What a creation leaves, when all goes well and when it does not.
LEMMA HalfMadeIs ==
  ASSUME NEW r \in Row
  PROVE  /\ HalfMade(r) \in Row /\ HalfMade(r).id = r.id
         /\ HalfMade(r).kind = r.kind /\ HalfMade(r).name = r.name
<1>1. CASE r.kind = "image"
  <2>1. PICK bare \in {"bare", "queued", "busy", "active", "killed"} : bare = "bare"
    OBVIOUS
  <2>2. HalfMade(r) = [r EXCEPT !.state = bare]
    BY <1>1, <2>1 DEF HalfMade
  <2> QED
    BY <2>2 DEF Row
<1>2. CASE r.kind \in {"flavor", "network"}
  <2>1. HalfMade(r) = [r EXCEPT !.extra = {}]
    BY <1>2 DEF HalfMade
  <2> QED
    BY <2>1 DEF Row
<1>3. CASE r.kind \notin {"image", "flavor", "network"}
  BY <1>3 DEF HalfMade
<1> QED
  BY <1>1, <1>2, <1>3

LEMMA RepeatedGrown ==
  ASSUME NEW S, NEW n \in Nat, Stocked(S, n), NEW u \in Row, u.id = n + 1, n + 2 <= MaxIds,
         NEW S2, S2 = S \cup Repeated(u)
  PROVE  Stocked(S2, n + 2) /\ Grown(S, n, S2, n + 2) /\ \A m : Kept(S, S2, m)
<1> DEFINE h == HalfMade(u)
           v == [u EXCEPT !.id = @ + 1]
           T == S \cup {h}
<1>1. h \in Row /\ h.id = n + 1
  BY HalfMadeIs
<1>2. v \in Row /\ v.id = (n + 1) + 1
  <2>1. u.id + 1 \in 1..MaxIds
    BY ClusterCloudAssumption
  <2> QED
    BY <2>1 DEF Row
<1>3. S2 = T \cup {v}
  BY DEF Repeated
<1> HIDE DEF h, v
<1>4. n + 1 <= MaxIds
  BY ClusterCloudAssumption
<1>5. Stocked(T, n + 1) /\ Grown(S, n, T, n + 1) /\ \A m : Kept(S, T, m)
  BY <1>1, <1>4, AddedGrown
<1> HIDE DEF T
<1>6. Stocked(S2, (n + 1) + 1) /\ Grown(T, n + 1, S2, (n + 1) + 1) /\ \A m : Kept(T, S2, m)
  BY <1>2, <1>3, <1>5, ClusterCloudAssumption, AddedGrown
<1>7. (n + 1) + 1 = n + 2
  OBVIOUS
<1>8. Grown(S, n, S2, n + 2)
  <2> SUFFICES ASSUME NEW z \in S2 PROVE z.id > n \/ \E s \in S : Alike(s, z)
    BY DEF Grown
  <2>1. CASE z.id > n + 1
    <3>1. z.id \in Int
      BY <1>6 DEF Stocked, Row
    <3> QED
      BY <2>1, <3>1
  <2>2. CASE ~ z.id > n + 1
    <3>1. PICK y \in T : Alike(y, z)
      BY <1>6, <2>2 DEF Grown
    <3>2. y.id > n \/ \E s \in S : Alike(s, y)
      BY <1>5 DEF Grown
    <3> QED
      BY <3>1, <3>2 DEF Alike
  <2> QED
    BY <2>1, <2>2
<1>9. \A m : Kept(S, S2, m)
  BY <1>3 DEF Kept, Alike, T
<1> QED
  BY <1>6, <1>7, <1>8, <1>9

-----------------------------------------------------------------------------
(* The steps of a handler or timer of record c.                            *)

LEMMA ThreadIs ==
  ASSUME Typed, Fits, NEW c \in Records, NEW w \in Ways, Busy(<<c, w>>)
  PROVE  /\ task[<<c, w>>] \in Thread
         /\ task[<<c, w>>].todo # <<>>
         /\ ThreadFits(plan, c, w, task[<<c, w>>], cr[c], stock, ids)
         /\ WorkFits(plan, c, task[<<c, w>>], cr[c], stock, ids)
         /\ task[<<c, w>>].spec \in Wish
         /\ task[<<c, w>>].kind \in Kinds
         /\ Head(task[<<c, w>>].todo) \in Steps
         /\ Tail(task[<<c, w>>].todo) \in Seq(Steps)
         /\ <<c, w>> \in Threads
         /\ plan.wishes[c] \subseteq Wish
         /\ task[<<c, w>>].spec.name \in Mine(plan, task[<<c, w>>].cr)
<1>1. ThreadFits(plan, c, w, task[<<c, w>>], cr[c], stock, ids) /\ task[<<c, w>>].todo # <<>>
  BY DEF Fits, Ways, Busy
<1>2. WorkFits(plan, c, task[<<c, w>>], cr[c], stock, ids) /\ task[<<c, w>>] \in Thread
  BY <1>1 DEF ThreadFits
<1>3. task[<<c, w>>].todo \in Seq(Steps)
  BY <1>2 DEF Thread
<1>4. plan.wishes[c] \subseteq Wish /\ plan.kinds[c] \in Kinds
  BY PlanFits
<1>5. task[<<c, w>>].spec \in Wish /\ task[<<c, w>>].kind \in Kinds
  BY <1>2, <1>4 DEF WorkFits
<1>6. task[<<c, w>>].spec.name \in Mine(plan, task[<<c, w>>].cr)
  BY <1>2 DEF WorkFits, Mine
<1> QED
  BY <1>1, <1>2, <1>3, <1>4, <1>5, <1>6, HeadTail, ThreadsAre

LEMMA SameGrown ==
  ASSUME Typed
  PROVE  /\ Stocked(stock, ids) /\ Grown(stock, ids, stock, ids) /\ ids \in Nat
         /\ \A m : Kept(stock, stock, m)
BY FewerGrown, SameKept, ClusterCloudAssumption DEF Typed, Stocked

LEMMA RegistryGoesOn ==
  ASSUME Typed, Fits, ids' \in Nat, Grown(stock, ids, stock', ids'), registry' = registry
  PROVE  registry' \in Registry /\ RegistryFits(plan, registry', stock', ids')
BY SameGrown, RegistryGrown DEF Typed, Fits

LEMMA FindFits ==
  ASSUME Typed, Fits, NEW c \in Records, NEW w \in Ways, Find(<<c, w>>)
  PROVE  Typed' /\ Fits' /\ \A m : Kept(stock, stock', m)
<1> DEFINE t == <<c, w>>
           th == task[t]
           found == ByName(th.kind, th.spec.name)
<1>1. Busy(t) /\ Head(th.todo) = "find"
  BY DEF Find, At
<1>2. /\ th \in Thread /\ th.todo # <<>> /\ ThreadFits(plan, c, w, th, cr[c], stock, ids)
      /\ WorkFits(plan, c, th, cr[c], stock, ids) /\ th.spec \in Wish /\ th.kind \in Kinds
      /\ Tail(th.todo) \in Seq(Steps) /\ t \in Threads /\ plan.wishes[c] \subseteq Wish
  BY <1>1, ThreadIs
<1>3. cr' = cr /\ registry' = registry /\ plan' = plan /\ gc' = gc /\ ids' = ids
      /\ events' \in Nat /\ imports' \in [Records -> Nat]
  BY DEF Find, KeepRecords, Typed
<1>4. ids \in Nat /\ 0 \in 0..MaxIds /\ ids \in 0..MaxIds
  BY ClusterCloudAssumption DEF Typed, Stocked
<1>5. CASE found = {}
  <2> DEFINE e == IF th.spec.external THEN "missing" ELSE th.end
             x == [th EXCEPT !.todo = Tail(th.todo), !.id = 0, !.end = e]
  <2>1. task' = [task EXCEPT ![t] = x] /\ stock' = stock
    BY <1>5 DEF Find, Rest, Typed
  <2>2. e = th.end \/ (e = "missing" /\ th.spec.external)
    OBVIOUS
  <2>3. e \in {"ok", "failed", "permanent", "missing"}
    BY <1>2 DEF Thread
  <2> HIDE DEF e
  <2>4. x \in Thread
    BY <1>2, <1>4, <2>3 DEF Thread
  <2>5. /\ x.todo = Tail(th.todo) /\ x.id = 0 /\ x.end = e /\ x.fn = th.fn /\ x.cr = th.cr
        /\ x.kind = th.kind /\ x.spec = th.spec /\ x.was = th.was /\ x.tries = th.tries
        /\ x.put = th.put /\ x.blob = th.blob /\ x.whole = th.whole
    BY <1>2 DEF Thread
  <2> HIDE DEF x
  <2>6. Onward(th, x)
    BY <1>1, <2>2, <2>4, <2>5 DEF Onward
  <2>7. SeenFits(x, stock)
    <3>1. \A s \in stock : s.id # 0
      BY DEF Typed, Stocked, Row
    <3> QED
      BY <2>5, <3>1 DEF SeenFits
  <2>8. Named(x.id, th.kind, Mine(plan, th.cr), stock, ids)
    BY <2>5, NamedZero DEF Typed
  <2>9. ThreadFits(plan, c, w, x, cr[c], stock, ids)
    BY <1>1, <1>2, <2>5, <2>6, <2>7, <2>8, OnwardFits DEF ThreadFits
  <2> QED
    BY <1>3, <2>1, <2>9, SameGrown, RegistryGoesOn, ThreadMoves
<1>6. CASE found # {}
  <2>1. PICK r \in found : /\ task' = [task EXCEPT ![t].todo = Rest(t), ![t].id = r.id, ![t].seen = Seen(r)]
                           /\ stock' = Replaced(r, FoundAs(r, th.spec))
    BY <1>6 DEF Find
  <2> DEFINE x == [th EXCEPT !.todo = Tail(th.todo), !.id = r.id, !.seen = Seen(r)]
             u == FoundAs(r, th.spec)
  <2>2. task' = [task EXCEPT ![t] = x]
    BY <2>1 DEF Rest, Typed
  <2>3. r \in stock /\ r \in Row /\ r.kind = th.kind /\ r.name = th.spec.name /\ r.id \in 0..MaxIds
        /\ r.id <= ids
    BY DEF ByName, Typed, Stocked, Row
  <2>4. Seen(r) \in {"active", "killed", "queued", "busy"}
    BY <2>3 DEF Seen, Row
  <2>5. x \in Thread
    BY <1>2, <2>3, <2>4 DEF Thread
  <2>6. /\ x.todo = Tail(th.todo) /\ x.id = r.id /\ x.end = th.end /\ x.fn = th.fn /\ x.cr = th.cr
        /\ x.kind = th.kind /\ x.spec = th.spec /\ x.was = th.was /\ x.tries = th.tries
        /\ x.put = th.put /\ x.blob = th.blob /\ x.whole = th.whole /\ x.seen = Seen(r)
    BY <1>2 DEF Thread
  <2> HIDE DEF x
  <2>7. u \in Row /\ Alike(r, u)
    BY <1>2, <2>3, FoundIs
  <2>8. stock' = (stock \ {r}) \cup {u}
    BY <2>1 DEF Replaced
  <2> HIDE DEF u, found
  <2>9. Stocked(stock', ids) /\ Grown(stock, ids, stock', ids) /\ \A m : Kept(stock, stock', m)
    BY <1>4, <2>3, <2>7, <2>8, ReplacedGrown DEF Typed
  <2>10. Onward(th, x)
    BY <2>5, <2>6 DEF Onward
  <2>11. ThreadFits(plan, c, w, th, cr[c], stock', ids)
    BY <1>2, <1>4, <2>9, ThreadGrown
  <2>12. \A s \in stock' : s.id = r.id => s = u
    BY <2>3, <2>7, <2>8 DEF Typed, Stocked, Alike
  <2>13. SeenFits(x, stock')
    <3>1. r.state # "active" => Seen(r) # "active"
      BY DEF Seen
    <3> QED
      BY <2>6, <2>7, <2>12, <3>1 DEF SeenFits, Alike
  <2>14. Named(x.id, th.kind, Mine(plan, th.cr), stock', ids)
    <3>1. r.id \in 0..ids
      BY <1>4, <2>3
    <3>2. u.kind = th.kind /\ u.name \in Mine(plan, th.cr)
      BY <1>1, <2>3, <2>7, ThreadIs DEF Alike
    <3> QED
      BY <2>6, <2>12, <3>1, <3>2 DEF Named
  <2>15. ThreadFits(plan, c, w, x, cr[c], stock', ids)
    BY <1>1, <1>2, <2>6, <2>10, <2>11, <2>13, <2>14, OnwardFits DEF ThreadFits
  <2> QED
    BY <1>3, <1>4, <2>2, <2>9, <2>15, RegistryGoesOn, ThreadMoves
<1> QED
  BY <1>5, <1>6

\* The step is done and leaves the rest as it is.
LEMMA NextFits ==
  ASSUME NEW pl, NEW d, NEW w, NEW th, NEW r, NEW S, NEW n, pl.wishes[d] \subseteq Wish,
         ThreadFits(pl, d, w, th, r, S, n), th.todo # <<>>,
         Head(th.todo) \notin {"patch", "look", "release", "find"}
  PROVE  ThreadFits(pl, d, w, [th EXCEPT !.todo = Tail(th.todo)], r, S, n)
<1> DEFINE x == [th EXCEPT !.todo = Tail(th.todo)]
<1>1. th \in Thread /\ WorkFits(pl, d, th, r, S, n)
  BY DEF ThreadFits
<1>2. Tail(th.todo) \in Seq(Steps)
  BY <1>1, HeadTail DEF Thread
<1>3. x \in Thread
  BY <1>1, <1>2 DEF Thread
<1>4. /\ x.todo = Tail(th.todo) /\ x.id = th.id /\ x.end = th.end /\ x.fn = th.fn /\ x.cr = th.cr
      /\ x.kind = th.kind /\ x.spec = th.spec /\ x.was = th.was /\ x.tries = th.tries
      /\ x.put = th.put /\ x.blob = th.blob /\ x.whole = th.whole /\ x.seen = th.seen
  BY <1>1 DEF Thread
<1> HIDE DEF x
<1>5. Onward(th, x)
  BY <1>3, <1>4 DEF Onward
<1>6. Named(x.id, th.kind, Mine(pl, th.cr), S, n)
  BY <1>1, <1>4 DEF WorkFits
<1>7. ThreadFits(pl, d, w, x, r, S, n)
  BY <1>4, <1>5, <1>6, OnwardFits DEF ThreadFits
<1> QED
  BY <1>7 DEF x

\* One resource was created, or two.
LEMMA MadeFits ==
  ASSUME Typed, Fits, NEW c \in Records, NEW w \in Ways, NEW th, th = task[<<c, w>>],
         Busy(<<c, w>>), Head(th.todo) = "make",
         NEW i \in 1..MaxIds, i > ids, NEW x,
         x = [th EXCEPT !.todo = Tail(th.todo), !.id = i,
                        !.seen = IF th.kind = "image" THEN "queued" ELSE th.seen],
         ids' = i, Stocked(stock', i), Grown(stock, ids, stock', i),
         \A s \in stock' : s.id > ids => s.kind = th.kind /\ s.name = th.spec.name
  PROVE  ThreadFits(plan, c, w, x, cr[c], stock', i)
<1>1. /\ th \in Thread /\ th.todo # <<>> /\ ThreadFits(plan, c, w, th, cr[c], stock, ids)
      /\ WorkFits(plan, c, th, cr[c], stock, ids) /\ th.spec \in Wish /\ th.kind \in Kinds
      /\ Tail(th.todo) \in Seq(Steps) /\ plan.wishes[c] \subseteq Wish
  BY ThreadIs
<1>2. ids \in Nat /\ i \in Nat /\ i \in 0..MaxIds
  BY SameGrown, ClusterCloudAssumption
<1> DEFINE seen == IF th.kind = "image" THEN "queued" ELSE th.seen
<1>3. seen \in {"active", "killed", "queued", "busy"} /\ (th.kind = "image" => seen = "queued")
  BY <1>1 DEF Thread
<1>4. x = [th EXCEPT !.todo = Tail(th.todo), !.id = i, !.seen = seen]
  OBVIOUS
<1> HIDE DEF seen
<1>5. x \in Thread
  BY <1>1, <1>2, <1>3, <1>4 DEF Thread
<1>6. /\ x.todo = Tail(th.todo) /\ x.id = i /\ x.end = th.end /\ x.fn = th.fn /\ x.cr = th.cr
      /\ x.kind = th.kind /\ x.spec = th.spec /\ x.was = th.was /\ x.tries = th.tries
      /\ x.put = th.put /\ x.blob = th.blob /\ x.whole = th.whole /\ x.seen = seen
  BY <1>1, <1>4 DEF Thread
<1>7. Onward(th, x)
  BY <1>5, <1>6 DEF Onward
<1>8. ThreadFits(plan, c, w, th, cr[c], stock', i)
  BY <1>1, <1>2, ThreadGrown
<1>9. Named(x.id, th.kind, Mine(plan, th.cr), stock', i)
  <2>1. \A s \in stock' : s.id = i => s.kind = th.kind /\ s.name \in Mine(plan, th.cr)
    BY <1>2, ThreadIs
  <2>2. i \in 0..i
    BY <1>2
  <2> QED
    BY <1>6, <2>1, <2>2 DEF Named
<1>10. plan.kinds[c] = "image" => SeenFits(x, stock')
  BY <1>1, <1>3, <1>6 DEF SeenFits, WorkFits
<1>11. BlobFits(plan, x.blob, th.kind, stock', i) /\ RegistryFits(plan, x.whole, stock', i)
  BY <1>6, <1>8 DEF ThreadFits
<1>12. Head(th.todo) \notin {"patch", "look", "release"}
  OBVIOUS
<1> HIDE DEF seen
<1> QED
  BY <1>1, <1>7, <1>8, <1>9, <1>10, <1>11, <1>12, OnwardFits

LEMMA MakeFits ==
  ASSUME Typed, Fits, NEW c \in Records, NEW w \in Ways, Make(<<c, w>>)
  PROVE  Typed' /\ Fits' /\ \A m : Kept(stock, stock', m)
<1> DEFINE t == <<c, w>>
           th == task[t]
           new == NewRow(ids + 1, th.kind, th.spec, TRUE)
           more == IF th.kind = "image" THEN [imports EXCEPT ![th.cr] = @ + 1] ELSE imports
           Go(i) == [task EXCEPT ![t].todo = Rest(t), ![t].id = i,
                      ![t].seen = IF th.kind = "image" THEN "queued" ELSE @]
           To(i) == [th EXCEPT !.todo = Tail(th.todo), !.id = i,
                      !.seen = IF th.kind = "image" THEN "queued" ELSE th.seen]
<1>1. Busy(t) /\ Head(th.todo) = "make"
  BY DEF Make, At
<1>2. /\ th \in Thread /\ th.todo # <<>> /\ ThreadFits(plan, c, w, th, cr[c], stock, ids)
      /\ WorkFits(plan, c, th, cr[c], stock, ids) /\ th.spec \in Wish /\ th.kind \in Kinds
      /\ Tail(th.todo) \in Seq(Steps) /\ t \in Threads /\ plan.wishes[c] \subseteq Wish
  BY <1>1, ThreadIs
<1>3. cr' = cr /\ registry' = registry /\ plan' = plan /\ gc' = gc
  BY DEF Make
<1>4. ids \in Nat /\ Stocked(stock, ids) /\ Grown(stock, ids, stock, ids) /\ \A m : Kept(stock, stock, m)
  BY SameGrown
<1>5. more \in [Records -> Nat]
  BY <1>2 DEF Typed, WorkFits
<1>6. ASSUME stock' = stock, ids' = ids, events' \in Nat, imports' \in [Records -> Nat], NEW x,
             task' = [task EXCEPT ![t] = x], ThreadFits(plan, c, w, x, cr[c], stock, ids)
      PROVE  Typed' /\ Fits' /\ \A m : Kept(stock, stock', m)
  BY <1>3, <1>4, <1>6, RegistryGoesOn, ThreadMoves
<1>7. ASSUME th.id # 0, Next1(t), UNCHANGED <<stock, ids, events, imports>>
      PROVE  Typed' /\ Fits' /\ \A m : Kept(stock, stock', m)
  <2>1. task' = [task EXCEPT ![t] = [th EXCEPT !.todo = Tail(th.todo)]]
    BY <1>7 DEF Next1, Rest, Typed
  <2>2. ThreadFits(plan, c, w, [th EXCEPT !.todo = Tail(th.todo)], cr[c], stock, ids)
    BY <1>1, <1>2, NextFits
  <2> QED
    BY <1>6, <1>7, <2>1, <2>2 DEF Typed
<1>8. ASSUME task' = [task EXCEPT ![t] = Failed(t, @)], UNCHANGED <<stock, ids, events, imports>>
      PROVE  Typed' /\ Fits' /\ \A m : Kept(stock, stock', m)
  <2>1. task' = [task EXCEPT ![t] = Failed(t, th)]
    BY <1>8 DEF Typed
  <2>2. ThreadFits(plan, c, w, Failed(t, th), cr[c], stock, ids)
    BY <1>2, FailedFits
  <2> QED
    BY <1>6, <1>8, <2>1, <2>2 DEF Typed
<1>9. ids + 2 <= MaxIds => /\ new \in Row /\ new.id = ids + 1 /\ new.kind = th.kind /\ new.name = th.spec.name
                           /\ ids + 1 \in 1..MaxIds /\ ids + 2 \in 1..MaxIds
                           /\ HalfMade(new) \in Row /\ HalfMade(new).id = ids + 1
                           /\ HalfMade(new).kind = th.kind /\ HalfMade(new).name = th.spec.name
  <2> SUFFICES ASSUME ids + 2 <= MaxIds
               PROVE  /\ new \in Row /\ new.id = ids + 1 /\ new.kind = th.kind /\ new.name = th.spec.name
                      /\ ids + 1 \in 1..MaxIds /\ ids + 2 \in 1..MaxIds
                      /\ HalfMade(new) \in Row /\ HalfMade(new).id = ids + 1
                      /\ HalfMade(new).kind = th.kind /\ HalfMade(new).name = th.spec.name
    OBVIOUS
  <2>1. ids + 1 \in 1..MaxIds /\ ids + 2 \in 1..MaxIds
    BY <1>4, ClusterCloudAssumption
  <2>2. new \in Row /\ new.id = ids + 1 /\ new.kind = th.kind /\ new.name = th.spec.name
    <3> DEFINE k == th.kind
               v == th.spec
    <3>1. k \in Kinds /\ v \in Wish
      BY <1>2
    <3> HIDE DEF k, v
    <3>2. NewRow(ids + 1, k, v, TRUE) \in Row /\ NewRow(ids + 1, k, v, TRUE).id = ids + 1
      BY <2>1, <3>1, NewRowIs
    <3>3. NewRow(ids + 1, k, v, TRUE).kind = k /\ NewRow(ids + 1, k, v, TRUE).name = v.name
      BY DEF NewRow
    <3> QED
      BY <3>2, <3>3 DEF k, v
  <2> HIDE DEF new
  <2> QED
    BY <2>1, <2>2, HalfMadeIs
<1> HIDE DEF new, more
<1>10. ASSUME ids + 2 <= MaxIds, stock' = stock \cup {new}, ids' = ids + 1, task' = Go(ids + 1),
              events' \in Nat, imports' = more
       PROVE  Typed' /\ Fits' /\ \A m : Kept(stock, stock', m)
  <2>1. Stocked(stock', ids + 1) /\ Grown(stock, ids, stock', ids + 1) /\ \A m : Kept(stock, stock', m)
    <3>1. new \in Row /\ new.id = ids + 1 /\ ids + 1 <= MaxIds
      BY <1>9, <1>10
    <3> QED
      BY <1>4, <1>10, <3>1, AddedGrown
  <2>2. task' = [task EXCEPT ![t] = To(ids + 1)]
    BY <1>2, <1>10 DEF Rest, Typed
  <2>3. \A s \in stock' : s.id > ids => s.kind = th.kind /\ s.name = th.spec.name
    <3>1. \A s \in stock : s.id \in Int /\ s.id <= ids
      BY DEF Typed, Stocked, Row
    <3>2. \A s \in stock : ~ s.id > ids
      BY <1>4, <3>1
    <3> QED
      BY <1>9, <1>10, <3>2
  <2>4. ids + 1 > ids /\ ids + 1 \in 1..MaxIds /\ ids + 1 \in Nat
    BY <1>4, <1>9, <1>10
  <2>5. ThreadFits(plan, c, w, To(ids + 1), cr[c], stock', ids')
    BY <1>1, <1>10, <2>1, <2>3, <2>4, MadeFits
  <2> HIDE DEF To
  <2>6. Stocked(stock', ids') /\ Grown(stock, ids, stock', ids') /\ ids' \in Nat
    BY <1>10, <2>1, <2>4
  <2>7. registry' \in Registry /\ RegistryFits(plan, registry', stock', ids')
    BY <1>3, <2>6, RegistryGoesOn
  <2>8. events' \in Nat /\ imports' \in [Records -> Nat]
    BY <1>5, <1>10
  <2>9. Typed' /\ Fits'
    BY <1>3, <2>2, <2>5, <2>6, <2>7, <2>8, ThreadMoves
  <2> QED
    BY <2>1, <2>9
<1>11. ASSUME ids + 2 <= MaxIds, stock' = stock \cup {HalfMade(new)}, ids' = ids + 1,
              task' = [task EXCEPT ![t] = Failed(t, @)], events' \in Nat, imports' = more
       PROVE  Typed' /\ Fits' /\ \A m : Kept(stock, stock', m)
  <2>1. Stocked(stock', ids + 1) /\ Grown(stock, ids, stock', ids + 1) /\ \A m : Kept(stock, stock', m)
    BY <1>4, <1>9, <1>11, AddedGrown, ClusterCloudAssumption
  <2>2. task' = [task EXCEPT ![t] = Failed(t, th)]
    BY <1>11 DEF Typed
  <2>3. ids + 1 \in Nat
    BY <1>4
  <2>4. ThreadFits(plan, c, w, th, cr[c], stock', ids')
    BY <1>2, <1>4, <1>11, <2>1, <2>3, ThreadGrown
  <2>5. ThreadFits(plan, c, w, Failed(t, th), cr[c], stock', ids')
    BY <1>2, <2>4, FailedFits
  <2> QED
    BY <1>3, <1>5, <1>11, <2>1, <2>2, <2>3, <2>5, RegistryGoesOn, ThreadMoves
<1>12. ASSUME ids + 2 <= MaxIds, stock' = stock \cup Repeated(new), ids' = ids + 2, task' = Go(ids + 2),
              events' \in Nat, imports' = more
       PROVE  Typed' /\ Fits' /\ \A m : Kept(stock, stock', m)
  <2>1. Stocked(stock', ids + 2) /\ Grown(stock, ids, stock', ids + 2) /\ \A m : Kept(stock, stock', m)
    BY <1>4, <1>9, <1>12, RepeatedGrown
  <2>2. task' = [task EXCEPT ![t] = To(ids + 2)]
    BY <1>2, <1>12 DEF Rest, Typed
  <2>3. \A s \in stock' : s.id > ids => s.kind = th.kind /\ s.name = th.spec.name
    <3>1. \A s \in stock : s.id \in Int /\ s.id <= ids
      BY DEF Typed, Stocked, Row
    <3>2. \A s \in stock : ~ s.id > ids
      BY <1>4, <3>1
    <3>3. [new EXCEPT !.id = @ + 1].kind = new.kind /\ [new EXCEPT !.id = @ + 1].name = new.name
      BY <1>9, <1>12 DEF Row
    <3> QED
      BY <1>9, <1>12, <3>2, <3>3 DEF Repeated
  <2>4. ids + 2 > ids /\ ids + 2 \in 1..MaxIds /\ ids + 2 \in Nat
    BY <1>4, <1>9, <1>12
  <2>5. ThreadFits(plan, c, w, To(ids + 2), cr[c], stock', ids')
    BY <1>1, <1>12, <2>1, <2>3, <2>4, MadeFits
  <2> HIDE DEF To
  <2>6. Stocked(stock', ids') /\ Grown(stock, ids, stock', ids') /\ ids' \in Nat
    BY <1>12, <2>1, <2>4
  <2>7. registry' \in Registry /\ RegistryFits(plan, registry', stock', ids')
    BY <1>3, <2>6, RegistryGoesOn
  <2>8. events' \in Nat /\ imports' \in [Records -> Nat]
    BY <1>5, <1>12
  <2>9. Typed' /\ Fits'
    BY <1>3, <2>2, <2>5, <2>6, <2>7, <2>8, ThreadMoves
  <2> QED
    BY <2>1, <2>9
<1>13. events \in Nat
  BY DEF Typed
<1> HIDE DEF Go, To
<1>14. CASE th.id # 0
  <2>1. Next1(t) /\ UNCHANGED <<stock, ids, events, imports>>
    BY <1>14 DEF Make
  <2> QED
    BY <1>7, <1>14, <2>1
<1>15. CASE th.id = 0 /\ th.kind \in Unique /\ ByName(th.kind, th.spec.name) # {}
  <2>1. task' = [task EXCEPT ![t] = Failed(t, @)] /\ UNCHANGED <<stock, ids, events, imports>>
    BY <1>15 DEF Make
  <2> QED
    BY <1>8, <2>1
<1>16. CASE th.id = 0 /\ ~(th.kind \in Unique /\ ByName(th.kind, th.spec.name) # {})
  <2>1. ids + 2 <= MaxIds /\ imports' = more
    BY <1>16 DEF Make, more
  <2>2. \/ stock' = stock \cup {new} /\ ids' = ids + 1 /\ task' = Go(ids + 1) /\ events' = events
        \/ /\ events' = events + 1 /\ stock' = stock \cup {HalfMade(new)} /\ ids' = ids + 1
           /\ task' = [task EXCEPT ![t] = Failed(t, @)]
        \/ events' = events + 1 /\ stock' = stock \cup Repeated(new) /\ ids' = ids + 2 /\ task' = Go(ids + 2)
    BY <1>16 DEF Make, new, Go, Fault, Event
  <2>3. events' \in Nat
    BY <1>13, <2>2
  <2> QED
    BY <1>10, <1>11, <1>12, <2>1, <2>2, <2>3
<1> QED
  BY <1>14, <1>15, <1>16

LEMMA StockStep ==
  ASSUME Typed, Fits, NEW c \in Records, NEW w \in Ways, NEW x,
         task' = [task EXCEPT ![<<c, w>>] = x],
         Stocked(stock', ids), Grown(stock, ids, stock', ids), ids' = ids,
         ThreadFits(plan, c, w, x, cr[c], stock', ids),
         KeepRecords, gc' = gc, events' \in Nat
  PROVE  Typed' /\ Fits'
<1>1. cr' = cr /\ registry' = registry /\ plan' = plan /\ imports' \in [Records -> Nat] /\ ids \in Nat
  BY SameGrown DEF KeepRecords, Typed
<1>2. registry' \in Registry /\ RegistryFits(plan, registry', stock', ids')
  BY <1>1, RegistryGoesOn
<1> QED
  BY <1>1, <1>2, ThreadMoves

LEMMA SettingsFits ==
  ASSUME Typed, Fits, NEW c \in Records, NEW w \in Ways, Settings(<<c, w>>)
  PROVE  Typed' /\ Fits' /\ \A m : Kept(stock, stock', m)
<1> DEFINE t == <<c, w>>
           th == task[t]
<1>1. Busy(t) /\ Head(th.todo) = "settings"
  BY DEF Settings, At
<1>2. /\ th \in Thread /\ th.todo # <<>> /\ ThreadFits(plan, c, w, th, cr[c], stock, ids)
      /\ th.spec \in Wish /\ t \in Threads /\ plan.wishes[c] \subseteq Wish
  BY <1>1, ThreadIs
<1>3. KeepRecords /\ gc' = gc /\ ids' = ids /\ events' \in Nat
  BY DEF Settings, Typed
<1>4. ids \in Nat /\ Stocked(stock, ids) /\ Grown(stock, ids, stock, ids) /\ \A m : Kept(stock, stock, m)
  BY SameGrown
<1>5. Next1(t) => task' = [task EXCEPT ![t] = [th EXCEPT !.todo = Tail(th.todo)]]
  BY DEF Next1, Rest, Typed
<1>6. ASSUME Next1(t), Stocked(stock', ids), Grown(stock, ids, stock', ids)
      PROVE  Typed' /\ Fits'
  <2>1. ThreadFits(plan, c, w, th, cr[c], stock', ids)
    BY <1>2, <1>4, <1>6, ThreadGrown
  <2>2. ThreadFits(plan, c, w, [th EXCEPT !.todo = Tail(th.todo)], cr[c], stock', ids)
    BY <1>1, <1>2, <2>1, NextFits
  <2> QED
    BY <1>3, <1>5, <1>6, <2>2, StockStep
<1>7. CASE NothingToSet(th)
  <2>1. Next1(t) /\ stock' = stock
    BY <1>7 DEF Settings
  <2> QED
    BY <1>4, <1>6, <2>1
<1>8. CASE ~NothingToSet(th) /\ Target(th) = {}
  <2>1. task' = [task EXCEPT ![t] = Failed(t, th)] /\ stock' = stock
    BY <1>8 DEF Settings, Typed
  <2>2. ThreadFits(plan, c, w, Failed(t, th), cr[c], stock, ids)
    BY <1>2, FailedFits
  <2> QED
    BY <1>3, <1>4, <2>1, <2>2, StockStep
<1>9. CASE ~NothingToSet(th) /\ Target(th) # {}
  <2>1. Next1(t) /\ stock' = {IF r \in Target(th) THEN Updated(r, th.spec) ELSE r : r \in stock}
    BY <1>9 DEF Settings
  <2> DEFINE T == Target(th)
             v == th.spec
  <2>2. v \in Wish /\ stock' = {IF r \in T THEN Updated(r, v) ELSE r : r \in stock}
    BY <1>2, <2>1
  <2>4. \A u : u \in stock' <=> \E r \in stock : u = IF r \in T THEN Updated(r, v) ELSE r
    BY <2>2
  <2> HIDE DEF T, v
  <2>3. Stocked(stock', ids) /\ Grown(stock, ids, stock', ids) /\ \A m : Kept(stock, stock', m)
    <3> DEFINE S == stock
               n == ids
               S2 == stock'
    <3>1. n \in Nat /\ Stocked(S, n) /\ v \in Wish
      BY <1>4, <2>2
    <3>2. \A u : u \in S2 <=> \E r \in S : u = IF r \in T THEN Updated(r, v) ELSE r
      BY <2>4
    <3> HIDE DEF S, n, S2
    <3>3. Stocked(S2, n) /\ Grown(S, n, S2, n) /\ \A m : Kept(S, S2, m)
      BY <3>1, <3>2, SetInPlace
    <3> QED
      BY <3>3 DEF S, n, S2
  <2> QED
    BY <1>6, <2>1, <2>3
<1> QED
  BY <1>7, <1>8, <1>9

LEMMA EraseFits ==
  ASSUME Typed, Fits, NEW c \in Records, NEW w \in Ways, Erase(<<c, w>>)
  PROVE  Typed' /\ Fits'
<1> DEFINE t == <<c, w>>
           th == task[t]
           gone == Target(th)
<1>1. Busy(t) /\ Head(th.todo) = "erase"
  BY DEF Erase, At
<1>2. /\ th \in Thread /\ th.todo # <<>> /\ ThreadFits(plan, c, w, th, cr[c], stock, ids)
      /\ t \in Threads /\ plan.wishes[c] \subseteq Wish
  BY <1>1, ThreadIs
<1>3. KeepRecords /\ gc' = gc /\ ids' = ids /\ events' \in Nat
  BY DEF Erase, Typed, Fault, Event
<1>4. ids \in Nat /\ Stocked(stock, ids) /\ Grown(stock, ids, stock, ids)
  BY SameGrown
<1>5. CASE stock' = stock \ gone /\ Next1(t)
  <2>1. task' = [task EXCEPT ![t] = [th EXCEPT !.todo = Tail(th.todo)]]
    BY <1>5 DEF Next1, Rest, Typed
  <2>2. Stocked(stock', ids) /\ Grown(stock, ids, stock', ids)
    BY <1>4, <1>5, FewerGrown
  <2>3. ThreadFits(plan, c, w, th, cr[c], stock', ids)
    BY <1>2, <1>4, <2>2, ThreadGrown
  <2>4. ThreadFits(plan, c, w, [th EXCEPT !.todo = Tail(th.todo)], cr[c], stock', ids)
    BY <1>1, <1>2, <2>3, NextFits
  <2> QED
    BY <1>3, <2>1, <2>2, <2>4, StockStep
<1>6. CASE /\ stock' = {IF r \in gone THEN HalfDeleted(r) ELSE r : r \in stock}
           /\ task' = [task EXCEPT ![t] = Failed(t, @)]
  <2>1. task' = [task EXCEPT ![t] = Failed(t, th)]
    BY <1>6 DEF Typed
  <2>2. Stocked(stock', ids) /\ Grown(stock, ids, stock', ids)
    BY <1>4, <1>6, HalfDeletedInPlace
  <2>3. ThreadFits(plan, c, w, th, cr[c], stock', ids)
    BY <1>2, <1>4, <2>2, ThreadGrown
  <2>4. ThreadFits(plan, c, w, Failed(t, th), cr[c], stock', ids)
    BY <1>2, <2>3, FailedFits
  <2> QED
    BY <1>3, <2>1, <2>2, <2>4, StockStep
<1> QED
  BY <1>5, <1>6 DEF Erase

LEMMA DropFits ==
  ASSUME Typed, Fits, NEW c \in Records, NEW w \in Ways, Drop(<<c, w>>)
  PROVE  Typed' /\ Fits'
<1> DEFINE t == <<c, w>>
           th == task[t]
<1>1. Busy(t) /\ Head(th.todo) = "drop"
  BY DEF Drop, At
<1>2. /\ th \in Thread /\ th.todo # <<>> /\ ThreadFits(plan, c, w, th, cr[c], stock, ids)
      /\ t \in Threads /\ plan.wishes[c] \subseteq Wish
  BY <1>1, ThreadIs
<1>3. KeepRecords /\ gc' = gc /\ ids' = ids /\ events' \in Nat
  BY DEF Drop, Typed, Fault, Event
<1>4. ids \in Nat /\ Stocked(stock, ids)
  BY SameGrown
<1>5. stock' \in SUBSET stock
  BY DEF Drop
<1>6. task' = [task EXCEPT ![t] = [th EXCEPT !.todo = Tail(th.todo)]]
  BY DEF Drop, Next1, Rest, Typed
<1>7. Stocked(stock', ids) /\ Grown(stock, ids, stock', ids)
  BY <1>4, <1>5, FewerGrown
<1>8. ThreadFits(plan, c, w, th, cr[c], stock', ids)
  BY <1>2, <1>4, <1>7, ThreadGrown
<1>9. ThreadFits(plan, c, w, [th EXCEPT !.todo = Tail(th.todo)], cr[c], stock', ids)
  BY <1>1, <1>2, <1>8, NextFits
<1> QED
  BY <1>3, <1>6, <1>7, <1>9, StockStep

LEMMA FailFits ==
  ASSUME Typed, Fits, NEW c \in Records, NEW w \in Ways, Fail(<<c, w>>)
  PROVE  Typed' /\ Fits'
<1> DEFINE t == <<c, w>>
           th == task[t]
<1>1. th.todo # <<>> /\ ThreadFits(plan, c, w, th, cr[c], stock, ids) /\ t \in Threads
  BY ThreadIs DEF Fail
<1>2. KeepRecords /\ gc' = gc /\ ids' = ids /\ stock' = stock /\ events' \in Nat
  BY DEF Fail, Typed, Fault, Event, KeepCloud
<1>3. task' = [task EXCEPT ![t] = Failed(t, th)]
  BY DEF Fail, Typed
<1>4. ThreadFits(plan, c, w, Failed(t, th), cr[c], stock, ids)
  BY <1>1, FailedFits
<1> QED
  BY <1>2, <1>3, <1>4, SameGrown, StockStep

\* No handler or timer of an image compares.
LEMMA ImageHeads ==
  ASSUME NEW w, NEW th, NEW r, NEW S, ImageFits(w, th, r, S), th.todo # <<>>
  PROVE  /\ Head(th.todo) # "compare"
         /\ th.fn = "look" => w = "timer" /\ TimerFits(th, S)
         /\ th.fn = "poll" => w = "poll" /\ PollFits(th, r)
<1>1. Making(th) => Head(th.todo) # "compare"
  BY MakeTodoIs DEF Making, MakeSteps
<1>2. Finding(th) => Head(th.todo) # "compare"
  BY ShortTodos DEF Finding, FindTodos
<1>3. ChangeFits(th, r) => Head(th.todo) # "compare" /\ th.fn \in {"create", "update", "delete"}
  <2>1. th.todo \in Seq(DeleteSteps) => Head(th.todo) # "compare"
    BY HeadTail DEF DeleteSteps
  <2> QED
    BY <1>1, <1>2, <2>1, ShortTodos DEF ChangeFits
<1>4. TimerFits(th, S) => Head(th.todo) # "compare" /\ th.fn \in {"look", "recreate"}
  BY <1>1, <1>2, ShortTodos DEF TimerFits
<1>5. PollFits(th, r) => Head(th.todo) # "compare" /\ th.fn = "poll"
  BY ShortTodos DEF PollFits
<1> QED
  BY <1>3, <1>4, <1>5 DEF ImageFits

LEMMA RegisterIs ==
  /\ Register \in Seq(MakeSteps) /\ Register \in Seq(Steps)
  /\ CreatePolicy \o <<"patch">> \in Seq(MakeSteps) /\ CreatePolicy \o <<"patch">> \in Seq(Steps)
  /\ <<"patch">> \in Seq(Steps) /\ <<"patch">> \in Seq(MakeSteps)
<1>1. Register \in Seq(MakeSteps)
  BY DEF Register, MakeSteps
<1>2. <<"find", "make">> \in Seq(MakeSteps) /\ <<"patch">> \in Seq(MakeSteps)
  BY DEF MakeSteps
<1>3. CreatePolicy \in Seq(MakeSteps)
  BY <1>1, <1>2, Joined DEF CreatePolicy
<1>4. CreatePolicy \o <<"patch">> \in Seq(MakeSteps)
  BY <1>2, <1>3, Joined
<1>5. MakeSteps \subseteq Steps
  BY DEF MakeSteps, Steps
<1>6. Seq(MakeSteps) \subseteq Seq(Steps)
  BY <1>5
<1> QED
  BY <1>1, <1>2, <1>4, <1>6

\* A thread of a record that is no image, with another program.
LEMMA PlainFits ==
  ASSUME NEW pl, NEW d, NEW w, NEW th, NEW x, NEW r, NEW S, NEW n,
         ThreadFits(pl, d, w, th, r, S, n), th.todo # <<>>, pl.kinds[d] # "image",
         x \in Thread, x.cr = th.cr, x.kind = th.kind, x.spec = th.spec, x.was = th.was,
         x.put = th.put, x.blob = th.blob, x.whole = th.whole,
         x.fn \in {"create", "update", "delete", "look", "recreate", "poll"},
         x.fn = "create" => x.todo \in Seq(MakeSteps) /\ x.end # "permanent",
         x.end = "permanent" => x.todo = <<"patch">>,
         Named(x.id, th.kind, Mine(pl, th.cr), S, n)
  PROVE  ThreadFits(pl, d, w, x, r, S, n)
<1>1. WorkFits(pl, d, th, r, S, n)
  BY DEF ThreadFits
<1>2. WorkFits(pl, d, x, r, S, n)
  BY <1>1 DEF WorkFits
<1> QED
  BY <1>2 DEF ThreadFits

LEMMA CompareFits ==
  ASSUME Typed, Fits, NEW c \in Records, NEW w \in Ways, Compare(<<c, w>>)
  PROVE  Typed' /\ Fits'
<1> DEFINE t == <<c, w>>
           th == task[t]
           found == Target(th)
           way == (IF \E r \in found : r.extra # th.spec.extra
                   THEN <<"settings">> ELSE <<>>) \o Register \o <<"patch">>
           i == (CHOOSE r \in found : TRUE).id
           x1 == [th EXCEPT !.fn = "create", !.todo = CreatePolicy \o <<"patch">>]
           x2 == [th EXCEPT !.todo = <<"patch">>, !.end = "permanent"]
           x3 == [th EXCEPT !.todo = way, !.id = i]
<1>1. Busy(t) /\ Head(th.todo) = "compare"
  BY DEF Compare, At
<1>2. /\ th \in Thread /\ th.todo # <<>> /\ ThreadFits(plan, c, w, th, cr[c], stock, ids)
      /\ WorkFits(plan, c, th, cr[c], stock, ids) /\ t \in Threads
  BY <1>1, ThreadIs
<1>3. KeepRecords /\ gc' = gc /\ ids' = ids /\ stock' = stock /\ events' \in Nat
  BY DEF Compare, Typed, KeepCloud
<1>4. plan.kinds[c] # "image"
  BY <1>1, <1>2, ImageHeads DEF ThreadFits
<1>5. th.end # "permanent"
  <2>1. th.todo # <<"patch">>
    BY <1>1, ShortTodos
  <2> QED
    BY <1>2, <2>1 DEF WorkFits
<1>6. th.fn # "create"
  <2>1. th.todo \in Seq(MakeSteps) => Head(th.todo) \in MakeSteps
    BY <1>2, HeadTail
  <2> QED
    BY <1>1, <1>2, <2>1 DEF WorkFits, MakeSteps
<1>7. th.fn \in {"create", "update", "delete", "look", "recreate", "poll"} /\ Named(th.id, th.kind, Mine(plan, th.cr), stock, ids)
  BY <1>2 DEF WorkFits
<1>8. CASE found = {}
  <2>1. task' = [task EXCEPT ![t] = x1]
    BY <1>8 DEF Compare
  <2>2. x1 \in Thread
    <3>1. PICK f \in {"none", "create"} : f = "create"
      OBVIOUS
    <3>2. x1 = [th EXCEPT !.fn = f, !.todo = CreatePolicy \o <<"patch">>]
      BY <3>1
    <3> QED
      BY <1>2, <3>2, RegisterIs DEF Thread
  <2>3. /\ x1.cr = th.cr /\ x1.kind = th.kind /\ x1.spec = th.spec /\ x1.was = th.was /\ x1.put = th.put
        /\ x1.blob = th.blob /\ x1.whole = th.whole /\ x1.id = th.id /\ x1.end = th.end
        /\ x1.todo = CreatePolicy \o <<"patch">> /\ x1.fn = "create"
    BY <1>2 DEF Thread
  <2> HIDE DEF x1, th
  <2>4. ThreadFits(plan, c, w, x1, cr[c], stock, ids)
    BY <1>2, <1>4, <1>5, <1>7, <2>2, <2>3, RegisterIs, PlainFits
  <2> QED
    BY <1>3, <2>1, <2>4, SameGrown, StockStep
<1>9. CASE found # {} /\ \E r \in found : Incompatible(r, th.spec)
  <2>1. task' = [task EXCEPT ![t] = x2]
    BY <1>9 DEF Compare
  <2>2. x2 \in Thread
    BY <1>2, RegisterIs DEF Thread
  <2>3. /\ x2.cr = th.cr /\ x2.kind = th.kind /\ x2.spec = th.spec /\ x2.was = th.was /\ x2.put = th.put
        /\ x2.blob = th.blob /\ x2.whole = th.whole /\ x2.id = th.id /\ x2.fn = th.fn
        /\ x2.todo = <<"patch">>
    BY <1>2 DEF Thread
  <2> HIDE DEF x2, th
  <2>4. ThreadFits(plan, c, w, x2, cr[c], stock, ids)
    BY <1>2, <1>4, <1>6, <1>7, <2>2, <2>3, PlainFits
  <2> QED
    BY <1>3, <2>1, <2>4, SameGrown, StockStep
<1>10. CASE found # {} /\ ~\E r \in found : Incompatible(r, th.spec)
  <2>1. task' = [task EXCEPT ![t] = x3]
    BY <1>10 DEF Compare
  <2>2. PICK r \in found : i = r.id
    BY <1>10
  <2>3. r \in stock /\ ((r.kind = th.kind /\ r.name = th.spec.name) \/ r.id = th.id)
    BY DEF Target, ByName, ById
  <2>4. i \in 0..MaxIds /\ i \in 0..ids
    <3>1. r.id \in 1..MaxIds /\ r.id <= ids
      BY <2>3 DEF Typed, Stocked, Row
    <3> QED
      BY <2>2, <3>1, SameGrown, ClusterCloudAssumption
  <2>5. Named(i, th.kind, Mine(plan, th.cr), stock, ids)
    <3>1. CASE r.id = th.id
      BY <1>7, <2>2, <3>1
    <3>2. CASE r.kind = th.kind /\ r.name = th.spec.name
      <4>1. \A s \in stock : s.id = i => s = r
        BY <2>2, <2>3 DEF Typed, Stocked
      <4>2. th.spec.name \in Mine(plan, th.cr)
        BY <1>1, ThreadIs
      <4> QED
        BY <2>4, <3>2, <4>1, <4>2 DEF Named
    <3> QED
      BY <2>3, <3>1, <3>2
  <2>6. way \in Seq(Steps)
    <3>1. <<"settings">> \in Seq(Steps) /\ <<>> \in Seq(Steps)
      BY DEF Steps
    <3>2. (IF \E z \in found : z.extra # th.spec.extra THEN <<"settings">> ELSE <<>>) \in Seq(Steps)
      BY <3>1
    <3> HIDE DEF found
    <3> QED
      BY <3>2, RegisterIs, Joined
  <2> HIDE DEF way, i
  <2>7. x3 \in Thread
    BY <1>2, <2>4, <2>6 DEF Thread
  <2>8. /\ x3.cr = th.cr /\ x3.kind = th.kind /\ x3.spec = th.spec /\ x3.was = th.was /\ x3.put = th.put
        /\ x3.blob = th.blob /\ x3.whole = th.whole /\ x3.id = i /\ x3.fn = th.fn /\ x3.end = th.end
    BY <1>2 DEF Thread
  <2> HIDE DEF x3, th
  <2>9. ThreadFits(plan, c, w, x3, cr[c], stock, ids)
    BY <1>2, <1>4, <1>5, <1>6, <1>7, <2>5, <2>7, <2>8, PlainFits
  <2> QED
    BY <1>3, <2>1, <2>9, SameGrown, StockStep
<1> QED
  BY <1>8, <1>9, <1>10

\* Steps that change nothing but their thread, and perhaps the registry.
LEMMA QuietStep ==
  ASSUME Typed, Fits, NEW c \in Records, NEW w \in Ways, NEW x,
         task' = [task EXCEPT ![<<c, w>>] = x],
         ThreadFits(plan, c, w, x, cr[c], stock, ids),
         stock' = stock, ids' = ids, cr' = cr, plan' = plan, gc' = gc,
         imports' = imports, events' \in Nat,
         registry' \in Registry, RegistryFits(plan, registry', stock, ids)
  PROVE  Typed' /\ Fits'
<1>1. Stocked(stock', ids') /\ Grown(stock, ids, stock', ids') /\ imports' \in [Records -> Nat]
  BY SameGrown DEF Typed
<1> QED
  BY <1>1, ThreadMoves

\* The only threads of an image that may skip what follows are of deletions.
LEMMA SkippingImage ==
  ASSUME NEW w, NEW th, NEW x, NEW r, NEW S, ImageFits(w, th, r, S), th.todo # <<>>,
         Head(th.todo) = "blob", th.todo[3] = "delist",
         x.fn = th.fn, x.todo = SubSeq(th.todo, 4, Len(th.todo))
  PROVE  ImageFits(w, x, r, S)
<1>1. ~Making(th)
  BY MakeTodoIs DEF Making
<1>2. ~Finding(th)
  BY ShortTodos DEF Finding, FindTodos
<1>3. ~TimerFits(th, S)
  BY <1>1, <1>2, ShortTodos DEF TimerFits
<1>4. ~PollFits(th, r)
  BY ShortTodos DEF PollFits
<1>5. w = "change" /\ th.fn = "delete" /\ th.todo \in Seq(DeleteSteps) /\ r.at = "deleting"
  BY <1>1, <1>2, <1>3, <1>4, ShortTodos DEF ImageFits, ChangeFits
<1>6. x.todo \in Seq(DeleteSteps)
  BY <1>5, Skipped
<1> QED
  BY <1>5, <1>6 DEF ImageFits, ChangeFits

LEMMA ReadBlobFits ==
  ASSUME Typed, Fits, NEW c \in Records, NEW w \in Ways, ReadBlob(<<c, w>>)
  PROVE  Typed' /\ Fits'
<1> DEFINE t == <<c, w>>
           th == task[t]
           blob == registry[th.kind]
           absent == th.todo[3] = "delist" /\ blob[th.spec.name] = NoEntry
           b == IF absent THEN EmptyBlob ELSE blob
           y == [th EXCEPT !.blob = b, !.todo = Tail(th.todo)]
           z == [th EXCEPT !.blob = b, !.todo = SubSeq(th.todo, 4, Len(th.todo))]
<1>1. Busy(t) /\ Head(th.todo) = "blob"
  BY DEF ReadBlob, At
<1>2. /\ th \in Thread /\ th.todo # <<>> /\ ThreadFits(plan, c, w, th, cr[c], stock, ids)
      /\ WorkFits(plan, c, th, cr[c], stock, ids) /\ t \in Threads
      /\ plan.wishes[c] \subseteq Wish /\ th.kind \in Kinds /\ th.todo \in Seq(Steps)
  BY <1>1, ThreadIs DEF Thread
<1>3. KeepRecords /\ gc' = gc /\ ids' = ids /\ stock' = stock /\ events' \in Nat
  BY DEF ReadBlob, Typed, KeepCloud
<1>4. registry' \in Registry /\ RegistryFits(plan, registry', stock, ids) /\ registry' = registry
      /\ cr' = cr /\ plan' = plan /\ imports' = imports
  BY <1>3 DEF Typed, Fits, KeepRecords
<1>5. blob \in [Names -> [id : 0..MaxIds, cr : Records \cup {0}]] /\ BlobFits(plan, blob, th.kind, stock, ids)
  BY <1>2, <1>4 DEF Registry, RegistryFits
<1>6. b \in [Names -> [id : 0..MaxIds, cr : Records \cup {0}]] /\ BlobFits(plan, b, th.kind, stock, ids)
  BY <1>5, EmptyFits
<1>7. CASE ~absent
  <2>1. task' = [task EXCEPT ![t] = y]
    BY <1>7 DEF ReadBlob, Typed
  <2> HIDE DEF b, absent, blob
  <2>2. Tail(th.todo) \in Seq(Steps)
    BY <1>2, HeadTail
  <2>3. y \in Thread
    BY <1>2, <1>6, <2>2 DEF Thread
  <2>4. /\ y.todo = Tail(th.todo) /\ y.id = th.id /\ y.end = th.end /\ y.fn = th.fn /\ y.cr = th.cr
        /\ y.kind = th.kind /\ y.spec = th.spec /\ y.was = th.was /\ y.tries = th.tries
        /\ y.put = th.put /\ y.blob = b /\ y.whole = th.whole /\ y.seen = th.seen
    BY <1>2 DEF Thread
  <2> HIDE DEF y
  <2>5. Onward(th, y)
    BY <2>3, <2>4 DEF Onward
  <2>6. Named(y.id, th.kind, Mine(plan, th.cr), stock, ids)
    BY <1>2, <2>4 DEF WorkFits
  <2>7. BlobFits(plan, y.blob, th.kind, stock, ids) /\ RegistryFits(plan, y.whole, stock, ids)
    BY <1>2, <1>6, <2>4 DEF ThreadFits
  <2>8. ThreadFits(plan, c, w, y, cr[c], stock, ids)
    BY <1>1, <1>2, <2>4, <2>5, <2>6, <2>7, OnwardFits
  <2> QED
    BY <1>3, <1>4, <2>1, <2>8, QuietStep
<1>8. CASE absent
  <2>1. task' = [task EXCEPT ![t] = z]
    BY <1>8 DEF ReadBlob, Typed
  <2>0. th.todo[3] = "delist"
    BY <1>8
  <2> HIDE DEF b, absent, blob
  <2>2. SubSeq(th.todo, 4, Len(th.todo)) \in Seq(Steps)
    BY <1>2, Skipped
  <2>3. z \in Thread
    BY <1>2, <1>6, <2>2 DEF Thread
  <2>4. /\ z.todo = SubSeq(th.todo, 4, Len(th.todo)) /\ z.id = th.id /\ z.end = th.end /\ z.fn = th.fn
        /\ z.cr = th.cr /\ z.kind = th.kind /\ z.spec = th.spec /\ z.was = th.was
        /\ z.put = th.put /\ z.blob = b /\ z.whole = th.whole
    BY <1>2 DEF Thread
  <2> HIDE DEF z
  <2>5. th.fn = "create" => z.todo \in Seq(MakeSteps)
    BY <1>2, <2>4, Skipped DEF WorkFits
  <2>6. th.end # "permanent"
    <3>1. th.todo # <<"patch">>
      BY <1>1, ShortTodos
    <3> QED
      BY <1>2, <3>1 DEF WorkFits
  <2>7. WorkFits(plan, c, z, cr[c], stock, ids)
    BY <1>2, <2>4, <2>5, <2>6 DEF WorkFits
  <2>8. plan.kinds[c] = "image" => ImageFits(w, z, cr[c], stock)
    BY <1>1, <1>2, <2>0, <2>4, SkippingImage DEF ThreadFits
  <2>9. BlobFits(plan, z.blob, z.kind, stock, ids) /\ RegistryFits(plan, z.whole, stock, ids)
    BY <1>2, <1>6, <2>4 DEF ThreadFits
  <2>10. ThreadFits(plan, c, w, z, cr[c], stock, ids)
    BY <2>3, <2>7, <2>8, <2>9 DEF ThreadFits
  <2> QED
    BY <1>3, <1>4, <2>1, <2>10, QuietStep
<1> QED
  BY <1>7, <1>8

LEMMA ReadWholeFits ==
  ASSUME Typed, Fits, NEW c \in Records, NEW w \in Ways, ReadWhole(<<c, w>>)
  PROVE  Typed' /\ Fits'
<1> DEFINE t == <<c, w>>
           th == task[t]
           y == [th EXCEPT !.todo = Tail(th.todo), !.whole = registry]
<1>1. Busy(t) /\ Head(th.todo) = "whole"
  BY DEF ReadWhole, At
<1>2. /\ th \in Thread /\ th.todo # <<>> /\ ThreadFits(plan, c, w, th, cr[c], stock, ids)
      /\ WorkFits(plan, c, th, cr[c], stock, ids) /\ t \in Threads
      /\ plan.wishes[c] \subseteq Wish /\ Tail(th.todo) \in Seq(Steps)
  BY <1>1, ThreadIs
<1>3. KeepRecords /\ gc' = gc /\ ids' = ids /\ stock' = stock /\ events' \in Nat
  BY DEF ReadWhole, Typed, KeepCloud
<1>4. registry' \in Registry /\ RegistryFits(plan, registry', stock, ids) /\ registry' = registry
      /\ cr' = cr /\ plan' = plan /\ imports' = imports
  BY <1>3 DEF Typed, Fits, KeepRecords
<1>5. task' = [task EXCEPT ![t] = y]
  BY DEF ReadWhole, Rest, Typed
<1>6. y \in Thread
  BY <1>2, <1>4 DEF Thread
<1>7. /\ y.todo = Tail(th.todo) /\ y.id = th.id /\ y.end = th.end /\ y.fn = th.fn /\ y.cr = th.cr
      /\ y.kind = th.kind /\ y.spec = th.spec /\ y.was = th.was /\ y.tries = th.tries
      /\ y.put = th.put /\ y.blob = th.blob /\ y.whole = registry /\ y.seen = th.seen
  BY <1>2 DEF Thread
<1> HIDE DEF y
<1>8. Onward(th, y)
  BY <1>6, <1>7 DEF Onward
<1>9. Named(y.id, th.kind, Mine(plan, th.cr), stock, ids)
  BY <1>2, <1>7 DEF WorkFits
<1>10. BlobFits(plan, y.blob, th.kind, stock, ids) /\ RegistryFits(plan, y.whole, stock, ids)
  BY <1>2, <1>4, <1>7 DEF ThreadFits
<1>11. ThreadFits(plan, c, w, y, cr[c], stock, ids)
  BY <1>1, <1>2, <1>7, <1>8, <1>9, <1>10, OnwardFits
<1> QED
  BY <1>3, <1>4, <1>5, <1>11, QuietStep

\* What is written to the registry is what was read, but for one entry.
LEMMA StoredFits ==
  ASSUME NEW pl, NEW g \in Registry, NEW b \in [Names -> [id : 0..MaxIds, cr : Records \cup {0}]],
         NEW k \in Kinds, NEW m \in Names, NEW e \in [id : 0..MaxIds, cr : Records \cup {0}],
         NEW S, NEW n,
         RegistryFits(pl, g, S, n), BlobFits(pl, b, k, S, n), EntryFits(pl, e, k, S, n)
  PROVE  /\ [g EXCEPT ![k] = [b EXCEPT ![m] = e]] \in Registry
         /\ RegistryFits(pl, [g EXCEPT ![k] = [b EXCEPT ![m] = e]], S, n)
<1> DEFINE b2 == [b EXCEPT ![m] = e]
<1>1. b2 \in [Names -> [id : 0..MaxIds, cr : Records \cup {0}]]
  OBVIOUS
<1>2. BlobFits(pl, b2, k, S, n)
  BY DEF BlobFits
<1> HIDE DEF b2
<1>3. [g EXCEPT ![k] = b2] \in Registry
  BY <1>1 DEF Registry
<1>4. RegistryFits(pl, [g EXCEPT ![k] = b2], S, n)
  BY <1>2 DEF RegistryFits, Registry
<1> QED
  BY <1>3, <1>4 DEF b2

LEMMA StoreFits ==
  ASSUME Typed, Fits, NEW c \in Records, NEW w \in Ways, NEW e, Store(<<c, w>>, e),
         Busy(<<c, w>>), Head(task[<<c, w>>].todo) \in {"enlist", "delist"},
         e \in [id : 0..MaxIds, cr : Records \cup {0}],
         EntryFits(plan, e, task[<<c, w>>].kind, stock, ids)
  PROVE  Typed' /\ Fits'
<1> DEFINE t == <<c, w>>
           th == task[t]
           y == [th EXCEPT !.todo = Tail(th.todo), !.blob = EmptyBlob, !.whole = NoRegistry]
<1>1. /\ th \in Thread /\ th.todo # <<>> /\ ThreadFits(plan, c, w, th, cr[c], stock, ids)
      /\ WorkFits(plan, c, th, cr[c], stock, ids) /\ t \in Threads /\ th.kind \in Kinds
      /\ th.spec \in Wish /\ plan.wishes[c] \subseteq Wish /\ Tail(th.todo) \in Seq(Steps)
  BY ThreadIs
<1>2. /\ cr' = cr /\ plan' = plan /\ imports' = imports /\ gc' = gc /\ ids' = ids /\ stock' = stock
      /\ events' \in Nat
  BY DEF Store, Typed, KeepCloud
<1>3. registry' = [th.whole EXCEPT ![th.kind] = [th.blob EXCEPT ![th.spec.name] = e]]
  BY DEF Store
<1>4. th.spec.name \in Names /\ th.whole \in Registry
      /\ th.blob \in [Names -> [id : 0..MaxIds, cr : Records \cup {0}]]
  BY <1>1 DEF Wish, Thread
<1>5. RegistryFits(plan, th.whole, stock, ids) /\ BlobFits(plan, th.blob, th.kind, stock, ids)
  BY <1>1 DEF ThreadFits
<1>6. registry' \in Registry /\ RegistryFits(plan, registry', stock, ids)
  BY <1>1, <1>3, <1>4, <1>5, StoredFits
<1>7. task' = [task EXCEPT ![t] = y]
  BY DEF Store, Rest, Typed
<1>8. y \in Thread
  BY <1>1, EmptyFits DEF Thread
<1>9. /\ y.todo = Tail(th.todo) /\ y.id = th.id /\ y.end = th.end /\ y.fn = th.fn /\ y.cr = th.cr
      /\ y.kind = th.kind /\ y.spec = th.spec /\ y.was = th.was /\ y.tries = th.tries
      /\ y.put = th.put /\ y.blob = EmptyBlob /\ y.whole = NoRegistry /\ y.seen = th.seen
  BY <1>1 DEF Thread
<1> HIDE DEF y
<1>10. Onward(th, y)
  BY <1>8, <1>9 DEF Onward
<1>11. Named(y.id, th.kind, Mine(plan, th.cr), stock, ids)
  BY <1>1, <1>9 DEF WorkFits
<1>12. BlobFits(plan, y.blob, th.kind, stock, ids) /\ RegistryFits(plan, y.whole, stock, ids)
  BY <1>9, EmptyFits
<1>13. ThreadFits(plan, c, w, y, cr[c], stock, ids)
  BY <1>1, <1>9, <1>10, <1>11, <1>12, OnwardFits
<1> QED
  BY <1>2, <1>6, <1>7, <1>13, QuietStep

LEMMA EnlistFits ==
  ASSUME Typed, Fits, NEW c \in Records, NEW w \in Ways, Enlist(<<c, w>>)
  PROVE  Typed' /\ Fits'
<1> DEFINE th == task[<<c, w>>]
           e == [id |-> th.id, cr |-> th.cr]
<1>1. Busy(<<c, w>>) /\ Head(th.todo) = "enlist" /\ Store(<<c, w>>, e)
  BY DEF Enlist, At
<1>2. th \in Thread /\ WorkFits(plan, c, th, cr[c], stock, ids)
  BY <1>1, ThreadIs
<1>3. e \in [id : 0..MaxIds, cr : Records \cup {0}]
  BY <1>2 DEF Thread
<1>4. EntryFits(plan, e, th.kind, stock, ids)
  BY <1>2 DEF WorkFits, EntryFits
<1> HIDE DEF e
<1> QED
  BY <1>1, <1>3, <1>4, StoreFits

LEMMA DelistFits ==
  ASSUME Typed, Fits, NEW c \in Records, NEW w \in Ways, Delist(<<c, w>>)
  PROVE  Typed' /\ Fits'
<1>1. Busy(<<c, w>>) /\ Head(task[<<c, w>>].todo) = "delist" /\ Store(<<c, w>>, NoEntry)
  BY DEF Delist, At
<1>2. NoEntry \in [id : 0..MaxIds, cr : Records \cup {0}]
  BY ClusterCloudAssumption DEF NoEntry
<1>3. EntryFits(plan, NoEntry, task[<<c, w>>].kind, stock, ids)
  BY DEF EntryFits
<1> QED
  BY <1>1, <1>2, <1>3, StoreFits

LEMMA PutsAre ==
  /\ Same \in Put /\ Same.id = -1 /\ Same.tries = -1 /\ Same.phase = "same"
  /\ Lost \in Put /\ Lost.id = 0 /\ Lost.tries = -1 /\ Lost.phase = "Pending"
  /\ [Same EXCEPT !.phase = "Pending"] \in Put
  /\ \A i \in 0..MaxIds : /\ Moved(i) \in Put /\ Moved(i).id = i /\ Moved(i).tries = -1
                          /\ Moved(i).phase = "Pending"
<1>1. -1 \in -1..MaxIds /\ (\A i \in 0..MaxIds : i \in -1..MaxIds) /\ 0 \in 0..MaxIds
  BY ClusterCloudAssumption
<1>2. Same \in Put /\ Same.id = -1 /\ Same.tries = -1 /\ Same.phase = "same"
  BY <1>1 DEF Same, Put
<1>3. [Same EXCEPT !.phase = "Pending"] \in Put
  BY <1>1 DEF Same, Put
<1>4. ASSUME NEW i \in 0..MaxIds
      PROVE  Moved(i) \in Put /\ Moved(i).id = i /\ Moved(i).tries = -1 /\ Moved(i).phase = "Pending"
  <2> DEFINE q == Same
  <2>1. q \in Put /\ q.tries = -1
    BY <1>2
  <2>2. i \in -1..MaxIds
    BY <1>1
  <2>3. PICK a \in {"same", "Pending"} : a = "Pending"
    OBVIOUS
  <2>4. Moved(i) = [q EXCEPT !.phase = a, !.id = i]
    BY <2>3 DEF Moved
  <2> HIDE DEF q
  <2>5. [q EXCEPT !.phase = a, !.id = i] \in Put
    BY <2>1, <2>2 DEF Put
  <2>6. LET m == [q EXCEPT !.phase = a, !.id = i]
        IN m.id = i /\ m.tries = -1 /\ m.phase = a
    BY <2>1 DEF Put
  <2> QED
    BY <2>3, <2>4, <2>5, <2>6
<1>5. Lost \in Put /\ Lost.id = 0 /\ Lost.tries = -1 /\ Lost.phase = "Pending"
  <2>1. Lost = Moved(0)
    BY DEF Lost, Moved
  <2> QED
    BY <1>1, <1>4, <2>1
<1> QED
  BY <1>2, <1>3, <1>4, <1>5

\* What a reconciliation decides.
LEMMA ReconciledIs ==
  ASSUME NEW th, th.kind \in Kinds, NEW found, NEW r, r.id \in 0..MaxIds, found = {} \/ found = {r}
  PROVE  /\ Reconciled(th, found) \in Put
         /\ Reconciled(th, found).phase \in {"same", "Pending"}
         /\ Reconciled(th, found).tries = -1
         /\ \/ Reconciled(th, found).id \in {-1, 0}
            \/ found = {r} /\ Reconciled(th, found).id = r.id
<1> DEFINE Good(p) == /\ p \in Put /\ p.phase \in {"same", "Pending"} /\ p.tries = -1
                      /\ p.id \in {-1, 0} \/ (found = {r} /\ p.id = r.id)
<1>1. Good(Same) /\ Good(Lost)
  BY PutsAre
<1>2. found = {r} => Good(Moved(r.id))
  BY PutsAre
<1>3. Good([Same EXCEPT !.phase = "Pending"])
  BY PutsAre DEF Same
<1> HIDE DEF Good
<1>4. Good(ByNameAndId(th, found))
  <2>1. found = {r} => (CHOOSE s \in found : TRUE) = r
    OBVIOUS
  <2> QED
    BY <1>1, <1>2, <2>1 DEF ByNameAndId
<1>5. Good(Reconciled(th, found))
  BY <1>1, <1>3, <1>4 DEF Reconciled, Kinds, ReconciledDomain, ReconciledFlavor, ReconciledNetwork,
     ReconciledPolicy, ReconciledImage
<1> QED
  BY <1>5 DEF Good

\* A timer has looked, and knows what to write and whether more is to be done.
LEMMA DecidedFits ==
  ASSUME NEW pl, NEW d, NEW w, NEW th, NEW x, NEW r, NEW S, NEW n,
         ThreadFits(pl, d, w, th, r, S, n), th.todo # <<>>, Head(th.todo) = "look",
         th.fn # "create", x \in Thread,
         x.cr = th.cr, x.kind = th.kind, x.spec = th.spec, x.was = th.was, x.fn = th.fn,
         x.id = th.id, x.end = th.end, x.blob = th.blob, x.whole = th.whole,
         x.put.id # -1 => Named(x.put.id, th.kind, Mine(pl, th.cr), S, n),
         x.put.tries <= 2,
         pl.kinds[d] = "image" => ImageFits(w, x, r, S)
  PROVE  ThreadFits(pl, d, w, x, r, S, n)
<1>1. WorkFits(pl, d, th, r, S, n)
  BY DEF ThreadFits
<1>2. th.end # "permanent"
  BY <1>1, ShortTodos DEF WorkFits
<1>3. WorkFits(pl, d, x, r, S, n)
  BY <1>1, <1>2 DEF WorkFits
<1> QED
  BY <1>3 DEF ThreadFits

LEMMA LookFits ==
  ASSUME Typed, Fits, NEW c \in Records, NEW w \in Ways, Look(<<c, w>>)
  PROVE  Typed' /\ Fits'
<1> DEFINE t == <<c, w>>
           th == task[t]
           named == ByName(th.kind, th.spec.name)
<1>1. Busy(t) /\ Head(th.todo) = "look" /\ th.fn = "look"
  BY DEF Look, At
<1>2. /\ th \in Thread /\ th.todo # <<>> /\ ThreadFits(plan, c, w, th, cr[c], stock, ids)
      /\ WorkFits(plan, c, th, cr[c], stock, ids) /\ t \in Threads /\ th.kind \in Kinds
      /\ Tail(th.todo) \in Seq(Steps)
  BY <1>1, ThreadIs
<1>3. KeepRecords /\ gc' = gc /\ ids' = ids /\ stock' = stock /\ events' \in Nat
  BY DEF Look, Typed, KeepCloud
<1>4. PICK found \in (IF named = {} THEN {{}} ELSE {{r} : r \in named}) :
        task' = [task EXCEPT ![t].put = Reconciled(th, found),
                             ![t].todo = IF Drifted(th, found) THEN <<"settings", "patch">> ELSE Rest(t)]
  BY DEF Look
<1> DEFINE p == Reconciled(th, found)
           td == IF Drifted(th, found) THEN <<"settings", "patch">> ELSE Tail(th.todo)
           x == [th EXCEPT !.put = p, !.todo = td]
<1>5. task' = [task EXCEPT ![t] = x]
  BY <1>4 DEF Rest, Typed
<1>6. /\ p \in Put /\ p.phase \in {"same", "Pending"} /\ p.tries = -1
      /\ p.id # -1 => Named(p.id, th.kind, Mine(plan, th.cr), stock, ids)
  <2>1. CASE found = {}
    <3>1. PICK r : r = [id |-> 0]
      OBVIOUS
    <3>2. r.id = 0 /\ r.id \in 0..MaxIds
      BY <3>1, ClusterCloudAssumption
    <3>3. p \in Put /\ p.phase \in {"same", "Pending"} /\ p.tries = -1 /\ p.id \in {-1, 0}
      <4> HIDE DEF th, named
      <4>1. /\ Reconciled(th, found) \in Put /\ Reconciled(th, found).phase \in {"same", "Pending"}
            /\ Reconciled(th, found).tries = -1
            /\ \/ Reconciled(th, found).id \in {-1, 0}
               \/ found = {r} /\ Reconciled(th, found).id = r.id
        BY <1>2, <2>1, <3>2, ReconciledIs
      <4> QED
        BY <3>2, <4>1
    <3> QED
      BY <3>3, NamedZero DEF Typed
  <2>2. CASE found # {}
    <3>1. PICK r \in named : found = {r}
      BY <1>4, <2>2
    <3>2. r \in stock /\ r.kind = th.kind /\ r.name = th.spec.name
      BY DEF ByName
    <3>3. r.id \in 1..MaxIds /\ r.id <= ids /\ \A s \in stock : s.id = r.id => s = r
      BY <3>2 DEF Typed, Stocked, Row
    <3>4. Named(r.id, th.kind, Mine(plan, th.cr), stock, ids)
      <4>1. r.id \in 0..ids
        BY <3>3, SameGrown, ClusterCloudAssumption
      <4>2. th.spec.name \in Mine(plan, th.cr)
        BY <1>1, ThreadIs
      <4> QED
        BY <3>2, <3>3, <4>1, <4>2 DEF Named
    <3>5. r.id \in 0..MaxIds
      BY <3>3, ClusterCloudAssumption
    <3>6. p \in Put /\ p.phase \in {"same", "Pending"} /\ p.tries = -1 /\ (p.id \in {-1, 0} \/ p.id = r.id)
      BY <1>2, <3>1, <3>5, ReconciledIs
    <3> QED
      BY <3>4, <3>6, NamedZero DEF Typed
  <2> QED
    BY <2>1, <2>2
<1>7. td \in Seq(Steps) /\ (td = <<"settings", "patch">> \/ td = Tail(th.todo))
  <2>1. <<"settings", "patch">> \in Seq(Steps)
    BY DEF Steps
  <2> QED
    BY <1>2, <2>1
<1> HIDE DEF p, td
<1>8. x \in Thread
  BY <1>2, <1>6, <1>7 DEF Thread
<1>9. /\ x.cr = th.cr /\ x.kind = th.kind /\ x.spec = th.spec /\ x.was = th.was /\ x.fn = th.fn
      /\ x.id = th.id /\ x.end = th.end /\ x.blob = th.blob /\ x.whole = th.whole
      /\ x.put = p /\ x.todo = td
  BY <1>2 DEF Thread
<1> HIDE DEF x
<1>10. plan.kinds[c] = "image" => ImageFits(w, x, cr[c], stock)
  <2> SUFFICES ASSUME plan.kinds[c] = "image"
               PROVE  ImageFits(w, x, cr[c], stock)
    OBVIOUS
  <2>1. w = "timer" /\ TimerFits(th, stock)
    BY <1>1, <1>2, ImageHeads DEF ThreadFits
  <2>2. th.todo = <<"look", "patch">>
    BY <1>1, <2>1, ShortTodos DEF TimerFits
  <2>3. x.todo \in {<<"settings", "patch">>, <<"patch">>}
    BY <1>7, <1>9, <2>2, ShortTodos
  <2>4. TimerFits(x, stock)
    BY <1>1, <1>6, <1>9, <2>3 DEF TimerFits
  <2> QED
    BY <2>1, <2>4 DEF ImageFits
<1>11. x.put.tries <= 2
  BY <1>6, <1>9
<1>12. ThreadFits(plan, c, w, x, cr[c], stock, ids)
  BY <1>1, <1>2, <1>6, <1>8, <1>9, <1>10, <1>11, DecidedFits
<1> QED
  BY <1>3, <1>5, <1>12, SameGrown, StockStep

LEMMA RetriedIs ==
  ASSUME NEW th, th.tries \in 0..3
  PROVE  /\ Retried(th) \in Put
         /\ Retried(th).id \in {-1, 0}
         /\ Retried(th).tries <= 2
         /\ \/ th.tries < 2 /\ Retried(th).phase = "Pending" /\ Retried(th).id = 0
               /\ Retried(th).tries = th.tries + 1
            \/ th.tries >= 2 /\ Retried(th).phase = "Error" /\ Retried(th).id = -1
               /\ Retried(th).tries = -1
<1>1. CASE th.tries + 1 < 3
  <2>1. th.tries + 1 \in -1..3 /\ 0 \in -1..MaxIds /\ 0 \in -1..2
    BY <1>1, ClusterCloudAssumption
  <2>2. Retried(th) = [phase |-> "Pending", id |-> 0, tries |-> th.tries + 1, began |-> 0]
    BY <1>1 DEF Retried
  <2>3. Retried(th) \in Put
    BY <2>1, <2>2 DEF Put
  <2> QED
    BY <1>1, <2>2, <2>3
<1>2. CASE ~(th.tries + 1 < 3)
  <2>1. Retried(th) = [Same EXCEPT !.phase = "Error"]
    BY <1>2 DEF Retried
  <2>2. [Same EXCEPT !.phase = "Error"] \in Put
    BY ClusterCloudAssumption DEF Same, Put
  <2> QED
    BY <1>2, <2>1, <2>2 DEF Same
<1> QED
  BY <1>1, <1>2

LEMMA PollStepFits ==
  ASSUME Typed, Fits, NEW c \in Records, NEW w \in Ways, Poll(<<c, w>>)
  PROVE  Typed' /\ Fits'
<1> DEFINE t == <<c, w>>
           th == task[t]
           found == ById(th.id)
           state == Seen(CHOOSE r \in found : TRUE)
           stuck == found # {} /\ state = "queued" /\ th.began = 2
           Asks == [phase : {"same", "Ready", "Error"}, id : {-1}, tries : {-1}, began : -1..2]
           p == IF found = {} THEN Lost
                ELSE IF stuck THEN Retried(th)
                ELSE CASE state = "active" -> [Same EXCEPT !.phase = "Ready"]
                       [] state = "killed" -> [Same EXCEPT !.phase = "Error"]
                       [] state = "busy" -> Same
                       [] state = "queued" -> [Same EXCEPT !.began = IF th.began = 0 THEN 1 ELSE -1]
           td == IF stuck THEN <<"drop", "patch">> ELSE Tail(th.todo)
           x == [th EXCEPT !.todo = td, !.put = p]
<1>1. Busy(t) /\ Head(th.todo) = "look" /\ th.fn = "poll"
  BY DEF Poll, At
<1>2. /\ th \in Thread /\ th.todo # <<>> /\ ThreadFits(plan, c, w, th, cr[c], stock, ids)
      /\ WorkFits(plan, c, th, cr[c], stock, ids) /\ t \in Threads /\ th.kind \in Kinds
      /\ Tail(th.todo) \in Seq(Steps) /\ th.tries \in 0..3
  BY <1>1, ThreadIs DEF Thread
<1>3. KeepRecords /\ gc' = gc /\ ids' = ids /\ stock' = stock /\ events' \in Nat
  BY DEF Poll, Typed, KeepCloud
<1>4. task' = [task EXCEPT ![t] = x]
  <2>1. task' = [task EXCEPT ![t].todo = td, ![t].put = p]
    BY DEF Poll, Rest
  <2> HIDE DEF p, td
  <2> QED
    BY <2>1 DEF Typed
<1>5. found # {} => state \in {"active", "killed", "queued", "busy"}
  <2> SUFFICES ASSUME found # {} PROVE state \in {"active", "killed", "queued", "busy"}
    OBVIOUS
  <2>1. PICK r \in found : r = CHOOSE s \in found : TRUE
    OBVIOUS
  <2>2. r.state \in {"bare", "queued", "busy", "active", "killed"}
    BY DEF ById, Typed, Stocked, Row
  <2>3. Seen(r) \in {"active", "killed", "queued", "busy"}
    BY <2>2 DEF Seen
  <2> QED
    BY <2>1, <2>3
<1>6. /\ Same \in Asks
      /\ [Same EXCEPT !.phase = "Ready"] \in Asks
      /\ [Same EXCEPT !.phase = "Error"] \in Asks
      /\ [Same EXCEPT !.began = IF th.began = 0 THEN 1 ELSE -1] \in Asks
  BY DEF Same
<1>7. Asks \subseteq Put /\ \A a \in Asks : a.id = -1 /\ a.tries = -1
  <2>1. {"same", "Ready", "Error"} \subseteq {"same", "Provisioning", "Pending", "Ready", "Error"}
    OBVIOUS
  <2>2. {-1} \subseteq -1..MaxIds /\ {-1} \subseteq -1..3
    BY ClusterCloudAssumption
  <2> QED
    BY <2>1, <2>2 DEF Put
<1> HIDE DEF Asks
<1>8. \/ ~stuck /\ p = Lost
      \/ stuck /\ p = Retried(th)
      \/ ~stuck /\ p \in Asks
  BY <1>5, <1>6
<1>9. p \in Put /\ p.id \in {-1, 0} /\ p.tries <= 2
  <2> HIDE DEF p
  <2>1. p = Lost => p \in Put /\ p.id \in {-1, 0} /\ p.tries <= 2
    BY PutsAre
  <2>2. p = Retried(th) => p \in Put /\ p.id \in {-1, 0} /\ p.tries <= 2
    BY <1>2, RetriedIs
  <2>3. p \in Asks => p \in Put /\ p.id \in {-1, 0} /\ p.tries <= 2
    BY <1>7
  <2> QED
    BY <1>8, <2>1, <2>2, <2>3
<1>10. td \in Seq(Steps) /\ td = IF stuck THEN <<"drop", "patch">> ELSE Tail(th.todo)
  <2>1. <<"drop", "patch">> \in Seq(Steps)
    BY DEF Steps
  <2> QED
    BY <1>2, <2>1
<1> HIDE DEF p, td, stuck, found, state
<1>11. x \in Thread
  BY <1>2, <1>9, <1>10 DEF Thread
<1>12. /\ x.cr = th.cr /\ x.kind = th.kind /\ x.spec = th.spec /\ x.was = th.was /\ x.fn = th.fn
       /\ x.id = th.id /\ x.end = th.end /\ x.blob = th.blob /\ x.whole = th.whole
       /\ x.put = p /\ x.todo = td /\ x.tries = th.tries
  BY <1>2 DEF Thread
<1> HIDE DEF x
<1>13. plan.kinds[c] = "image" => ImageFits(w, x, cr[c], stock)
  <2> SUFFICES ASSUME plan.kinds[c] = "image"
               PROVE  ImageFits(w, x, cr[c], stock)
    OBVIOUS
  <2>1. w = "poll" /\ PollFits(th, cr[c])
    BY <1>1, <1>2, ImageHeads DEF ThreadFits
  <2>2. th.todo = <<"look", "patch">>
    BY <1>1, <2>1, ShortTodos DEF PollFits
  <2>3. x.todo = IF stuck THEN <<"drop", "patch">> ELSE <<"patch">>
    BY <1>10, <1>12, <2>2, ShortTodos
  <2>4. Retried(x) = Retried(th)
    BY <1>12 DEF Retried
  <2>5. PollFits(x, cr[c])
    BY <1>8, <1>12, <2>1, <2>3, <2>4 DEF PollFits, Asks
  <2> QED
    BY <2>1, <2>5 DEF ImageFits
<1>14. x.put.tries <= 2 /\ (x.put.id # -1 => Named(x.put.id, th.kind, Mine(plan, th.cr), stock, ids))
  BY <1>9, <1>12, NamedZero DEF Typed
<1>15. ThreadFits(plan, c, w, x, cr[c], stock, ids)
  BY <1>1, <1>2, <1>11, <1>12, <1>13, <1>14, DecidedFits
<1> QED
  BY <1>3, <1>4, <1>15, SameGrown, StockStep

-----------------------------------------------------------------------------
(* Threads that start, and patches.                                        *)

LEMMA StartedIs ==
  ASSUME Typed, NEW c \in Records, NEW fn \in {"create", "update", "delete", "look", "recreate", "poll"},
         NEW todo \in Seq(Steps), cr[c].spec \in Wish
  PROVE  LET x == Started(c, fn, todo)
         IN /\ x \in Thread
            /\ x.todo = todo /\ x.fn = fn /\ x.cr = c /\ x.kind = plan.kinds[c] /\ x.spec = cr[c].spec
            /\ x.id = cr[c].id /\ x.was = cr[c].id /\ x.tries = cr[c].tries /\ x.end = "ok"
            /\ x.put = Same /\ x.blob = EmptyBlob /\ x.whole = NoRegistry
<1> DEFINE i == Idle
           sp == cr[c].spec
           id == cr[c].id
           tries == cr[c].tries
           began == cr[c].began
           kind == plan.kinds[c]
<1>1. i \in Thread
  BY IdleIsThread
<1>2. i.end = "ok" /\ i.put = Same /\ i.blob = EmptyBlob /\ i.whole = NoRegistry
  BY DEF Idle
<1>3. cr[c] \in Record /\ kind \in Kinds
  BY PlanFits DEF Typed
<1>4. id \in 0..MaxIds /\ tries \in 0..3 /\ began \in 0..2
  BY <1>3 DEF Record
<1> DEFINE x == [i EXCEPT !.todo = todo, !.fn = fn, !.cr = c, !.kind = kind, !.spec = sp,
                          !.id = id, !.was = id, !.tries = tries, !.began = began]
<1>5. Started(c, fn, todo) = x
  BY DEF Started, Kind
<1>6. sp \in Wish
  OBVIOUS
<1> HIDE DEF i, sp, id, tries, began, kind
<1>7. x \in Thread
  BY <1>1, <1>3, <1>4, <1>6 DEF Thread
<1>8. /\ x.todo = todo /\ x.fn = fn /\ x.cr = c /\ x.kind = kind /\ x.spec = sp
      /\ x.id = id /\ x.was = id /\ x.tries = tries /\ x.end = i.end
      /\ x.put = i.put /\ x.blob = i.blob /\ x.whole = i.whole
  BY <1>1 DEF Thread
<1> HIDE DEF x
<1> QED
  BY <1>2, <1>5, <1>7, <1>8 DEF sp, id, tries, kind

LEMMA StartedFits ==
  ASSUME Typed, Fits, NEW c \in Records, NEW w \in Ways,
         NEW fn \in {"create", "update", "delete", "look", "recreate", "poll"}, NEW todo \in Seq(Steps),
         cr[c].at # "absent", NEW r, r.spec = cr[c].spec, r.held,
         fn = "create" => todo \in Seq(MakeSteps),
         plan.kinds[c] = "image" => ImageFits(w, Started(c, fn, todo), r, stock)
  PROVE  ThreadFits(plan, c, w, Started(c, fn, todo), r, stock, ids)
<1> DEFINE x == Started(c, fn, todo)
<1>1. RecordFits(plan, c, cr[c], stock, ids) /\ plan.wishes[c] \subseteq Wish
  BY PlanFits, RowsTyped
<1>2. cr[c].spec \in plan.wishes[c] /\ cr[c].spec \in Wish
      /\ Named(cr[c].id, plan.kinds[c], Mine(plan, c), stock, ids)
  BY <1>1 DEF RecordFits
<1>3. /\ x \in Thread
      /\ x.todo = todo /\ x.fn = fn /\ x.cr = c /\ x.kind = plan.kinds[c] /\ x.spec = cr[c].spec
      /\ x.id = cr[c].id /\ x.was = cr[c].id /\ x.tries = cr[c].tries /\ x.end = "ok"
      /\ x.put = Same /\ x.blob = EmptyBlob /\ x.whole = NoRegistry
  BY <1>2, StartedIs
<1> HIDE DEF x
<1>4. x.put.id = -1 /\ x.put.tries <= 2
  BY <1>3, PutsAre
<1>5. WorkFits(plan, c, x, r, stock, ids)
  BY <1>2, <1>3, <1>4 DEF WorkFits
<1>6. BlobFits(plan, x.blob, x.kind, stock, ids) /\ RegistryFits(plan, x.whole, stock, ids)
  BY <1>3, EmptyFits
<1>7. ThreadFits(plan, c, w, x, r, stock, ids)
  BY <1>3, <1>5, <1>6 DEF ThreadFits, x
<1> QED
  BY <1>7 DEF x

\* What change handlers are given to do.
LEMMA ProgramsAre ==
  ASSUME Typed, NEW c \in Records
  PROVE  /\ Created(c) \in Seq(MakeSteps)
         /\ Created(c) \in Seq(Steps) /\ UpdatedTo(c) \in Seq(Steps) /\ Deleted(c) \in Seq(Steps)
         /\ cr[c].id = 0 /\ plan.kinds[c] # "policy" => UpdatedTo(c) = Created(c)
         /\ plan.kinds[c] = "image" =>
              /\ Created(c) = CreateImage(cr[c].spec)
              /\ cr[c].id # 0 => UpdatedTo(c) = <<"settings">>
              /\ Deleted(c) \in Seq(DeleteSteps)
<1> DEFINE made == <<"find", "make">> \o Register
           gone == <<"erase">> \o Unregister
<1>1. plan.kinds[c] \in Kinds
  BY PlanFits
<1>2. <<"find", "make">> \in Seq(MakeSteps) /\ <<"find">> \in Seq(MakeSteps)
  BY DEF MakeSteps
<1>3. made \in Seq(MakeSteps)
  BY <1>2, RegisterIs, Joined
<1>4. Seq(MakeSteps) \subseteq Seq(Steps) /\ Seq(DeleteSteps) \subseteq Seq(Steps)
  <2>1. MakeSteps \subseteq Steps /\ DeleteSteps \subseteq Steps
    BY DEF MakeSteps, DeleteSteps, Steps
  <2> QED
    BY <2>1
<1>5. <<"erase">> \in Seq(DeleteSteps) /\ Unregister \in Seq(DeleteSteps) /\ <<>> \in Seq(DeleteSteps)
  BY DEF DeleteSteps, Unregister
<1>6. gone \in Seq(DeleteSteps)
  BY <1>5, Joined
<1>7. gone \o made \in Seq(Steps)
  BY <1>3, <1>4, <1>6, Joined
<1>8. gone \o <<"find", "make">> \o Register \in Seq(Steps)
  <2>1. gone \o <<"find", "make">> \in Seq(Steps)
    BY <1>2, <1>4, <1>6, Joined
  <2> QED
    BY <2>1, RegisterIs, Joined
<1>9. <<"settings">> \in Seq(Steps) /\ <<"compare">> \in Seq(Steps)
  BY DEF Steps
<1> DEFINE again == gone \o <<"find", "make">> \o Register
<1>10. /\ CreateDomain = made /\ CreateFlavor = made /\ CreateNetwork = made /\ CreatePolicy = made
       /\ CreateImage(cr[c].spec) \in {<<"find">>, made}
  BY DEF CreateDomain, CreateFlavor, CreateNetwork, CreatePolicy, CreateImage
<1>11. /\ DeleteDomain(cr[c]) \in {<<>>, gone} /\ DeleteFlavor(cr[c]) \in {<<>>, gone}
       /\ DeleteImage(cr[c]) \in {<<>>, gone} /\ DeleteNetwork(cr[c]) \in {<<>>, gone}
       /\ DeletePolicy(cr[c]) \in {<<>>, gone}
  BY DEF DeleteDomain, DeleteFlavor, DeleteImage, DeleteNetwork, DeletePolicy
<1>12. /\ UpdateDomain(cr[c]) = IF cr[c].id = 0 THEN CreateDomain ELSE <<"settings">>
       /\ UpdateImage(cr[c]) = IF cr[c].id = 0 THEN CreateImage(cr[c].spec) ELSE <<"settings">>
       /\ UpdatePolicy(cr[c]) = <<"compare">>
       /\ cr[c].id = 0 => UpdateFlavor(cr[c]) = CreateFlavor /\ UpdateNetwork(cr[c]) = CreateNetwork
       /\ cr[c].id # 0 => /\ UpdateFlavor(cr[c]) \in {again, <<"settings">>}
                          /\ UpdateNetwork(cr[c]) \in {again, <<"settings">>, <<>>}
  BY DEF UpdateDomain, UpdateImage, UpdatePolicy, UpdateFlavor, UpdateNetwork
<1> HIDE DEF made, gone, again
<1>13. again \in Seq(Steps)
  BY <1>8 DEF again
<1>14. Created(c) \in Seq(MakeSteps)
  BY <1>1, <1>2, <1>3, <1>10 DEF Created, Kind, Kinds
<1>15. UpdatedTo(c) \in Seq(Steps)
  BY <1>1, <1>2, <1>3, <1>4, <1>5, <1>9, <1>10, <1>12, <1>13 DEF UpdatedTo, Kind, Kinds
<1>16. Deleted(c) \in Seq(DeleteSteps)
  BY <1>1, <1>5, <1>6, <1>11 DEF Deleted, Kind, Kinds
<1>17. cr[c].id = 0 /\ plan.kinds[c] # "policy" => UpdatedTo(c) = Created(c)
  BY <1>1, <1>12 DEF UpdatedTo, Created, Kind, Kinds
<1>18. plan.kinds[c] = "image" => /\ Created(c) = CreateImage(cr[c].spec)
                                  /\ cr[c].id # 0 => UpdatedTo(c) = <<"settings">>
  BY <1>12 DEF UpdatedTo, Created, Kind
<1> QED
  BY <1>4, <1>14, <1>15, <1>16, <1>17, <1>18

\* An image is made, or found when it is external.
LEMMA MakingStarts ==
  ASSUME NEW sp, NEW x, x.spec = sp, x.todo = CreateImage(sp) \o <<"patch">>, x.end = "ok"
  PROVE  /\ Finding(x) \/ (Making(x) /\ Head(x.todo) = "find")
         /\ x.todo # <<>> /\ Head(x.todo) = "find"
<1>1. CASE sp.external
  <2>1. x.todo = <<"find", "patch">>
    BY <1>1, ImagePrograms DEF CreateImage
  <2> QED
    BY <1>1, <2>1, ShortTodos DEF Finding, FindTodos
<1>2. CASE ~sp.external
  <2>1. x.todo \in MakeTodos /\ Head(x.todo) = "find"
    BY <1>2, ImagePrograms DEF CreateImage
  <2> QED
    BY <1>2, <2>1, MakeTodoIs DEF Making
<1> QED
  BY <1>1, <1>2

\* A record of which kopf takes hold.
LEMMA HeldFits ==
  ASSUME Typed, Fits, NEW c \in Records, cr[c].at # "absent", NEW r2,
         r2 = [cr[c] EXCEPT !.held = TRUE]
  PROVE  /\ RecordFits(plan, c, r2, stock, ids)
         /\ r2.held /\ r2.spec = cr[c].spec /\ r2.at = cr[c].at /\ r2.tries = cr[c].tries
         /\ r2.id = cr[c].id /\ r2.phase = cr[c].phase /\ r2.handled = cr[c].handled
<1>1. cr[c] \in Record /\ RecordFits(plan, c, cr[c], stock, ids)
  BY RowsTyped
<1>2. r2 \in Record
  <2>1. cr[c] \in Record /\ TRUE \in BOOLEAN
    BY <1>1
  <2> QED
    BY <2>1 DEF Record
<1>3. /\ r2.held /\ r2.spec = cr[c].spec /\ r2.at = cr[c].at /\ r2.tries = cr[c].tries
      /\ r2.id = cr[c].id /\ r2.phase = cr[c].phase /\ r2.handled = cr[c].handled
  BY <1>1 DEF Record
<1>4. RecordFits(plan, c, r2, stock, ids)
  BY <1>1, <1>2, <1>3 DEF RecordFits
<1> QED
  BY <1>3, <1>4

LEMMA StartChangeFits ==
  ASSUME Typed, Fits, NEW c \in Records, StartChange(c)
  PROVE  Typed' /\ Fits'
<1> DEFINE t == <<c, "change">>
           r2 == [cr[c] EXCEPT !.held = TRUE]
           new == cr[c].handled = NoWish
           fn == IF new \/ (cr[c].id = 0 /\ Kind(c) # "policy") THEN "create" ELSE "update"
           todo == (IF new THEN Created(c) ELSE UpdatedTo(c)) \o <<"patch">>
           last == Deleted(c) \o <<"release">>
<1>1. \/ Live(c) /\ task' = [task EXCEPT ![t] = Started(c, fn, todo)]
      \/ cr[c].at = "deleting" /\ task' = [task EXCEPT ![t] = Started(c, "delete", last)]
  BY DEF StartChange
<1>2. /\ cr' = [cr EXCEPT ![c] = r2] /\ registry' = registry /\ plan' = plan /\ events' = events
      /\ imports' = imports /\ gc' = gc /\ stock' = stock /\ ids' = ids /\ ~Busy(Collector)
  BY DEF StartChange, KeepCloud, LoopFree, Typed
<1>3. cr[c].at # "absent" /\ "change" \in Ways /\ cr[c] \in Record
  BY <1>1, RowsTyped DEF Live, Ways
<1>4. /\ RecordFits(plan, c, r2, stock, ids)
      /\ r2.held /\ r2.spec = cr[c].spec /\ r2.at = cr[c].at /\ r2.tries = cr[c].tries
  BY <1>3, HeldFits
<1> HIDE DEF r2
<1>5. \A v \in Ways : Softer(plan.kinds[c], v, cr[c], r2)
  <2>1. cr[c].tries \in 0..3
    BY <1>3 DEF Record
  <2> QED
    BY <1>4, <2>1 DEF Softer
<1>6. /\ stock' = stock /\ ids' = ids /\ Stocked(stock', ids') /\ Grown(stock, ids, stock', ids')
      /\ registry' \in Registry /\ RegistryFits(plan, registry', stock', ids')
      /\ events' \in Nat /\ imports' \in [Records -> Nat]
  BY <1>2, SameGrown DEF Typed, Fits
<1>7. ASSUME NEW x, task' = [task EXCEPT ![t] = x], ThreadFits(plan, c, "change", x, r2, stock, ids)
      PROVE  Typed' /\ Fits'
  <2>1. ThreadFits(plan, c, "change", x, r2, stock', ids') /\ RecordFits(plan, c, r2, stock', ids')
    BY <1>4, <1>6, <1>7
  <2>2. \A v \in Ways \ {"change"} : task[<<c, v>>].todo # <<>> => Softer(plan.kinds[c], v, cr[c], r2)
    BY <1>5
  <2>3. Busy(Collector) => r2.held = cr[c].held
    BY <1>2
  <2>4. cr' = [cr EXCEPT ![c] = r2] /\ plan' = plan /\ gc' = gc /\ "change" \in Ways
    BY <1>2, <1>3
  <2> QED
    BY <1>6, <1>7, <2>1, <2>2, <2>3, <2>4, RowsMove
<1>8. cr[c].spec \in Wish
  BY <1>3, PlanFits, RowsTyped DEF RecordFits
<1>9. CASE Live(c) /\ task' = [task EXCEPT ![t] = Started(c, fn, todo)]
  <2>1. todo \in Seq(Steps)
    <3>1. (IF new THEN Created(c) ELSE UpdatedTo(c)) \in Seq(Steps)
      BY ProgramsAre
    <3> QED
      BY <3>1, RegisterIs, Joined
  <2>2. fn = "create" => todo = Created(c) \o <<"patch">>
    BY ProgramsAre DEF Kind
  <2>3. fn = "create" => todo \in Seq(MakeSteps)
    <3>1. Created(c) \o <<"patch">> \in Seq(MakeSteps)
      BY ProgramsAre, RegisterIs, Joined
    <3> QED
      BY <2>2, <3>1
  <2>4. fn \in {"create", "update"}
    OBVIOUS
  <2>5. fn = "update" /\ plan.kinds[c] = "image" => todo = <<"settings", "patch">>
    <3>1. fn = "update" /\ plan.kinds[c] = "image" => todo = <<"settings">> \o <<"patch">>
      BY ProgramsAre DEF Kind
    <3> QED
      BY <3>1, ImagePrograms
  <2> HIDE DEF fn, todo
  <2>6. plan.kinds[c] = "image" => ImageFits("change", Started(c, fn, todo), r2, stock)
    <3> SUFFICES ASSUME plan.kinds[c] = "image"
                 PROVE  ImageFits("change", Started(c, fn, todo), r2, stock)
      OBVIOUS
    <3> DEFINE x == Started(c, fn, todo)
    <3>1. x.todo = todo /\ x.fn = fn /\ x.spec = cr[c].spec /\ x.end = "ok"
      BY <1>8, <2>1, <2>4, StartedIs
    <3> HIDE DEF x
    <3>2. CASE fn = "create"
      <4>1. x.todo = CreateImage(cr[c].spec) \o <<"patch">>
        BY <2>2, <3>1, <3>2, ProgramsAre
      <4>2. Finding(x) \/ Making(x)
        BY <3>1, <4>1, MakingStarts
      <4> QED
        BY <3>1, <3>2, <4>2 DEF ImageFits, ChangeFits, x
    <3>3. CASE fn = "update"
      BY <2>5, <3>1, <3>3 DEF ImageFits, ChangeFits, x
    <3> QED
      BY <2>4, <3>2, <3>3
  <2>7. ThreadFits(plan, c, "change", Started(c, fn, todo), r2, stock, ids)
    BY <1>3, <1>4, <2>1, <2>3, <2>4, <2>6, StartedFits
  <2> QED
    BY <1>7, <1>9, <2>7
<1>10. CASE cr[c].at = "deleting" /\ task' = [task EXCEPT ![t] = Started(c, "delete", last)]
  <2>1. last \in Seq(Steps)
    <3>1. <<"release">> \in Seq(Steps)
      BY DEF Steps
    <3> QED
      BY <3>1, ProgramsAre, Joined
  <2>2. plan.kinds[c] = "image" => last \in Seq(DeleteSteps)
    <3>1. <<"release">> \in Seq(DeleteSteps)
      BY DEF DeleteSteps
    <3> QED
      BY <3>1, ProgramsAre, Joined
  <2> HIDE DEF last
  <2>3. plan.kinds[c] = "image" => ImageFits("change", Started(c, "delete", last), r2, stock)
    <3> DEFINE x == Started(c, "delete", last)
    <3>1. x.todo = last /\ x.fn = "delete"
      BY <1>8, <2>1, StartedIs
    <3> HIDE DEF x
    <3> QED
      BY <1>4, <1>10, <2>2, <3>1 DEF ImageFits, ChangeFits, x
  <2>4. ThreadFits(plan, c, "change", Started(c, "delete", last), r2, stock, ids)
    BY <1>3, <1>4, <2>1, <2>3, StartedFits
  <2> QED
    BY <1>7, <1>10, <2>4
<1> QED
  BY <1>1, <1>9, <1>10

LEMMA StartThreadFits ==
  ASSUME Typed, Fits, NEW c \in Records, NEW w \in Ways, NEW x,
         StartThread(c, <<c, w>>, x), ThreadFits(plan, c, w, x, cr[c], stock, ids)
  PROVE  Typed' /\ Fits'
<1>1. /\ task' = [task EXCEPT ![<<c, w>>] = x] /\ stock' = stock /\ ids' = ids /\ gc' = gc
      /\ KeepRecords /\ events' \in Nat
  BY DEF StartThread, KeepCloud, records, KeepRecords, Typed
<1> QED
  BY <1>1, SameGrown, StockStep

LEMMA LiveHeld ==
  ASSUME Typed, Fits, NEW c \in Records, cr[c].phase # ""
  PROVE  cr[c].held
BY RowsTyped DEF RecordFits

LEMMA LookProgram ==
  <<"look", "patch">> \in Seq(Steps)
BY DEF Steps

LEMMA StartTimerFits ==
  ASSUME Typed, Fits, NEW c \in Records, StartTimer(c)
  PROVE  Typed' /\ Fits'
<1> DEFINE again == CreateImage(cr[c].spec) \o <<"patch">>
<1>1. cr[c].at # "absent" /\ "timer" \in Ways /\ cr[c].phase # ""
  BY DEF StartTimer, StartThread, Live, Ways
<1>2. cr[c].held /\ cr[c].spec \in Wish
  BY <1>1, LiveHeld, RowsTyped, PlanFits DEF RecordFits
<1>3. CASE StartThread(c, <<c, "timer">>, Started(c, "look", <<"look", "patch">>))
  <2>0. PICK td \in Seq(Steps) : td = <<"look", "patch">>
    BY LookProgram
  <2> DEFINE x == Started(c, "look", td)
  <2>1. x.todo = td /\ x.fn = "look" /\ x.put = Same
    BY <1>2, StartedIs
  <2> HIDE DEF x
  <2>2. ImageFits("timer", x, cr[c], stock)
    BY <2>0, <2>1, PutsAre DEF ImageFits, TimerFits
  <2>3. ThreadFits(plan, c, "timer", x, cr[c], stock, ids)
    BY <1>1, <1>2, <2>2, StartedFits DEF x
  <2> QED
    BY <1>1, <1>3, <2>0, <2>3, StartThreadFits DEF x
<1>4. CASE Kind(c) = "image" /\ StartThread(c, <<c, "timer">>, Started(c, "recreate", again))
  <2>1. again \in Seq(Steps)
    <3>1. plan.kinds[c] = "image"
      BY <1>4 DEF Kind
    <3>2. CreateImage(cr[c].spec) \in Seq(Steps)
      BY <3>1, ProgramsAre
    <3> QED
      BY <3>2, RegisterIs, Joined
  <2> HIDE DEF again
  <2> DEFINE x == Started(c, "recreate", again)
  <2>2. x.todo = again /\ x.fn = "recreate" /\ x.end = "ok" /\ x.spec = cr[c].spec
    BY <1>2, <2>1, StartedIs
  <2> HIDE DEF x
  <2>3. Finding(x) \/ (Making(x) /\ Head(x.todo) = "find")
    BY <2>2, MakingStarts DEF again
  <2>4. ImageFits("timer", x, cr[c], stock)
    BY <2>2, <2>3 DEF ImageFits, TimerFits
  <2>5. ThreadFits(plan, c, "timer", x, cr[c], stock, ids)
    BY <1>1, <1>2, <2>1, <2>4, StartedFits DEF x
  <2> QED
    BY <1>1, <1>4, <2>5, StartThreadFits DEF x
<1> QED
  BY <1>3, <1>4 DEF StartTimer

LEMMA StartPollFits ==
  ASSUME Typed, Fits, NEW c \in Records, StartPoll(c)
  PROVE  Typed' /\ Fits'
<1>0. PICK td \in Seq(Steps) : td = <<"look", "patch">>
  BY LookProgram
<1> DEFINE x == Started(c, "poll", td)
<1>1. cr[c].at # "absent" /\ "poll" \in Ways /\ cr[c].phase # "" /\ StartThread(c, <<c, "poll">>, x)
  BY <1>0 DEF StartPoll, StartThread, Live, Ways
<1>2. cr[c].held /\ cr[c].spec \in Wish /\ cr[c].tries <= 2 /\ cr[c].tries \in 0..3
  BY <1>1, LiveHeld, RowsTyped, PlanFits DEF RecordFits, Record
<1>3. x.todo = td /\ x.fn = "poll" /\ x.put = Same /\ x.tries = cr[c].tries
  BY <1>2, StartedIs
<1> HIDE DEF x
<1>4. ImageFits("poll", x, cr[c], stock)
  BY <1>0, <1>2, <1>3 DEF ImageFits, PollFits
<1>5. ThreadFits(plan, c, "poll", x, cr[c], stock, ids)
  BY <1>1, <1>2, <1>4, StartedFits DEF x
<1> QED
  BY <1>1, <1>5, StartThreadFits

\* A patch: what it writes, and what it leaves.
LEMMA WrittenIs ==
  ASSUME NEW r \in Record, NEW put \in Put
  PROVE  LET u == Written(r, put)
         IN /\ u \in Record
            /\ u.at = r.at /\ u.spec = r.spec /\ u.held = r.held /\ u.handled = r.handled
            /\ u.phase = IF put.phase = "same" THEN r.phase ELSE put.phase
            /\ u.id = IF put.id = -1 THEN r.id ELSE put.id
            /\ u.tries = IF put.tries = -1 THEN r.tries ELSE put.tries
<1> DEFINE phase == IF put.phase = "same" THEN r.phase ELSE put.phase
           id == IF put.id = -1 THEN r.id ELSE put.id
           tries == IF put.tries = -1 THEN r.tries ELSE put.tries
           began == IF put.began = -1 THEN r.began ELSE put.began
           u == [r EXCEPT !.phase = phase, !.id = id, !.tries = tries, !.began = began]
<1>1. phase \in {"", "Provisioning", "Pending", "Ready", "Error"}
  BY DEF Record, Put
<1>2. id \in 0..MaxIds /\ tries \in 0..3 /\ began \in 0..2
  <2>1. id \in 0..MaxIds
    <3>1. put.id \in -1..MaxIds /\ r.id \in 0..MaxIds
      BY DEF Record, Put
    <3>2. id = IF put.id = -1 THEN r.id ELSE put.id
      OBVIOUS
    <3> HIDE DEF id
    <3>3. CASE put.id = -1
      BY <3>1, <3>2, <3>3
    <3>4. CASE put.id # -1
      <4>1. put.id \in 0..MaxIds
        BY <3>1, <3>4, ClusterCloudAssumption
      <4> QED
        BY <3>2, <3>4, <4>1
    <3> QED
      BY <3>3, <3>4
  <2>2. tries \in 0..3
    <3>1. put.tries \in -1..3 /\ r.tries \in 0..3
      BY DEF Record, Put
    <3>2. tries = IF put.tries = -1 THEN r.tries ELSE put.tries
      OBVIOUS
    <3> HIDE DEF tries
    <3>3. CASE put.tries = -1
      BY <3>1, <3>2, <3>3
    <3>4. CASE put.tries # -1
      <4>1. put.tries \in 0..3
        BY <3>1, <3>4, ClusterCloudAssumption
      <4> QED
        BY <3>2, <3>4, <4>1
    <3> QED
      BY <3>3, <3>4
  <2>3. began \in 0..2
    <3>1. put.began \in -1..2 /\ r.began \in 0..2
      BY DEF Record, Put
    <3>2. began = IF put.began = -1 THEN r.began ELSE put.began
      OBVIOUS
    <3> HIDE DEF began
    <3>3. CASE put.began = -1
      BY <3>1, <3>2, <3>3
    <3>4. CASE put.began # -1
      <4>1. put.began \in 0..2
        BY <3>1, <3>4, ClusterCloudAssumption
      <4> QED
        BY <3>2, <3>4, <4>1
    <3> QED
      BY <3>3, <3>4
  <2> QED
    BY <2>1, <2>2, <2>3
<1>3. Written(r, put) = u
  BY DEF Written, Record
<1> HIDE DEF phase, id, tries, began
<1>4. u \in Record
  BY <1>1, <1>2 DEF Record
<1>5. /\ u.at = r.at /\ u.spec = r.spec /\ u.held = r.held /\ u.handled = r.handled
      /\ u.phase = phase /\ u.id = id /\ u.tries = tries
  BY DEF Record
<1> QED
  BY <1>3, <1>4, <1>5 DEF phase, id, tries

LEMMA PatchedFits ==
  ASSUME NEW pl, NEW d, NEW r, NEW S, NEW n, RecordFits(pl, d, r, S, n), r.held,
         NEW put \in Put, put.id # -1 => Named(put.id, pl.kinds[d], Mine(pl, d), S, n), put.tries <= 2,
         NEW h \in Wish \cup {NoWish}
  PROVE  LET r2 == [Written(r, put) EXCEPT !.handled = h]
         IN /\ RecordFits(pl, d, r2, S, n) /\ RecordFits(pl, d, Written(r, put), S, n)
            /\ r2.held /\ r2.spec = r.spec /\ r2.at = r.at /\ r2.handled = h
            /\ r2.phase = Written(r, put).phase /\ r2.id = Written(r, put).id
            /\ r2.tries = Written(r, put).tries
<1> DEFINE u == Written(r, put)
           r2 == [u EXCEPT !.handled = h]
<1>1. r \in Record
  BY DEF RecordFits
<1>2. /\ u \in Record
      /\ u.at = r.at /\ u.spec = r.spec /\ u.held = r.held /\ u.handled = r.handled
      /\ u.id = IF put.id = -1 THEN r.id ELSE put.id
      /\ u.tries = IF put.tries = -1 THEN r.tries ELSE put.tries
  BY <1>1, WrittenIs
<1> HIDE DEF u
<1>3. RecordFits(pl, d, u, S, n)
  BY <1>2 DEF RecordFits
<1>4. r2 \in Record
  BY <1>2 DEF Record
<1>5. /\ r2.at = u.at /\ r2.spec = u.spec /\ r2.held = u.held /\ r2.handled = h
      /\ r2.phase = u.phase /\ r2.id = u.id /\ r2.tries = u.tries
  BY <1>2 DEF Record
<1> HIDE DEF r2
<1>6. RecordFits(pl, d, r2, S, n)
  BY <1>3, <1>4, <1>5 DEF RecordFits
<1> QED
  BY <1>2, <1>3, <1>5, <1>6 DEF u, r2

\* A thread ends and leaves its patch.
LEMMA PatchStep ==
  ASSUME Typed, Fits, NEW c \in Records, NEW w \in Ways, NEW r2,
         task' = [task EXCEPT ![<<c, w>>] = Idle], cr' = [cr EXCEPT ![c] = r2],
         stock' = stock, ids' = ids, registry' = registry, plan' = plan, events' = events,
         imports' = imports, gc' = gc, ~Busy(Collector),
         RecordFits(plan, c, r2, stock, ids),
         \A v \in Ways \ {w} : task[<<c, v>>].todo # <<>> => Softer(plan.kinds[c], v, cr[c], r2)
  PROVE  Typed' /\ Fits'
<1>1. /\ Stocked(stock', ids') /\ Grown(stock, ids, stock', ids')
      /\ registry' \in Registry /\ RegistryFits(plan, registry', stock', ids')
      /\ events' \in Nat /\ imports' \in [Records -> Nat]
  BY SameGrown DEF Typed, Fits
<1>2. RecordFits(plan, c, r2, stock', ids') /\ ThreadFits(plan, c, w, Idle, r2, stock', ids')
  BY IdleFits
<1> QED
  BY <1>1, <1>2, RowsMove

LEMMA CreatePutIs ==
  ASSUME NEW c, NEW th \in Thread, th.end # "permanent"
  PROVE  LET p == PutOfCreate(c, th)
         IN p \in Put /\ p.id \in {-1, th.id} /\ p.tries \in {-1, 0}
<1>1. th.id \in -1..MaxIds /\ th.id \in 0..MaxIds /\ th.end \in {"ok", "failed", "missing"}
  BY ClusterCloudAssumption DEF Thread
<1>2. Same \in Put
  BY PutsAre
<1>3. ASSUME NEW a \in {"same", "Provisioning", "Pending", "Ready", "Error"}, NEW i \in {-1, th.id}
      PROVE  LET q == [Same EXCEPT !.phase = a, !.id = i]
             IN q \in Put /\ q.id = i /\ q.tries = -1 /\ q.phase = a
  <2> DEFINE s == Same
             q == [s EXCEPT !.phase = a, !.id = i]
  <2>1. s \in Put /\ s.tries = -1
    BY PutsAre
  <2>2. i \in -1..MaxIds
    BY <1>1, <1>2 DEF Same, Put
  <2> HIDE DEF s
  <2>3. q \in Put /\ q.id = i /\ q.tries = -1 /\ q.phase = a
    BY <2>1, <2>2 DEF Put
  <2> QED
    BY <2>3 DEF s
<1>4. CASE th.end = "missing"
  <2>1. PICK a \in {"same", "Provisioning", "Pending", "Ready", "Error"} :
          PutOfCreate(c, th) = [Same EXCEPT !.phase = a]
    BY <1>4 DEF PutOfCreate
  <2>2. [Same EXCEPT !.phase = a] \in Put
    BY PutsAre DEF Put
  <2> QED
    BY <2>1, <2>2, PutsAre DEF Same
<1>5. CASE th.end = "failed"
  <2>1. PutOfCreate(c, th) = [Same EXCEPT !.phase = "Error"]
    BY <1>5 DEF PutOfCreate
  <2>2. [Same EXCEPT !.phase = "Error"] \in Put
    BY PutsAre DEF Same, Put
  <2> QED
    BY <2>1, <2>2 DEF Same
<1>6. CASE th.end = "ok" /\ th.kind = "image" /\ ~th.spec.external /\ th.seen # "active"
  <2>1. PutOfCreate(c, th) = [phase |-> "Provisioning", id |-> th.id, tries |-> 0, began |-> 1]
    BY <1>6 DEF PutOfCreate
  <2>2. PutOfCreate(c, th) \in Put
    BY <1>1, <2>1 DEF Put
  <2> QED
    BY <2>1, <2>2
<1>7. CASE th.end = "ok" /\ ~(th.kind = "image" /\ ~th.spec.external /\ th.seen # "active")
  <2>1. PutOfCreate(c, th) = [Same EXCEPT !.phase = "Ready", !.id = IF th.kind = "policy" THEN -1 ELSE th.id]
    BY <1>7 DEF PutOfCreate
  <2> DEFINE i == IF th.kind = "policy" THEN -1 ELSE th.id
  <2>2. i \in {-1, th.id}
    OBVIOUS
  <2>3. PutOfCreate(c, th) = [Same EXCEPT !.phase = "Ready", !.id = i]
    BY <2>1
  <2> HIDE DEF i
  <2>4. PICK a \in {"same", "Provisioning", "Pending", "Ready", "Error"} : a = "Ready"
    OBVIOUS
  <2> DEFINE q == [Same EXCEPT !.phase = a, !.id = i]
  <2>5. q \in Put /\ q.id = i /\ q.tries = -1
    BY <1>3, <2>2
  <2>6. PutOfCreate(c, th) = q
    BY <2>3, <2>4
  <2> HIDE DEF q
  <2> QED
    BY <2>2, <2>5, <2>6
<1> QED
  BY <1>1, <1>4, <1>5, <1>6, <1>7

LEMMA UpdatePutIs ==
  ASSUME NEW th \in Thread
  PROVE  LET p == PutOfUpdate(th)
         IN p \in Put /\ p.id \in {-1, th.id, th.was} /\ p.tries = -1
<1>1. th.id \in -1..MaxIds /\ th.was \in -1..MaxIds /\ -1 \in -1..MaxIds
  BY ClusterCloudAssumption DEF Thread
<1>2. ASSUME NEW a \in {"Ready", "Error"}, NEW i \in {-1, th.id, th.was}
      PROVE  LET q == [Same EXCEPT !.phase = a, !.id = i]
             IN q \in Put /\ q.id = i /\ q.tries = -1
  <2> DEFINE s == Same
             q == [s EXCEPT !.phase = a, !.id = i]
  <2>1. s \in Put /\ s.tries = -1
    BY PutsAre
  <2>2. i \in -1..MaxIds
    BY <1>1
  <2> HIDE DEF s
  <2>3. q \in Put /\ q.id = i /\ q.tries = -1
    BY <2>1, <2>2 DEF Put
  <2> QED
    BY <2>3 DEF s
<1> DEFINE i == IF th.end = "ok" THEN (IF th.kind = "policy" THEN -1 ELSE th.id) ELSE th.was
           a == IF th.end = "ok" THEN "Ready" ELSE "Error"
<1>3. i \in {-1, th.id, th.was} /\ a \in {"Ready", "Error"}
  OBVIOUS
<1>4. PutOfUpdate(th) = [Same EXCEPT !.phase = a, !.id = i]
  BY DEF PutOfUpdate
<1> HIDE DEF i, a
<1> QED
  BY <1>2, <1>3, <1>4

LEMMA RecreatePutIs ==
  ASSUME NEW th \in Thread
  PROVE  LET p == PutOfRecreate(th)
         IN p \in Put /\ p.id \in {-1, th.id} /\ p.tries = -1
<1>1. th.id \in -1..MaxIds /\ -1 \in -1..MaxIds
  BY ClusterCloudAssumption DEF Thread
<1>2. ASSUME NEW a \in {"same", "Ready", "Error"}, NEW i \in {-1, th.id}
      PROVE  LET q == [Same EXCEPT !.phase = a, !.id = i]
             IN q \in Put /\ q.id = i /\ q.tries = -1
  <2> DEFINE s == Same
             q == [s EXCEPT !.phase = a, !.id = i]
  <2>1. s \in Put /\ s.tries = -1
    BY PutsAre
  <2>2. i \in -1..MaxIds
    BY <1>1
  <2> HIDE DEF s
  <2>3. q \in Put /\ q.id = i /\ q.tries = -1
    BY <2>1, <2>2 DEF Put
  <2> QED
    BY <2>3 DEF s
<1>3. CASE PutOfRecreate(th) = Same
  BY <1>3, PutsAre
<1>4. CASE PutOfRecreate(th) = [Same EXCEPT !.phase = "Error"]
  <2>1. [Same EXCEPT !.phase = "Error"] \in Put
    BY PutsAre DEF Same, Put
  <2> QED
    BY <1>4, <2>1 DEF Same
<1>5. CASE PutOfRecreate(th) = [Same EXCEPT !.phase = "Ready", !.id = th.id]
  BY <1>2, <1>5
<1>6. CASE PutOfRecreate(th) = [Same EXCEPT !.phase = "Provisioning", !.id = th.id, !.began = 1]
  <2> DEFINE s == Same
  <2>1. s \in Put /\ s.tries = -1
    BY PutsAre
  <2>2. PICK a \in {"same", "Provisioning"}, b \in -1..2 : a = "Provisioning" /\ b = 1
    OBVIOUS
  <2>3. PutOfRecreate(th) = [s EXCEPT !.phase = a, !.id = th.id, !.began = b]
    BY <1>6, <2>2
  <2> HIDE DEF s
  <2>4. [s EXCEPT !.phase = a, !.id = th.id, !.began = b] \in Put
    BY <1>1, <2>1 DEF Put
  <2>5. LET m == [s EXCEPT !.phase = a, !.id = th.id, !.began = b]
        IN m.id = th.id /\ m.tries = -1
    BY <2>1 DEF Put
  <2> QED
    BY <2>3, <2>4, <2>5
<1> QED
  BY <1>3, <1>4, <1>5, <1>6 DEF PutOfRecreate

LEMMA PatchChangeFits ==
  ASSUME Typed, Fits, NEW c \in Records, PatchChange(c)
  PROVE  Typed' /\ Fits'
<1> DEFINE t == <<c, "change">>
           th == task[t]
           put == IF th.fn = "create" THEN PutOfCreate(c, th) ELSE PutOfUpdate(th)
           h == IF th.end \in {"ok", "permanent"} THEN th.spec ELSE cr[c].handled
           r2 == [Written(cr[c], put) EXCEPT !.handled = h]
<1>1. Busy(t) /\ "change" \in Ways /\ ~Busy(Collector)
  BY DEF PatchChange, At, LoopFree, Ways
<1>2. /\ th \in Thread /\ WorkFits(plan, c, th, cr[c], stock, ids) /\ th.spec \in Wish
  BY <1>1, ThreadIs
<1>3. cr[c] \in Record /\ RecordFits(plan, c, cr[c], stock, ids) /\ cr[c].held
  BY <1>2, RowsTyped DEF WorkFits
<1>4. put \in Put /\ put.id \in {-1, th.id, th.was} /\ put.tries \in {-1, 0}
  <2>1. CASE th.fn = "create"
    <3>1. th.end # "permanent" /\ put = PutOfCreate(c, th)
      BY <1>2, <2>1 DEF WorkFits
    <3> HIDE DEF put, th
    <3>2. PutOfCreate(c, th) \in Put /\ PutOfCreate(c, th).id \in {-1, th.id} /\ PutOfCreate(c, th).tries \in {-1, 0}
      BY <1>2, <3>1, CreatePutIs
    <3> QED
      BY <3>1, <3>2
  <2>2. CASE th.fn # "create"
    <3>1. put = PutOfUpdate(th)
      BY <2>2
    <3> HIDE DEF put, th
    <3>2. PutOfUpdate(th) \in Put /\ PutOfUpdate(th).id \in {-1, th.id, th.was} /\ PutOfUpdate(th).tries = -1
      BY <1>2, UpdatePutIs
    <3> QED
      BY <3>1, <3>2
  <2> QED
    BY <2>1, <2>2
<1>5. h \in Wish \cup {NoWish}
  BY <1>2, <1>3 DEF Record
<1>6. /\ task' = [task EXCEPT ![t] = Idle] /\ cr' = [cr EXCEPT ![c] = r2]
      /\ stock' = stock /\ ids' = ids /\ registry' = registry /\ plan' = plan /\ events' = events
      /\ imports' = imports /\ gc' = gc
  <2>1. cr' = [cr EXCEPT ![c] = r2]
    BY DEF PatchChange
  <2> QED
    BY <2>1 DEF PatchChange, KeepCloud
<1> HIDE DEF put, h
<1>7. put.id # -1 => Named(put.id, plan.kinds[c], Mine(plan, c), stock, ids)
  BY <1>2, <1>4 DEF WorkFits
<1>8. put.tries <= 2
  BY <1>4
<1>9. /\ RecordFits(plan, c, r2, stock, ids) /\ r2.held /\ r2.spec = cr[c].spec /\ r2.at = cr[c].at
      /\ r2.tries = Written(cr[c], put).tries
  BY <1>3, <1>4, <1>5, <1>7, <1>8, PatchedFits
<1>10. Written(cr[c], put).tries = IF put.tries = -1 THEN cr[c].tries ELSE put.tries
  BY <1>3, <1>4, WrittenIs
<1>11. r2.tries <= cr[c].tries
  <2>1. cr[c].tries \in 0..3
    BY <1>3 DEF Record
  <2> HIDE DEF r2
  <2> QED
    BY <1>4, <1>9, <1>10, <2>1
<1> HIDE DEF r2
<1>12. \A v \in Ways : Softer(plan.kinds[c], v, cr[c], r2)
  BY <1>9, <1>11 DEF Softer
<1> QED
  BY <1>1, <1>6, <1>9, <1>12, PatchStep

LEMMA PatchTimerFits ==
  ASSUME Typed, Fits, NEW c \in Records, NEW w \in {"timer", "poll"}, PatchTimer(c, <<c, w>>)
  PROVE  Typed' /\ Fits'
<1> DEFINE t == <<c, w>>
           th == task[t]
           put == IF th.fn = "recreate" THEN PutOfRecreate(th) ELSE th.put
           r2 == Written(cr[c], put)
<1>1. Busy(t) /\ w \in Ways /\ ~Busy(Collector)
  BY DEF PatchTimer, At, LoopFree, Ways
<1>2. /\ th \in Thread /\ WorkFits(plan, c, th, cr[c], stock, ids)
      /\ ThreadFits(plan, c, w, th, cr[c], stock, ids) /\ th.todo # <<>>
  BY <1>1, ThreadIs
<1>3. cr[c] \in Record /\ RecordFits(plan, c, cr[c], stock, ids) /\ cr[c].held
      /\ cr[c].handled \in Wish \cup {NoWish} /\ cr[c].tries \in 0..3
  BY <1>2, RowsTyped DEF WorkFits, Record
<1>4. th.fn = "recreate" => put \in Put /\ put.id \in {-1, th.id} /\ put.tries = -1
  <2> HIDE DEF th
  <2>1. PutOfRecreate(th) \in Put /\ PutOfRecreate(th).id \in {-1, th.id} /\ PutOfRecreate(th).tries = -1
    BY <1>2, RecreatePutIs
  <2> QED
    BY <2>1
<1>5. th.fn # "recreate" => put = th.put /\ put \in Put
  BY <1>2 DEF Thread
<1>6. put \in Put /\ put.tries <= 2 /\ (put.id # -1 => Named(put.id, plan.kinds[c], Mine(plan, c), stock, ids))
  <2> HIDE DEF put
  <2>1. CASE th.fn = "recreate"
    BY <1>2, <1>4, <2>1 DEF WorkFits
  <2>2. CASE th.fn # "recreate"
    BY <1>2, <1>5, <2>2 DEF WorkFits
  <2> QED
    BY <2>1, <2>2
<1>7. /\ task' = [task EXCEPT ![t] = Idle] /\ cr' = [cr EXCEPT ![c] = r2]
      /\ stock' = stock /\ ids' = ids /\ registry' = registry /\ plan' = plan /\ events' = events
      /\ imports' = imports /\ gc' = gc
  BY DEF PatchTimer, KeepCloud, Typed
<1>8. plan.kinds[c] = "image" /\ w = "timer" => put.tries = -1
  <2> SUFFICES ASSUME plan.kinds[c] = "image", w = "timer" PROVE put.tries = -1
    OBVIOUS
  <2>1. TimerFits(th, stock)
    BY <1>2 DEF ThreadFits, ImageFits
  <2> HIDE DEF put
  <2> QED
    BY <1>4, <1>5, <2>1 DEF TimerFits
<1> HIDE DEF put
<1>9. /\ RecordFits(plan, c, r2, stock, ids)
  BY <1>3, <1>6, PatchedFits
<1>10. r2.held = cr[c].held /\ r2.spec = cr[c].spec /\ r2.at = cr[c].at
       /\ r2.tries = IF put.tries = -1 THEN cr[c].tries ELSE put.tries
  BY <1>3, <1>6, WrittenIs
<1> HIDE DEF r2
<1>11. \A v \in Ways \ {w} : Softer(plan.kinds[c], v, cr[c], r2)
  BY <1>3, <1>8, <1>10 DEF Softer
<1> QED
  BY <1>1, <1>7, <1>9, <1>11, PatchStep

LEMMA ReleaseRecordFits ==
  ASSUME Typed, Fits, NEW c \in Records, ReleaseRecord(c)
  PROVE  Typed' /\ Fits'
<1>1. /\ task' = [task EXCEPT ![<<c, "change">>] = Idle] /\ cr' = [cr EXCEPT ![c] = Absent]
      /\ stock' = stock /\ ids' = ids /\ registry' = registry /\ plan' = plan /\ events' = events
      /\ imports' = imports /\ gc' = gc /\ ~Busy(Collector) /\ "change" \in Ways
  BY DEF ReleaseRecord, KeepCloud, LoopFree, Ways
<1>2. RecordFits(plan, c, Absent, stock, ids)
  BY AbsentFits DEF Typed
<1>3. \A v \in Ways \ {"change"} : task[<<c, v>>].todo = <<>>
  BY DEF ReleaseRecord, Busy, Ways
<1> QED
  BY <1>1, <1>2, <1>3, PatchStep

LEMMA CrashFits ==
  ASSUME Typed, Fits, Crash
  PROVE  Typed' /\ Fits'
<1>1. /\ task' = [t \in Threads |-> Idle] /\ gc' = NoGc /\ stock' = stock /\ ids' = ids
      /\ cr' = cr /\ registry' = registry /\ plan' = plan /\ imports' = imports
  BY DEF Crash, KeepCloud, KeepRecords
<1>2. events' \in Nat
  BY DEF Crash, Fault, Event, Typed
<1>3. Typed'
  <2>1. task' \in [Threads -> Thread]
    BY <1>1, IdleIsThread
  <2>2. gc' \in Listed
    BY <1>1 DEF NoGc, Listed
  <2> QED
    BY <1>1, <1>2, <2>1, <2>2 DEF Typed
<1>4. \A t \in Threads : task'[t] = Idle
  BY <1>1
<1>5. \A d \in Records, v \in Ways : ThreadFits(plan, d, v, task'[<<d, v>>], cr[d], stock, ids)
  BY <1>4, ThreadsAre, IdleFits
<1>6. CollectorFits(plan, task'[Collector], gc', stock, ids) /\ task'[Collector].todo = <<>>
  BY <1>4, ThreadsAre, IdleFits, IdleIsThread
<1> QED
  BY <1>1, <1>3, <1>5, <1>6 DEF Fits, Busy, Ways

-----------------------------------------------------------------------------
(* The collector.                                                          *)

LEMMA StartCollectionFits ==
  ASSUME Typed, Fits, StartCollection
  PROVE  Typed' /\ Fits'
<1> DEFINE i == Idle
           x == [i EXCEPT !.todo = <<"scan">>, !.fn = "gc"]
<1>1. /\ task' = [task EXCEPT ![Collector] = x] /\ stock' = stock /\ ids' = ids
      /\ gc' = [expected |-> {c \in Records : Present(c)}, kinds |-> Collected, doomed |-> {}]
      /\ cr' = cr /\ registry' = registry /\ plan' = plan /\ events' = events /\ imports' = imports
  BY DEF StartCollection, KeepCloud, records
<1>2. i \in Thread /\ i.id = 0 /\ i.blob = EmptyBlob /\ i.whole = NoRegistry
  BY IdleIsThread DEF Idle
<1>3. <<"scan">> \in Seq(Steps) /\ <<"scan">> \in Seq(GcSteps) /\ <<"scan">> # <<>>
  BY DEF Steps, GcSteps
<1> HIDE DEF i
<1>4. x \in Thread /\ x.id = 0 /\ x.blob = EmptyBlob /\ x.whole = NoRegistry /\ x.todo = <<"scan">> /\ x.fn = "gc"
  BY <1>2, <1>3 DEF Thread
<1> HIDE DEF x
<1>5. gc'.kinds \in Seq(Kinds) /\ gc'.kinds # <<>> /\ gc'.doomed = {} /\ gc'.expected = {c \in Records : Present(c)}
  BY <1>1 DEF Collected, Kinds
<1>6. CollectorFits(plan, x, gc', stock, ids)
  BY <1>3, <1>4, <1>5, EmptyFits DEF CollectorFits
<1>7. \A d \in Records \ gc'.expected : ~cr[d].held
  BY <1>5, RowsTyped DEF Present, RecordFits
<1>8. gc' \in Listed
  BY <1>1, <1>5 DEF Listed
<1>9. /\ Stocked(stock', ids') /\ Grown(stock, ids, stock', ids')
      /\ registry' \in Registry /\ RegistryFits(plan, registry', stock', ids') /\ events' \in Nat
  BY <1>1, SameGrown DEF Typed, Fits
<1>10. CollectorFits(plan, x, gc', stock', ids')
  BY <1>1, <1>6
<1> QED
  BY <1>1, <1>7, <1>8, <1>9, <1>10, CollectorMoves

LEMMA CollectorIs ==
  ASSUME Typed, Fits, Busy(Collector)
  PROVE  /\ task[Collector] \in Thread /\ task[Collector].todo # <<>>
         /\ task[Collector].todo \in Seq(GcSteps) /\ task[Collector].fn = "gc"
         /\ Head(task[Collector].todo) \in GcSteps /\ Tail(task[Collector].todo) \in Seq(GcSteps)
         /\ CollectorFits(plan, task[Collector], gc, stock, ids)
         /\ \A d \in Records \ gc.expected : ~cr[d].held
         /\ Collector \in Threads
         /\ gc.kinds \in Seq(Kinds) /\ gc.kinds # <<>>
         /\ Seq(GcSteps) \subseteq Seq(Steps)
<1>1. task[Collector].todo # <<>> /\ CollectorFits(plan, task[Collector], gc, stock, ids) /\ Collector \in Threads
  BY ThreadsAre DEF Fits, Busy
<1>2. task[Collector].todo \in Seq(GcSteps) /\ task[Collector].fn = "gc" /\ task[Collector] \in Thread
      /\ gc.kinds \in Seq(Kinds) /\ gc.kinds # <<>>
  BY <1>1 DEF CollectorFits
<1>3. GcSteps \subseteq Steps
  BY DEF GcSteps, Steps
<1> QED
  BY <1>1, <1>2, <1>3, HeadTail DEF Fits

\* The collector takes a step that touches neither records nor what it listed.
LEMMA CollectorGoes ==
  ASSUME Typed, Fits, Busy(Collector), NEW x,
         task' = [task EXCEPT ![Collector] = x],
         Stocked(stock', ids), Grown(stock, ids, stock', ids), ids' = ids,
         registry' \in Registry, RegistryFits(plan, registry', stock', ids),
         cr' = cr, plan' = plan, gc' = gc, imports' = imports, events' \in Nat,
         x \in Thread, x.fn = "gc", x.todo \in Seq(GcSteps), x.id = task[Collector].id,
         x.kind = task[Collector].kind, x.spec = task[Collector].spec,
         BlobFits(plan, x.blob, x.kind, stock, ids), RegistryFits(plan, x.whole, stock, ids)
  PROVE  Typed' /\ Fits'
<1>1. CollectorFits(plan, x, gc, stock, ids)
  BY CollectorIs DEF CollectorFits
<1>2. CollectorFits(plan, x, gc', stock', ids')
  BY <1>1, SameGrown, CollectorGrown
<1>3. gc' \in Listed
  BY DEF Typed
<1>4. \A d \in Records \ gc'.expected : ~cr[d].held
  BY CollectorIs
<1> QED
  BY <1>2, <1>3, <1>4, CollectorMoves

LEMMA ScanFits ==
  ASSUME Typed, Fits, Scan
  PROVE  Typed' /\ Fits'
<1> DEFINE th == task[Collector]
           x == [th EXCEPT !.todo = <<"next">>]
           k == Head(gc.kinds)
           D == Orphans(k, gc.expected)
<1>1. Busy(Collector)
  BY DEF Scan, At
<1>2. /\ th \in Thread /\ th.todo # <<>> /\ CollectorFits(plan, th, gc, stock, ids) /\ th.fn = "gc"
      /\ gc.kinds \in Seq(Kinds) /\ gc.kinds # <<>> /\ \A d \in Records \ gc.expected : ~cr[d].held
  BY <1>1, CollectorIs
<1>3. k \in Kinds
  BY <1>2, HeadTail
<1>4. /\ gc' = [gc EXCEPT !.doomed = D] /\ task' = [task EXCEPT ![Collector] = x]
      /\ stock' = stock /\ ids' = ids
      /\ cr' = cr /\ registry' = registry /\ plan' = plan /\ events' = events /\ imports' = imports
  BY DEF Scan, KeepCloud, records, Typed
<1>5. <<"next">> \in Seq(Steps) /\ <<"next">> \in Seq(GcSteps)
  BY DEF Steps, GcSteps
<1>6. /\ x \in Thread /\ x.todo = <<"next">> /\ x.fn = "gc" /\ x.id = th.id /\ x.kind = th.kind
      /\ x.spec = th.spec /\ x.blob = th.blob /\ x.whole = th.whole
  BY <1>2, <1>5 DEF Thread
<1> HIDE DEF x
<1>7. ASSUME NEW o \in D
      PROVE  /\ o \in [name : Names, id : 0..MaxIds]
             /\ Strange(plan, k, o.id, gc.expected, stock, ids)
  <2>1. PICK m \in Names : /\ registry[k][m] # NoEntry /\ registry[k][m].cr \notin gc.expected
                           /\ o = [name |-> m, id |-> registry[k][m].id]
    BY DEF Orphans
  <2>2. EntryFits(plan, registry[k][m], k, stock, ids)
    BY <1>3 DEF Fits, RegistryFits, BlobFits
  <2>3. registry[k][m].cr \in Records /\ plan.kinds[registry[k][m].cr] = k
        /\ Named(registry[k][m].id, k, Mine(plan, registry[k][m].cr), stock, ids)
    BY <2>1, <2>2 DEF EntryFits
  <2>4. registry[k][m].id \in 0..MaxIds
    BY <1>3 DEF Typed, Registry
  <2>5. o \in [name : Names, id : 0..MaxIds] /\ o.name = m /\ o.id = registry[k][m].id
    BY <2>1, <2>4
  <2> QED
    BY <2>1, <2>3, <2>5 DEF Strange
<1> HIDE DEF D
<1>8. gc' \in Listed /\ gc'.expected = gc.expected /\ gc'.kinds = gc.kinds /\ gc'.doomed = D
  BY <1>4, <1>7 DEF Typed, Listed
<1>9. CollectorFits(plan, x, gc', stock, ids)
  BY <1>2, <1>5, <1>6, <1>7, <1>8 DEF CollectorFits
<1>10. /\ Stocked(stock', ids') /\ Grown(stock, ids, stock', ids')
       /\ registry' \in Registry /\ RegistryFits(plan, registry', stock', ids') /\ events' \in Nat
  BY <1>4, SameGrown DEF Typed, Fits
<1>11. CollectorFits(plan, x, gc', stock', ids')
  BY <1>4, <1>9
<1>12. \A d \in Records \ gc'.expected : ~cr[d].held
  BY <1>2, <1>8
<1> QED
  BY <1>4, <1>8, <1>10, <1>11, <1>12, CollectorMoves

LEMMA LongTail ==
  ASSUME NEW Q, NEW s \in Seq(Q), s # <<>>, Len(s) # 1
  PROVE  Tail(s) # <<>>
<1>1. PICK k \in Nat : k = Len(s)
  OBVIOUS
<1>2. k # 1 /\ k # 0
  BY <1>1
<1>3. Tail(s) \in Seq(Q) /\ Len(Tail(s)) = k - 1
  BY <1>1, HeadTailProperties
<1>4. PICK u \in Seq(Q) : u = Tail(s)
  BY <1>3
<1>5. Len(u) # 0
  BY <1>2, <1>3, <1>4
<1>6. u # <<>>
  BY <1>5, EmptySeq
<1> QED
  BY <1>4, <1>6

LEMMA NextOrphanFits ==
  ASSUME Typed, Fits, NextOrphan
  PROVE  Typed' /\ Fits'
<1> DEFINE th == task[Collector]
           k == Head(gc.kinds)
<1>1. Busy(Collector)
  BY DEF NextOrphan, At
<1>2. /\ th \in Thread /\ th.todo # <<>> /\ CollectorFits(plan, th, gc, stock, ids) /\ th.fn = "gc"
      /\ gc.kinds \in Seq(Kinds) /\ gc.kinds # <<>> /\ \A d \in Records \ gc.expected : ~cr[d].held
  BY <1>1, CollectorIs
<1>3. k \in Kinds /\ Tail(gc.kinds) \in Seq(Kinds)
  BY <1>2, HeadTail
<1>4. /\ stock' = stock /\ ids' = ids
      /\ cr' = cr /\ registry' = registry /\ plan' = plan /\ events' = events /\ imports' = imports
  BY DEF NextOrphan, KeepCloud, records
<1>5. /\ Stocked(stock', ids') /\ Grown(stock, ids, stock', ids')
      /\ registry' \in Registry /\ RegistryFits(plan, registry', stock', ids') /\ events' \in Nat
  BY <1>4, SameGrown DEF Typed, Fits
<1>6. ASSUME NEW x, task' = [task EXCEPT ![Collector] = x], gc' \in Listed,
             CollectorFits(plan, x, gc', stock, ids),
             gc'.expected = gc.expected \/ x.todo = <<>>
      PROVE  Typed' /\ Fits'
  <2>1. CollectorFits(plan, x, gc', stock', ids')
    BY <1>4, <1>6
  <2>2. x.todo # <<>> => \A d \in Records \ gc'.expected : ~cr[d].held
    BY <1>2, <1>6
  <2> QED
    BY <1>4, <1>5, <1>6, <2>1, <2>2, CollectorMoves
<1>7. CASE gc.doomed = {} /\ Len(gc.kinds) = 1
  <2>1. gc' = NoGc /\ task' = [task EXCEPT ![Collector] = Idle]
    BY <1>7 DEF NextOrphan
  <2>2. gc' \in Listed
    BY <2>1 DEF NoGc, Listed
  <2> QED
    BY <1>6, <2>1, <2>2, IdleFits, IdleIsThread
<1>8. CASE gc.doomed = {} /\ Len(gc.kinds) # 1
  <2> DEFINE x == [th EXCEPT !.todo = <<"scan">>]
  <2>1. gc' = [gc EXCEPT !.kinds = Tail(gc.kinds)] /\ task' = [task EXCEPT ![Collector] = x]
    BY <1>8 DEF NextOrphan, Typed
  <2>2. <<"scan">> \in Seq(Steps) /\ <<"scan">> \in Seq(GcSteps)
    BY DEF Steps, GcSteps
  <2>3. /\ x \in Thread /\ x.todo = <<"scan">> /\ x.fn = "gc" /\ x.id = th.id /\ x.kind = th.kind
        /\ x.spec = th.spec /\ x.blob = th.blob /\ x.whole = th.whole
    BY <1>2, <2>2 DEF Thread
  <2> HIDE DEF x
  <2>4. Tail(gc.kinds) # <<>>
    BY <1>2, <1>8, LongTail
  <2>5. gc' \in Listed /\ gc'.expected = gc.expected /\ gc'.kinds = Tail(gc.kinds) /\ gc'.doomed = {}
    BY <1>3, <1>8, <2>1 DEF Typed, Listed
  <2>6. CollectorFits(plan, x, gc', stock, ids)
    BY <1>2, <1>3, <2>2, <2>3, <2>4, <2>5 DEF CollectorFits
  <2> QED
    BY <1>6, <2>1, <2>5, <2>6
<1>9. CASE gc.doomed # {}
  <2>1. PICK o \in gc.doomed :
          /\ gc' = [gc EXCEPT !.doomed = gc.doomed \ {o}]
          /\ task' = [task EXCEPT ![Collector] =
               [Idle EXCEPT !.fn = "gc", !.kind = k, !.spec = [name |-> o.name],
                            !.id = o.id, !.todo = <<"erase">> \o Unregister \o <<"next">>]]
    BY <1>9 DEF NextOrphan, Typed
  <2> DEFINE i == Idle
             sp == [name |-> o.name]
             oid == o.id
             todo == <<"erase">> \o Unregister \o <<"next">>
             x == [i EXCEPT !.fn = "gc", !.kind = k, !.spec = sp, !.id = oid, !.todo = todo]
  <2>2. i \in Thread /\ i.blob = EmptyBlob /\ i.whole = NoRegistry
    BY IdleIsThread DEF Idle
  <2>3. o.name \in Names /\ oid \in 0..MaxIds
    BY DEF Typed, Listed
  <2>4. sp \in [name : Names \cup {"none"}] /\ sp.name = o.name
    BY <2>3
  <2>5. todo \in Seq(GcSteps) /\ todo \in Seq(Steps)
    <3>1. <<"erase">> \in Seq(GcSteps) /\ Unregister \in Seq(GcSteps) /\ <<"next">> \in Seq(GcSteps)
      BY DEF GcSteps, Unregister
    <3>2. todo \in Seq(GcSteps)
      BY <3>1, Joined
    <3> HIDE DEF todo
    <3> QED
      BY <1>1, <3>2, CollectorIs
  <2>6. task' = [task EXCEPT ![Collector] = x]
    BY <2>1
  <2>7. Strange(plan, k, oid, gc.expected, stock, ids)
    BY <1>2 DEF CollectorFits
  <2> HIDE DEF i, sp, oid, todo
  <2>8. /\ x \in Thread /\ x.todo = todo /\ x.fn = "gc" /\ x.id = oid /\ x.kind = k
        /\ x.spec = sp /\ x.blob = i.blob /\ x.whole = i.whole
    BY <1>3, <2>2, <2>3, <2>4, <2>5 DEF Thread
  <2> HIDE DEF x
  <2>9. gc' \in Listed /\ gc'.expected = gc.expected /\ gc'.kinds = gc.kinds /\ gc'.doomed = gc.doomed \ {o}
    BY <2>1 DEF Typed, Listed
  <2>10. CollectorFits(plan, x, gc', stock, ids)
    <3>1. BlobFits(plan, x.blob, x.kind, stock, ids) /\ RegistryFits(plan, x.whole, stock, ids)
      BY <2>2, <2>8, EmptyFits
    <3>2. \A u \in gc'.doomed : Strange(plan, Head(gc'.kinds), u.id, gc'.expected, stock, ids)
      BY <1>2, <2>9 DEF CollectorFits
    <3> QED
      BY <1>2, <2>4, <2>5, <2>7, <2>8, <2>9, <3>1, <3>2 DEF CollectorFits
  <2> QED
    BY <1>6, <2>6, <2>9, <2>10
<1> QED
  BY <1>7, <1>8, <1>9

\* The steps of the collector that handlers take too.
LEMMA CollectorStepFits ==
  ASSUME Typed, Fits, Step(Collector)
  PROVE  Typed' /\ Fits'
<1> DEFINE t == Collector
           th == task[t]
<1>1. Busy(t)
  BY DEF Step, Find, Make, Settings, Compare, Erase, ReadBlob, ReadWhole, Enlist, Delist, Look, Poll, Drop, At
<1>2. /\ th \in Thread /\ th.todo # <<>> /\ th.todo \in Seq(GcSteps) /\ th.fn = "gc"
      /\ Head(th.todo) \in GcSteps /\ Tail(th.todo) \in Seq(GcSteps)
      /\ CollectorFits(plan, th, gc, stock, ids)
      /\ t \in Threads /\ Seq(GcSteps) \subseteq Seq(Steps)
  BY <1>1, CollectorIs
<1>3. /\ th.blob \in [Names -> [id : 0..MaxIds, cr : Records \cup {0}]] /\ th.whole \in Registry /\ th.kind \in Kinds
      /\ BlobFits(plan, th.blob, th.kind, stock, ids) /\ RegistryFits(plan, th.whole, stock, ids)
  BY <1>2 DEF CollectorFits, Thread
<1>4. registry \in Registry /\ RegistryFits(plan, registry, stock, ids)
  BY DEF Typed, Fits
<1>5. ids \in Nat /\ Stocked(stock, ids) /\ Grown(stock, ids, stock, ids)
  BY SameGrown
<1>6. Erase(t) \/ ReadBlob(t) \/ ReadWhole(t) \/ Delist(t)
  BY <1>2 DEF Step, Find, Make, Settings, Compare, Enlist, Look, Poll, Drop, At, GcSteps
<1>8. CASE Erase(t)
  <2> DEFINE gone == Target(th)
             y == [th EXCEPT !.todo = Tail(th.todo), !.blob = th.blob, !.whole = th.whole]
             z == [th EXCEPT !.todo = <<"next">>, !.blob = th.blob, !.whole = th.whole]
  <2>1. KeepRecords /\ gc' = gc /\ ids' = ids /\ events' \in Nat /\ Head(th.todo) = "erase"
    BY <1>8 DEF Erase, Typed, Fault, Event, At
  <2>2. CASE stock' = stock \ gone /\ Next1(t)
    <3>1. task' = [task EXCEPT ![t] = y]
      BY <1>2, <2>2 DEF Next1, Rest, Typed, Thread
    <3>2. Stocked(stock', ids) /\ Grown(stock, ids, stock', ids)
      BY <1>5, <2>2, FewerGrown
    <3>3. /\ y \in Thread /\ y.fn = "gc" /\ y.todo = Tail(th.todo) /\ y.blob = th.blob /\ y.whole = th.whole
          /\ y.id = th.id /\ y.kind = th.kind /\ y.spec = th.spec
      BY <1>2, <1>3 DEF Thread
    <3>4. RegistryFits(plan, registry, stock', ids)
      BY <1>4, <1>5, <3>2, RegistryGrown
    <3> HIDE DEF y
    <3>5. BlobFits(plan, y.blob, y.kind, stock, ids) /\ RegistryFits(plan, y.whole, stock, ids)
          /\ y.todo \in Seq(GcSteps)
      BY <1>2, <1>3, <3>3
    <3>6. /\ registry' \in Registry /\ RegistryFits(plan, registry', stock', ids)
          /\ cr' = cr /\ plan' = plan /\ imports' = imports
      BY <1>4, <2>1, <3>4 DEF KeepRecords
    <3> QED
      BY <1>1, <2>1, <3>1, <3>2, <3>3, <3>5, <3>6, CollectorGoes
  <2>3. CASE /\ stock' = {IF r \in gone THEN HalfDeleted(r) ELSE r : r \in stock}
             /\ task' = [task EXCEPT ![t] = Failed(t, @)]
    <3>0. Failed(t, th) = [th EXCEPT !.todo = <<"next">>]
      BY <1>2, <2>1 DEF Failed
    <3>1. task' = [task EXCEPT ![t] = z]
      BY <1>2, <2>3, <3>0 DEF Typed, Thread
    <3>2. Stocked(stock', ids) /\ Grown(stock, ids, stock', ids)
      BY <1>5, <2>3, HalfDeletedInPlace
    <3>9. <<"next">> \in Seq(GcSteps)
      BY DEF GcSteps
    <3>3. /\ z \in Thread /\ z.fn = "gc" /\ z.todo = <<"next">> /\ z.blob = th.blob /\ z.whole = th.whole
          /\ z.id = th.id /\ z.kind = th.kind /\ z.spec = th.spec
      BY <1>2, <1>3, <3>9 DEF Thread
    <3>4. RegistryFits(plan, registry, stock', ids)
      BY <1>4, <1>5, <3>2, RegistryGrown
    <3> HIDE DEF z
    <3>5. BlobFits(plan, z.blob, z.kind, stock, ids) /\ RegistryFits(plan, z.whole, stock, ids)
          /\ z.todo \in Seq(GcSteps)
      BY <1>2, <1>3, <3>3, <3>9
    <3>6. /\ registry' \in Registry /\ RegistryFits(plan, registry', stock', ids)
          /\ cr' = cr /\ plan' = plan /\ imports' = imports
      BY <1>4, <2>1, <3>4 DEF KeepRecords
    <3> QED
      BY <1>1, <2>1, <3>1, <3>2, <3>3, <3>5, <3>6, CollectorGoes
  <2> QED
    BY <1>8, <2>2, <2>3 DEF Erase
<1>9. ASSUME NEW b, NEW g, NEW td, b \in [Names -> [id : 0..MaxIds, cr : Records \cup {0}]], g \in Registry,
             td \in Seq(GcSteps), BlobFits(plan, b, th.kind, stock, ids), RegistryFits(plan, g, stock, ids),
             task' = [task EXCEPT ![t] = [th EXCEPT !.todo = td, !.blob = b, !.whole = g]],
             stock' = stock, ids' = ids, cr' = cr, plan' = plan, imports' = imports, events' = events, gc' = gc,
             registry' \in Registry, RegistryFits(plan, registry', stock, ids)
      PROVE  Typed' /\ Fits'
  <2> DEFINE x == [th EXCEPT !.todo = td, !.blob = b, !.whole = g]
  <2>1. /\ x \in Thread /\ x.fn = "gc" /\ x.todo = td /\ x.blob = b /\ x.whole = g
        /\ x.id = th.id /\ x.kind = th.kind /\ x.spec = th.spec
    BY <1>2, <1>9 DEF Thread
  <2>2. task' = [task EXCEPT ![t] = x]
    BY <1>9
  <2> HIDE DEF x
  <2>3. Stocked(stock', ids) /\ Grown(stock, ids, stock', ids) /\ RegistryFits(plan, registry', stock', ids)
        /\ events' \in Nat
    BY <1>5, <1>9 DEF Typed
  <2>4. BlobFits(plan, x.blob, x.kind, stock, ids) /\ RegistryFits(plan, x.whole, stock, ids) /\ x.todo \in Seq(GcSteps)
    BY <1>9, <2>1
  <2> QED
    BY <1>1, <1>9, <2>1, <2>2, <2>3, <2>4, CollectorGoes
<1>10. CASE ReadBlob(t)
  <2> DEFINE blob == registry[th.kind]
             absent == th.todo[3] = "delist" /\ blob[th.spec.name] = NoEntry
             b == IF absent THEN EmptyBlob ELSE blob
             td == IF absent THEN SubSeq(th.todo, 4, Len(th.todo)) ELSE Tail(th.todo)
  <2>1. /\ stock' = stock /\ ids' = ids /\ cr' = cr /\ plan' = plan /\ imports' = imports
        /\ events' = events /\ gc' = gc /\ registry' = registry
    BY <1>10 DEF ReadBlob, KeepCloud, KeepRecords
  <2>2. task' = [task EXCEPT ![t].blob = b, ![t].todo = td]
    BY <1>10 DEF ReadBlob
  <2>3. b \in [Names -> [id : 0..MaxIds, cr : Records \cup {0}]] /\ BlobFits(plan, b, th.kind, stock, ids)
    BY <1>3, <1>4, EmptyFits DEF Registry, RegistryFits
  <2>4. td \in Seq(GcSteps)
    BY <1>2, Skipped
  <2> HIDE DEF b, td
  <2>5. task' = [task EXCEPT ![t] = [th EXCEPT !.todo = td, !.blob = b, !.whole = th.whole]]
    BY <1>2, <2>2 DEF Typed, Thread
  <2> QED
    BY <1>3, <1>4, <1>9, <2>1, <2>3, <2>4, <2>5
<1>11. CASE ReadWhole(t)
  <2>1. /\ stock' = stock /\ ids' = ids /\ cr' = cr /\ plan' = plan /\ imports' = imports
        /\ events' = events /\ gc' = gc /\ registry' = registry
    BY <1>11 DEF ReadWhole, KeepCloud, KeepRecords
  <2>2. task' = [task EXCEPT ![t] = [th EXCEPT !.todo = Tail(th.todo), !.blob = th.blob, !.whole = registry]]
    BY <1>2, <1>11 DEF ReadWhole, Rest, Typed, Thread
  <2> QED
    BY <1>2, <1>3, <1>4, <1>9, <2>1, <2>2
<1>12. CASE Delist(t)
  <2>1. /\ stock' = stock /\ ids' = ids /\ cr' = cr /\ plan' = plan /\ imports' = imports
        /\ events' = events /\ gc' = gc
    BY <1>12 DEF Delist, Store, KeepCloud
  <2>2. task' = [task EXCEPT ![t] = [th EXCEPT !.todo = Tail(th.todo), !.blob = EmptyBlob, !.whole = NoRegistry]]
    BY <1>2, <1>12 DEF Delist, Store, Rest, Typed, Thread
  <2>3. registry' = [th.whole EXCEPT ![th.kind] = [th.blob EXCEPT ![th.spec.name] = NoEntry]]
    BY <1>12 DEF Delist, Store
  <2>4. NoEntry \in [id : 0..MaxIds, cr : Records \cup {0}]
    BY ClusterCloudAssumption DEF NoEntry
  <2>5. registry' \in Registry /\ RegistryFits(plan, registry', stock, ids)
    <3>1. CASE th.spec.name \in Names
      <4>1. EntryFits(plan, NoEntry, th.kind, stock, ids)
        BY DEF EntryFits
      <4> QED
        BY <1>3, <2>3, <2>4, <3>1, <4>1, StoredFits
    <3>2. CASE th.spec.name \notin Names
      <4>1. [th.blob EXCEPT ![th.spec.name] = NoEntry] = th.blob
        BY <1>3, <3>2
      <4>2. [th.whole EXCEPT ![th.kind] = th.blob] \in Registry
        BY <1>3 DEF Registry
      <4>3. RegistryFits(plan, [th.whole EXCEPT ![th.kind] = th.blob], stock, ids)
        BY <1>3 DEF RegistryFits, Registry
      <4> QED
        BY <2>3, <4>1, <4>2, <4>3
    <3> QED
      BY <3>1, <3>2
  <2> QED
    BY <1>2, <1>3, <1>4, <1>9, <2>1, <2>2, <2>5, EmptyFits
<1> QED
  BY <1>6, <1>8, <1>10, <1>11, <1>12

LEMMA CollectorFailFits ==
  ASSUME Typed, Fits, Fail(Collector)
  PROVE  Typed' /\ Fits'
<1> DEFINE th == task[Collector]
           td == IF Head(th.todo) = "scan" THEN <<>> ELSE <<"next">>
           x == [th EXCEPT !.todo = td]
<1>1. Busy(Collector)
  BY DEF Fail
<1>2. /\ th \in Thread /\ th.fn = "gc" /\ Collector \in Threads /\ Seq(GcSteps) \subseteq Seq(Steps)
      /\ CollectorFits(plan, th, gc, stock, ids)
  BY <1>1, CollectorIs
<1>3. Failed(Collector, th) = x
  BY <1>2 DEF Failed
<1>4. td \in Seq(GcSteps)
  <2>1. <<"next">> \in Seq(GcSteps) /\ <<>> \in Seq(GcSteps)
    BY DEF GcSteps
  <2> QED
    BY <2>1
<1>5. /\ task' = [task EXCEPT ![Collector] = x] /\ stock' = stock /\ ids' = ids /\ cr' = cr /\ plan' = plan
      /\ imports' = imports /\ gc' = gc /\ registry' = registry /\ events' \in Nat
  BY <1>3 DEF Fail, KeepCloud, KeepRecords, Typed, Fault, Event
<1> HIDE DEF td
<1>6. /\ x \in Thread /\ x.fn = "gc" /\ x.todo = td /\ x.blob = th.blob /\ x.whole = th.whole
      /\ x.id = th.id /\ x.kind = th.kind /\ x.spec = th.spec
  BY <1>2, <1>4 DEF Thread
<1> HIDE DEF x
<1>7. BlobFits(plan, x.blob, x.kind, stock, ids) /\ RegistryFits(plan, x.whole, stock, ids)
  BY <1>2, <1>6 DEF CollectorFits
<1>8. /\ Stocked(stock', ids) /\ Grown(stock, ids, stock', ids)
      /\ registry' \in Registry /\ RegistryFits(plan, registry', stock', ids)
  BY <1>5, SameGrown DEF Typed, Fits
<1> QED
  BY <1>1, <1>4, <1>5, <1>6, <1>7, <1>8, CollectorGoes

-----------------------------------------------------------------------------
(* Every step.                                                             *)

LEMMA ThreadStepFits ==
  ASSUME Typed, Fits, NEW c \in Records, NEW w \in Ways, Step(<<c, w>>)
  PROVE  Typed' /\ Fits'
BY FindFits, MakeFits, SettingsFits, CompareFits, EraseFits, ReadBlobFits, ReadWholeFits, EnlistFits,
   DelistFits, LookFits, PollStepFits, DropFits DEF Step

LEMMA StepFits ==
  ASSUME Typed, Fits, [Next]_vars
  PROVE  Typed' /\ Fits'
<1>1. CASE Users /\ UNCHANGED <<task, gc>>
  BY <1>1, CreateRecordFits, EditRecordFits, DeleteRecordFits, UploadImageFits DEF Users
<1>2. CASE (LoseResource \/ ImportGoesOn) /\ UNCHANGED <<task, gc>>
  BY <1>2, LoseResourceFits, ImportGoesOnFits
<1>3. CASE \E c \in Records : ImportAges(c) /\ UNCHANGED <<task, gc>>
  BY <1>3, ImportAgesFits
<1>4. ASSUME NEW c \in Records, Handler(c) \/ Timer(c) \/ Poller(c)
      PROVE  Typed' /\ Fits'
  <2>1. CASE Handler(c)
    BY <2>1, StartChangeFits, ThreadStepFits, PatchChangeFits, ReleaseRecordFits DEF Handler, Ways
  <2>2. CASE Timer(c)
    BY <2>2, StartTimerFits, ThreadStepFits, PatchTimerFits DEF Timer, Ways
  <2>3. CASE Poller(c)
    BY <2>3, StartPollFits, ThreadStepFits, PatchTimerFits DEF Poller, Ways
  <2> QED
    BY <1>4, <2>1, <2>2, <2>3
<1>5. CASE Collection
  BY <1>5, StartCollectionFits, ScanFits, NextOrphanFits, CollectorStepFits DEF Collection
<1>6. ASSUME NEW t \in Threads, Fail(t)
      PROVE  Typed' /\ Fits'
  <2>1. CASE t = Collector
    BY <1>6, <2>1, CollectorFailFits
  <2>2. CASE t # Collector
    <3>1. PICK c \in Records, w \in Ways : t = <<c, w>>
      BY <2>2 DEF Threads, Ways
    <3> QED
      BY <1>6, <3>1, FailFits
  <2> QED
    BY <2>1, <2>2
<1>7. CASE Crash
  BY <1>7, CrashFits
<1>8. CASE UNCHANGED vars
  <2>1. /\ stock' = stock /\ ids' = ids /\ cr' = cr /\ registry' = registry /\ plan' = plan
        /\ events' = events /\ imports' = imports /\ task' = task /\ gc' = gc
    BY <1>8 DEF vars, records
  <2> QED
    BY <2>1, SameGrown, StockMoves DEF Typed
<1> QED
  BY <1>1, <1>2, <1>3, <1>4, <1>5, <1>6, <1>7, <1>8 DEF Next

-----------------------------------------------------------------------------
(* What the images that may yet be made depend on.                         *)

Sound(r, q) == r.tries \in 0..2 /\ (Stage(q) # "idle" => q.put.tries \in -1..2)

LEMMA OneIs ==
  ASSUME NEW b
  PROVE  One(b) \in 0..1 /\ (b => One(b) = 1) /\ (~b => One(b) = 0)
BY DEF One

LEMMA OneLess ==
  ASSUME NEW a, NEW b, a => b
  PROVE  One(a) <= One(b)
BY DEF One

LEMMA LeftIs ==
  ASSUME NEW r, NEW q, Sound(r, q)
  PROVE  /\ Left(r, q) \in 0..2
         /\ Stage(q) = "idle" => Left(r, q) = 2 - r.tries
BY DEF Left, Tried, Sound

LEMMA RetriesAre ==
  ASSUME NEW r, NEW g, NEW m, NEW q, Sound(r, q)
  PROVE  /\ Retries(r, g, m, q) \in Int
         /\ r.spec.external => Retries(r, g, m, q) \in 1..4
         /\ ~r.spec.external => Retries(r, g, m, q) \in 0..2
BY LeftIs, OneIs DEF Retries

LEMMA ChangeIs ==
  ASSUME NEW r, NEW g
  PROVE  Change(r, g) \in 0..8 /\ ChangeCost(g) \in 3..4
BY DEF Change, ChangeCost

LEMMA AheadIs ==
  ASSUME NEW r, NEW g, NEW m, NEW q, NEW X, NEW A, Sound(r, q)
  PROVE  /\ Ahead(r, g, m, q, X, A) \in Nat
         /\ r.at # "live" => Ahead(r, g, m, q, X, A) \in 0..2
BY RetriesAre, ChangeIs, OneIs DEF Ahead

\* No image more is to be made when there are more images.
LEMMA AheadMonotone ==
  ASSUME NEW r, NEW g, NEW m, NEW q, NEW X, NEW A, NEW X2, NEW A2, Sound(r, q),
         X \subseteq X2, A \subseteq A2
  PROVE  Ahead(r, g, m, q, X2, A2) <= Ahead(r, g, m, q, X, A)
<1>1. Spared(X, q) \subseteq Spared(X2, q) /\ Spared(A, q) \subseteq Spared(A2, q)
  BY DEF Spared
<1>2. Owed(q, A2) => Owed(q, A)
  BY <1>1 DEF Owed
<1>3. Covered(r, m, q, X, A) => Covered(r, m, q, X2, A2)
  BY <1>1 DEF Covered, Lull, Bringing
<1>4. One(Owed(q, A2)) <= One(Owed(q, A))
  BY <1>2, OneLess
<1>5. One(Bare(r, m, q, X2, A2)) <= One(Bare(r, m, q, X, A))
  BY <1>3, OneLess DEF Bare
<1> QED
  BY <1>4, <1>5, RetriesAre, ChangeIs, OneIs DEF Ahead

\* Images do not matter to a record that is gone or at rest.
LEMMA AheadAlone ==
  ASSUME NEW r, NEW g, NEW m, NEW q, NEW X, NEW A, NEW X2, NEW A2, Sound(r, q),
         r.at # "live" \/ Dormant(r, m, q)
  PROVE  Ahead(r, g, m, q, X2, A2) <= Ahead(r, g, m, q, X, A)
<1>1. CASE r.at # "live"
  BY <1>1, OneIs DEF Ahead
<1>2. CASE Dormant(r, m, q)
  <2>1. ~Owed(q, A2)
    BY <1>2 DEF Owed, Dormant
  <2>2. ~Bare(r, m, q, X2, A2)
    BY <1>2 DEF Bare, Covered, Dormant, Makes
  <2>3. One(Owed(q, A2)) <= One(Owed(q, A)) /\ One(Bare(r, m, q, X2, A2)) <= One(Bare(r, m, q, X, A))
    BY <2>1, <2>2, OneIs
  <2> QED
    BY <2>3, RetriesAre, ChangeIs, OneIs DEF Ahead
<1> QED
  BY <1>1, <1>2

\* Whatever becomes of the images and the timers, it costs four images at most.
LEMMA AheadFour ==
  ASSUME NEW r, NEW g, NEW m, NEW q, NEW X, NEW A, NEW m2, NEW q2, NEW X2, NEW A2,
         Sound(r, q), Sound(r, q2)
  PROVE  Ahead(r, g, m2, q2, X2, A2) <= Ahead(r, g, m, q, X, A) + 4
<1>1. CASE r.at # "live"
  BY <1>1, OneIs DEF Ahead
<1>2. CASE r.spec.external /\ r.at = "live"
  <2>1. ~Bare(r, m, q, X, A) /\ ~Bare(r, m2, q2, X2, A2)
    BY <1>2 DEF Bare
  <2>2. One(Bare(r, m, q, X, A)) = 0 /\ One(Bare(r, m2, q2, X2, A2)) = 0
    BY <2>1, OneIs
  <2>3. Retries(r, g, m, q) \in 1..4 /\ Retries(r, g, m2, q2) \in 1..4
    BY <1>2, RetriesAre
  <2> QED
    BY <1>2, <2>2, <2>3, ChangeIs, OneIs DEF Ahead
<1>3. CASE ~r.spec.external /\ r.at = "live"
  <2>1. Retries(r, g, m, q) \in 0..2 /\ Retries(r, g, m2, q2) \in 0..2
    BY <1>3, RetriesAre
  <2> QED
    BY <1>3, <2>1, ChangeIs, OneIs DEF Ahead
<1> QED
  BY <1>1, <1>2, <1>3

-----------------------------------------------------------------------------
(* What the rows of a record come to when its threads start.               *)

Unmoved(r, r2) ==
  /\ r2.at = r.at /\ r2.spec = r.spec /\ r2.handled = r.handled
  /\ r2.phase = r.phase /\ r2.id = r.id /\ r2.tries = r.tries

LEMMA UnmovedIs ==
  ASSUME NEW r, NEW r2, NEW g, NEW m, NEW q, NEW X, NEW A, Unmoved(r, r2), Sound(r, q)
  PROVE  Sound(r2, q) /\ Ahead(r2, g, m, q, X, A) = Ahead(r, g, m, q, X, A)
<1>1. Sound(r2, q)
  BY DEF Sound, Unmoved
<1>2. Left(r2, q) = Left(r, q)
  BY DEF Left, Tried, Unmoved
<1>3. Dormant(r2, m, q) <=> Dormant(r, m, q)
  BY DEF Dormant, Unmoved
<1>4. Retries(r2, g, m, q) = Retries(r, g, m, q)
  BY <1>2, <1>3 DEF Retries, Unmoved
<1>5. Change(r2, g) = Change(r, g)
  BY DEF Change, Unmoved
<1>6. Bare(r2, m, q, X, A) <=> Bare(r, m, q, X, A)
  BY <1>3 DEF Bare, Covered, Resting, Lull, Bringing, Unmoved
<1>7. One(Bare(r2, m, q, X, A)) = One(Bare(r, m, q, X, A))
  BY <1>6 DEF One
<1> QED
  BY <1>1, <1>4, <1>5, <1>7 DEF Ahead, Unmoved

\* The handler of a change begins.
LEMMA AheadOfChange ==
  ASSUME NEW r, NEW g, NEW g2, NEW m, NEW q, NEW X, NEW A, Sound(r, q),
         Stage(g) = "idle", r.at = "live", r.handled # r.spec, g2.spec = r.spec,
         g2.fn \in {"create", "update"}, Stage(g2) \in {"find", "settings"}
  PROVE  Ahead(r, g2, m, q, X, A) <= Ahead(r, g, m, q, X, A)
<1>1. ~Changes(g) /\ Changes(g2)
  BY DEF Changes
<1>2. ChangeCost(g2) = 4
  BY DEF ChangeCost
<1>3. Change(r, g2) <= Change(r, g)
  BY <1>1, <1>2 DEF Change
<1>4. Retries(r, g2, m, q) = Retries(r, g, m, q)
  BY <1>1 DEF Retries
<1> QED
  BY <1>3, <1>4, ChangeIs, RetriesAre, OneIs DEF Ahead

\* The handler of a deletion begins, or goes on.
LEMMA AheadOfDeletion ==
  ASSUME NEW r, NEW g, NEW g2, NEW m, NEW q, NEW X, NEW A, Sound(r, q),
         r.at # "live", ~Makes(g2)
  PROVE  Ahead(r, g2, m, q, X, A) <= Ahead(r, g, m, q, X, A)
BY OneIs DEF Ahead

\* The timer begins to look.
LEMMA AheadOfLook ==
  ASSUME NEW r, NEW g, NEW m, NEW m2, NEW q, NEW X, NEW A, Sound(r, q),
         Stage(m) = "idle", r.at = "live", r.phase = "Ready", m2.fn = "look"
  PROVE  Ahead(r, g, m2, q, X, A) <= Ahead(r, g, m, q, X, A)
<1>1. ~Makes(m) /\ ~Makes(m2) /\ ~Remakes(m)
  BY DEF Makes, Remakes
<1>2. ~Dormant(r, m, q) /\ ~Dormant(r, m2, q) /\ ~Resting(r, m) /\ ~Lull(r, m, q, X) /\ ~Bringing(r, m, q, X)
  BY <1>1 DEF Dormant, Resting, Lull, Bringing
<1>3. Bare(r, m2, q, X, A) => Bare(r, m, q, X, A)
  BY <1>1, <1>2 DEF Bare, Covered
<1>4. One(Bare(r, m2, q, X, A)) <= One(Bare(r, m, q, X, A)) /\ One(Makes(m2)) = One(Makes(m))
  BY <1>1, <1>3, OneLess, OneIs
<1>5. Retries(r, g, m2, q) = Retries(r, g, m, q)
  BY <1>2, <1>4 DEF Retries
<1> QED
  BY <1>4, <1>5, ChangeIs, RetriesAre, OneIs DEF Ahead

\* The timer begins to make the image again.
LEMMA AheadOfRemaking ==
  ASSUME NEW r, NEW g, NEW m, NEW m2, NEW q, NEW X, NEW A, Sound(r, q),
         Stage(m) = "idle", r.at = "live", r.phase = "Pending",
         m2.fn = "recreate", m2.spec = r.spec, Stage(m2) = "find"
  PROVE  Ahead(r, g, m2, q, X, A) <= Ahead(r, g, m, q, X, A)
<1>1. ~Makes(m) /\ ~Remakes(m) /\ (r.spec.external => ~Makes(m2)) /\ (~r.spec.external => Remakes(m2))
  BY DEF Makes, Remakes
<1>2. ~Dormant(r, m, q) /\ ~Dormant(r, m2, q) /\ ~Resting(r, m) /\ ~Bringing(r, m, q, X)
  BY <1>1 DEF Dormant, Resting, Bringing
<1>3. Lull(r, m, q, X) /\ ~r.spec.external => Lull(r, m2, q, X)
  BY <1>1 DEF Lull
<1>4. Bare(r, m2, q, X, A) => Bare(r, m, q, X, A)
  BY <1>1, <1>2, <1>3 DEF Bare, Covered
<1>5. One(Bare(r, m2, q, X, A)) <= One(Bare(r, m, q, X, A))
  BY <1>4, OneLess
<1>6. r.spec.external => One(Makes(m2)) = One(Makes(m))
  BY <1>1, OneIs
<1>7. Retries(r, g, m2, q) = Retries(r, g, m, q)
  BY <1>2, <1>6 DEF Retries
<1> QED
  BY <1>5, <1>7, ChangeIs, RetriesAre, OneIs DEF Ahead

\* The poll begins.
LEMMA AheadOfPolling ==
  ASSUME NEW r, NEW g, NEW m, NEW q, NEW q2, NEW X, NEW A, Sound(r, q), Sound(r, q2),
         Stage(q) = "idle", r.phase \in {"Provisioning", "Pending"}, r.id # 0,
         Stage(q2) = "look", q2.put = Same, q2.id = r.id
  PROVE  Ahead(r, g, m, q2, X, A) <= Ahead(r, g, m, q, X, A)
<1>1. Left(r, q2) = Left(r, q)
  BY DEF Left, Tried, Sound, Same
<1>2. ~Dormant(r, m, q) /\ ~Dormant(r, m, q2)
  BY DEF Dormant
<1>3. ~Owed(q, A) /\ ~Owed(q2, A)
  BY DEF Owed, Same
<1>4. Spared(A, q) = A /\ Spared(A, q2) = A /\ Spared(X, q) = X /\ Spared(X, q2) = X
  BY DEF Spared
<1>5. ~Ending(q) /\ ~Lull(r, m, q, X)
  BY DEF Ending, Lull
<1>6. Bringing(r, m, q, X) => Bringing(r, m, q2, X)
  BY DEF Bringing
<1>7. Bare(r, m, q2, X, A) => Bare(r, m, q, X, A)
  BY <1>2, <1>4, <1>5, <1>6 DEF Bare, Covered
<1>8. One(Bare(r, m, q2, X, A)) <= One(Bare(r, m, q, X, A)) /\ One(Owed(q2, A)) = One(Owed(q, A))
  BY <1>3, <1>7, OneLess, OneIs
<1>9. Retries(r, g, m, q2) = Retries(r, g, m, q)
  BY <1>1, <1>2 DEF Retries
<1> QED
  BY <1>8, <1>9, ChangeIs, RetriesAre, OneIs DEF Ahead

-----------------------------------------------------------------------------
(* What they come to when a thread writes its patch.                       *)

\* The handler of a change ends well.
LEMMA AheadOfSuccess ==
  ASSUME NEW r, NEW r2, NEW g, NEW g2, NEW m, NEW q, NEW X, NEW A, Sound(r, q), Sound(r2, q),
         r.at = "live", r2.at = "live", r2.spec = r.spec, r2.handled = g.spec,
         Changes(g), Stage(g) = "patch", g.end = "ok", Stage(g2) = "idle",
         g.spec.external => r2.tries = r.tries
  PROVE  Ahead(r2, g2, m, q, X, A) <= Ahead(r, g, m, q, X, A)
<1>1. ChangeCost(g) = 3 /\ ~Changes(g2)
  BY DEF ChangeCost, Changes
<1>2. Left(r, q) \in 0..2 /\ Left(r2, q) \in 0..2 /\ (g.spec.external => Left(r2, q) = Left(r, q))
  BY LeftIs DEF Left, Tried
<1>3. CASE r.spec.external
  <2>1. ~Bare(r2, m, q, X, A) /\ ~Bare(r, m, q, X, A)
    BY <1>3 DEF Bare
  <2>2. One(Bare(r2, m, q, X, A)) = 0 /\ One(Bare(r, m, q, X, A)) = 0
    BY <2>1, OneIs
  <2>3. CASE g.spec.external
    <3>1. Change(r2, g2) <= Change(r, g)
      BY <1>1, <1>3, <2>3 DEF Change
    <3>2. Retries(r2, g2, m, q) = Retries(r, g, m, q)
      BY <1>2, <1>3, <2>3 DEF Retries
    <3> QED
      BY <2>2, <3>1, <3>2, ChangeIs, RetriesAre, OneIs DEF Ahead
  <2>4. CASE ~g.spec.external
    <3>1. Change(r, g) = 4 /\ Change(r2, g2) = 1
      BY <1>1, <1>3, <2>4 DEF Change
    <3>2. Retries(r2, g2, m, q) = Left(r2, q) + 1 + One(Makes(m))
          /\ Retries(r, g, m, q) = Left(r, q) + 1 + One(Makes(m))
      BY <1>3 DEF Retries
    <3> QED
      BY <1>2, <2>2, <3>1, <3>2, OneIs DEF Ahead
  <2> QED
    BY <2>3, <2>4
<1>4. CASE ~r.spec.external
  <2>1. Retries(r2, g2, m, q) \in 0..2 /\ Retries(r2, g2, m, q) <= Left(r2, q) /\ Retries(r, g, m, q) \in 0..2
    BY <1>2, <1>4 DEF Retries
  <2>2. CASE g.spec = r.spec
    <3>1. Change(r, g) = 3 /\ Change(r2, g2) = 0
      BY <1>1, <1>4, <2>2 DEF Change
    <3> QED
      BY <2>1, <3>1, OneIs DEF Ahead
  <2>3. CASE g.spec # r.spec /\ g.spec.external
    <3>1. Change(r, g) = 5 /\ Change(r2, g2) = 4
      BY <1>1, <1>4, <2>3 DEF Change
    <3>2. Retries(r, g, m, q) = Left(r, q)
      BY <1>4, <2>3 DEF Retries
    <3> QED
      BY <1>2, <2>1, <2>3, <3>1, <3>2, OneIs DEF Ahead
  <2>4. CASE g.spec # r.spec /\ ~g.spec.external
    <3>1. Change(r, g) = 7 /\ Change(r2, g2) = 4
      BY <1>1, <1>4, <2>4 DEF Change
    <3> QED
      BY <2>1, <3>1, OneIs DEF Ahead
  <2> QED
    BY <2>2, <2>3, <2>4
<1> QED
  BY <1>3, <1>4

\* It ends without: the spec is still to be handled, and the phase is Error unless
\* the record was external when it began.
LEMMA AheadOfFailure ==
  ASSUME NEW r, NEW r2, NEW g, NEW g2, NEW m, NEW q, NEW X, NEW A, Sound(r, q), Sound(r2, q),
         r.at = "live", r2.at = "live", r2.spec = r.spec, r2.handled = r.handled, r2.tries = r.tries,
         Changes(g), g.end # "ok", Stage(g2) = "idle",
         r2.phase = "Error" \/ (g.spec.external /\ (r.spec.external \/ g.spec # r.spec))
  PROVE  Ahead(r2, g2, m, q, X, A) <= Ahead(r, g, m, q, X, A)
<1>1. ChangeCost(g) = 4 /\ ~Changes(g2)
  BY DEF ChangeCost, Changes
<1>2. Left(r2, q) = Left(r, q) /\ Left(r, q) \in 0..2
  BY LeftIs DEF Left, Tried
<1>3. CASE r.spec.external
  <2>1. ~Bare(r2, m, q, X, A) /\ ~Bare(r, m, q, X, A)
    BY <1>3 DEF Bare
  <2>2. One(Bare(r2, m, q, X, A)) = 0 /\ One(Bare(r, m, q, X, A)) = 0
    BY <2>1, OneIs
  <2>3. Change(r2, g2) <= Change(r, g)
    BY <1>1, <1>3 DEF Change
  <2>4. Retries(r2, g2, m, q) = Retries(r, g, m, q)
    BY <1>2, <1>3 DEF Retries
  <2> QED
    BY <2>2, <2>3, <2>4, ChangeIs, RetriesAre, OneIs DEF Ahead
<1>4. CASE ~r.spec.external /\ r2.phase = "Error"
  <2>1. Dormant(r, m, q) => Dormant(r2, m, q)
    BY <1>4 DEF Dormant
  <2>2. Retries(r2, g2, m, q) <= Retries(r, g, m, q)
    BY <1>1, <1>2, <1>4, <2>1 DEF Retries
  <2>3. Change(r2, g2) <= Change(r, g)
    BY <1>1, <1>4 DEF Change
  <2>4. Bare(r2, m, q, X, A) => Bare(r, m, q, X, A)
    BY <1>4, <2>1 DEF Bare, Covered, Resting, Lull, Bringing
  <2>5. One(Bare(r2, m, q, X, A)) <= One(Bare(r, m, q, X, A))
    BY <2>4, OneLess
  <2> QED
    BY <2>2, <2>3, <2>5, ChangeIs, RetriesAre, OneIs DEF Ahead
<1>5. CASE ~r.spec.external /\ g.spec.external /\ g.spec # r.spec
  <2>1. Change(r, g) = 5 /\ Change(r2, g2) \in 0..4
    BY <1>1, <1>5 DEF Change
  <2>2. Retries(r, g, m, q) = Left(r, q) /\ Retries(r2, g2, m, q) \in 0..2 /\ Retries(r2, g2, m, q) <= Left(r, q)
    BY <1>2, <1>5 DEF Retries
  <2> QED
    BY <1>2, <2>1, <2>2, OneIs DEF Ahead
<1> QED
  BY <1>3, <1>4, <1>5

\* The timer that looked, or one of an external image, ends.
LEMMA AheadOfLooked ==
  ASSUME NEW r, NEW r2, NEW g, NEW m, NEW m2, NEW q, NEW X, NEW A, Sound(r, q), Sound(r2, q),
         r.at = "live", r2.at = "live", r2.spec = r.spec, r2.handled = r.handled, r2.tries = r.tries,
         Stage(m) # "idle", ~Remakes(m), Stage(m2) = "idle"
  PROVE  Ahead(r2, g, m2, q, X, A) <= Ahead(r, g, m, q, X, A)
<1>1. Left(r2, q) = Left(r, q) /\ Left(r, q) \in 0..2
  BY LeftIs DEF Left, Tried
<1>2. ~Makes(m2)
  BY DEF Makes
<1>3. ~Dormant(r, m, q) /\ ~Resting(r, m) /\ ~Lull(r, m, q, X) /\ ~Bringing(r, m, q, X)
  BY DEF Dormant, Resting, Lull, Bringing
<1>4. Bare(r2, m2, q, X, A) => Bare(r, m, q, X, A)
  BY <1>2, <1>3 DEF Bare, Covered
<1>5. One(Bare(r2, m2, q, X, A)) <= One(Bare(r, m, q, X, A)) /\ One(Makes(m2)) <= One(Makes(m))
  BY <1>2, <1>4, OneLess
<1>6. Retries(r2, g, m2, q) <= Retries(r, g, m, q)
  BY <1>1, <1>3, <1>5, OneIs DEF Retries
<1>7. Change(r2, g) = Change(r, g)
  BY DEF Change
<1> QED
  BY <1>5, <1>6, <1>7, ChangeIs, RetriesAre, OneIs DEF Ahead

\* The timer that made the image again, or found it, ends.
LEMMA AheadOfRemade ==
  ASSUME NEW r, NEW r2, NEW g, NEW m, NEW m2, NEW q, NEW X, NEW A, Sound(r, q), Sound(r2, q),
         r.at = "live", r2.at = "live", r2.spec = r.spec, r2.handled = r.handled, r2.tries = r.tries,
         Stage(m) = "patch", Remakes(m), Stage(m2) = "idle",
         \/ m.end # "ok"
         \/ m.id \in A
         \/ m.id \notin X
         \/ r2.phase = "Provisioning"
  PROVE  Ahead(r2, g, m2, q, X, A) <= Ahead(r, g, m, q, X, A)
<1>1. Left(r2, q) = Left(r, q) /\ Left(r, q) \in 0..2
  BY LeftIs DEF Left, Tried
<1>2. ~Makes(m) /\ ~Makes(m2)
  BY DEF Makes
<1>3. ~Dormant(r, m, q) /\ ~Resting(r, m) /\ ~Lull(r, m, q, X)
  BY DEF Dormant, Resting, Lull
<1>4. ASSUME Bringing(r, m, q, X)
      PROVE  Covered(r2, m2, q, X, A)
  <2>1. m.id \in Spared(X, q) /\ (m.id \in A => m.id \in Spared(A, q))
    BY <1>4 DEF Bringing, Spared
  <2>2. CASE m.id \in A
    BY <1>2, <2>1, <2>2 DEF Covered
  <2>3. CASE r2.phase = "Provisioning"
    <3>1. Resting(r2, m2)
      BY <2>3 DEF Resting
    <3> QED
      BY <1>2, <2>1, <3>1 DEF Covered
  <2> QED
    BY <1>4, <2>2, <2>3 DEF Bringing
<1>5. Bare(r2, m2, q, X, A) => Bare(r, m, q, X, A)
  BY <1>2, <1>3, <1>4 DEF Bare, Covered
<1>6. One(Bare(r2, m2, q, X, A)) <= One(Bare(r, m, q, X, A)) /\ One(Makes(m2)) <= One(Makes(m))
  BY <1>2, <1>5, OneLess
<1>7. Retries(r2, g, m2, q) <= Retries(r, g, m, q)
  BY <1>1, <1>3, <1>6, OneIs DEF Retries
<1>8. Change(r2, g) = Change(r, g)
  BY DEF Change
<1> QED
  BY <1>6, <1>7, <1>8, ChangeIs, RetriesAre, OneIs DEF Ahead

\* The poll ends.
LEMMA AheadOfPolled ==
  ASSUME NEW r, NEW r2, NEW g, NEW m, NEW q, NEW q2, NEW X, NEW A, Sound(r, q), Sound(r2, q2),
         r.at = "live", r2.at = "live", r2.spec = r.spec, r2.handled = r.handled,
         Stage(q) = "patch", Stage(q2) = "idle", 0 \notin X,
         r2.tries = Tried(r, q),
         \/ q.put.phase \in {"Ready", "Error"} /\ r2.phase = q.put.phase /\ r2.id = r.id
         \/ q.put.phase = "Pending" /\ r2.phase = "Pending" /\ r2.id = 0
         \/ q.put.phase = "same" /\ r2.phase = r.phase /\ r2.id = r.id
  PROVE  Ahead(r2, g, m, q2, X, A) <= Ahead(r, g, m, q, X, A)
<1>1. Left(r2, q2) = Left(r, q) /\ Left(r, q) \in 0..2
  BY LeftIs DEF Left, Tried
<1>2. ~Dormant(r, m, q) /\ ~Lull(r, m, q, X)
  BY DEF Dormant, Lull
<1>3. Spared(A, q) = A /\ Spared(A, q2) = A /\ Spared(X, q) = X /\ Spared(X, q2) = X
  BY DEF Spared
<1>4. ~Owed(q2, A) /\ (Owed(q, A) <=> q.put.phase = "Ready" /\ A = {})
  BY <1>3 DEF Owed
<1>5. Retries(r2, g, m, q2) <= Retries(r, g, m, q)
  BY <1>1, <1>2, OneIs DEF Retries
<1>6. Change(r2, g) = Change(r, g)
  BY DEF Change
<1>7. ASSUME Covered(r, m, q, X, A), ~Owed(q, A)
      PROVE  Covered(r2, m, q2, X, A)
  <2>1. CASE A # {}
    BY <1>3, <1>7, <2>1 DEF Covered
  <2>2. CASE Resting(r, m) /\ q.put.phase = "Error"
    BY <1>7, <2>2 DEF Covered, Dormant, Resting
  <2>3. CASE Resting(r, m) /\ X # {} /\ q.put.phase = "Pending"
    BY <1>7, <2>3 DEF Covered, Lull, Resting
  <2>4. CASE Resting(r, m) /\ X # {} /\ q.put.phase = "same"
    BY <1>3, <1>7, <2>4 DEF Covered, Resting
  <2>5. CASE Bringing(r, m, q, X)
    <3>1. Bringing(r2, m, q2, X)
      BY <2>5 DEF Bringing
    <3> QED
      BY <1>7, <3>1 DEF Covered
  <2> QED
    BY <1>2, <1>3, <1>4, <1>7, <2>1, <2>2, <2>3, <2>4, <2>5 DEF Covered, Ending
<1>8. CASE Owed(q, A)
  <2>1. One(Owed(q, A)) = 1 /\ One(Owed(q2, A)) = 0
    BY <1>4, <1>8, OneIs
  <2>2. r.spec.external => ~Bare(r, m, q, X, A) /\ ~Bare(r2, m, q2, X, A)
    BY DEF Bare
  <2> QED
    BY <1>5, <1>6, <2>1, ChangeIs, RetriesAre, OneIs DEF Ahead
<1>9. CASE ~Owed(q, A)
  <2>1. Bare(r2, m, q2, X, A) => Bare(r, m, q, X, A)
    BY <1>7, <1>9 DEF Bare
  <2>2. One(Bare(r2, m, q2, X, A)) <= One(Bare(r, m, q, X, A)) /\ One(Owed(q2, A)) <= One(Owed(q, A))
    BY <1>4, <2>1, OneLess
  <2> QED
    BY <1>5, <1>6, <2>2, ChangeIs, RetriesAre, OneIs DEF Ahead
<1> QED
  BY <1>8, <1>9

-----------------------------------------------------------------------------
(* What they come to as the threads go on.                                 *)

\* The handler of a change goes on.
LEMMA AheadOfChanging ==
  ASSUME NEW r, NEW g, NEW g2, NEW m, NEW q, NEW X, NEW A, Sound(r, q),
         Changes(g2) <=> Changes(g), Changes(g) => g2.spec = g.spec, Makes(g2) => Makes(g),
         Changes(g) => g.spec.external \/ ChangeCost(g2) <= ChangeCost(g)
  PROVE  Ahead(r, g2, m, q, X, A) <= Ahead(r, g, m, q, X, A)
<1>1. Change(r, g2) <= Change(r, g)
  BY ChangeIs DEF Change
<1>2. Retries(r, g2, m, q) = Retries(r, g, m, q)
  BY DEF Retries
<1>3. One(Makes(g2)) <= One(Makes(g))
  BY OneLess
<1> QED
  BY <1>1, <1>2, <1>3, ChangeIs, RetriesAre, OneIs DEF Ahead

\* It makes the image.
LEMMA AheadOfMaking ==
  ASSUME NEW r, NEW g, NEW g2, NEW m, NEW q, NEW X, NEW A, Sound(r, q),
         Makes(g), g.fn = "create", Stage(g) = "make", ~Makes(g2), g2.fn = "create",
         g2.spec = g.spec, Stage(g2) = "blob", g2.end = "ok"
  PROVE  Ahead(r, g2, m, q, X, A) + 1 <= Ahead(r, g, m, q, X, A)
<1>1. Changes(g) /\ Changes(g2) /\ ChangeCost(g) = 4 /\ ChangeCost(g2) = 3 /\ ~g.spec.external
  BY DEF Changes, ChangeCost, Makes
<1>2. Change(r, g2) + 1 <= Change(r, g)
  BY <1>1 DEF Change
<1>3. Retries(r, g2, m, q) = Retries(r, g, m, q)
  BY <1>1 DEF Retries
<1>4. One(Makes(g2)) = 0 /\ One(Makes(g)) = 1
  BY DEF One
<1>5. CASE r.at # "live"
  <2>1. One(Makes(m)) \in 0..1
    BY OneIs
  <2>2. /\ Ahead(r, g2, m, q, X, A) = One(Makes(g2)) + One(Makes(m))
        /\ Ahead(r, g, m, q, X, A) = One(Makes(g)) + One(Makes(m))
    BY <1>5 DEF Ahead
  <2> QED
    BY <1>4, <2>1, <2>2
<1>6. CASE r.at = "live"
  BY <1>2, <1>3, <1>6, ChangeIs, RetriesAre, OneIs DEF Ahead
<1> QED
  BY <1>5, <1>6

\* It fails.
LEMMA AheadOfFailing ==
  ASSUME NEW r, NEW g, NEW g2, NEW m, NEW q, NEW X, NEW A, Sound(r, q),
         Changes(g2) <=> Changes(g), Changes(g) => g2.spec = g.spec, Makes(g2) => Makes(g)
  PROVE  Ahead(r, g2, m, q, X, A) <= Ahead(r, g, m, q, X, A) + 1
<1>1. Change(r, g2) <= Change(r, g) + 1
  BY ChangeIs DEF Change
<1>2. Retries(r, g2, m, q) = Retries(r, g, m, q)
  BY DEF Retries
<1>3. One(Makes(g2)) <= One(Makes(g))
  BY OneLess
<1> QED
  BY <1>1, <1>2, <1>3, ChangeIs, RetriesAre, OneIs DEF Ahead

\* A timer that makes no image goes on, or fails.
LEMMA AheadOfIdling ==
  ASSUME NEW r, NEW g, NEW m, NEW m2, NEW q, NEW X, NEW A, Sound(r, q),
         Stage(m) # "idle", Stage(m2) # "idle", ~Remakes(m), ~Remakes(m2), ~Makes(m), ~Makes(m2)
  PROVE  Ahead(r, g, m2, q, X, A) <= Ahead(r, g, m, q, X, A)
<1>1. /\ ~Dormant(r, m, q) /\ ~Resting(r, m) /\ ~Lull(r, m, q, X) /\ ~Bringing(r, m, q, X)
      /\ ~Dormant(r, m2, q) /\ ~Resting(r, m2) /\ ~Lull(r, m2, q, X) /\ ~Bringing(r, m2, q, X)
  BY DEF Dormant, Resting, Lull, Bringing
<1>2. Bare(r, m2, q, X, A) => Bare(r, m, q, X, A)
  BY <1>1 DEF Bare, Covered
<1>3. One(Bare(r, m2, q, X, A)) <= One(Bare(r, m, q, X, A)) /\ One(Makes(m2)) <= One(Makes(m))
  BY <1>2, OneLess
<1>4. Retries(r, g, m2, q) <= Retries(r, g, m, q)
  BY <1>1, <1>3, LeftIs, OneIs DEF Retries
<1> QED
  BY <1>3, <1>4, ChangeIs, RetriesAre, OneIs DEF Ahead

\* A timer goes on, or fails, and there may be more images.
LEMMA AheadOfBusy ==
  ASSUME NEW r, NEW g, NEW m, NEW m2, NEW q, NEW X, NEW A, NEW X2, NEW A2, Sound(r, q),
         Stage(m) # "idle", Stage(m2) # "idle", Makes(m2) => Makes(m), A \subseteq A2
  PROVE  Ahead(r, g, m2, q, X2, A2) <= Ahead(r, g, m, q, X, A) + 1
<1>1. ~Dormant(r, m, q) /\ ~Dormant(r, m2, q)
  BY DEF Dormant
<1>2. One(Makes(m2)) <= One(Makes(m))
  BY OneLess
<1>3. Retries(r, g, m2, q) <= Retries(r, g, m, q)
  BY <1>1, <1>2, LeftIs, OneIs DEF Retries
<1>4. Spared(A, q) \subseteq Spared(A2, q)
  BY DEF Spared
<1>5. Owed(q, A2) => Owed(q, A)
  BY <1>4 DEF Owed
<1>6. One(Owed(q, A2)) <= One(Owed(q, A))
  BY <1>5, OneLess
<1> QED
  BY <1>2, <1>3, <1>6, ChangeIs, RetriesAre, OneIs DEF Ahead

\* The timer looks for the image.
LEMMA AheadOfFinding ==
  ASSUME NEW r, NEW g, NEW m, NEW m2, NEW q, NEW X, NEW A, Sound(r, q),
         Remakes(m), Remakes(m2), Stage(m) = "find", Stage(m2) = "make", m2.end = "ok",
         0 \notin X, A \subseteq X, (m2.id = 0 /\ X = {}) \/ m2.id \in X
  PROVE  Ahead(r, g, m2, q, X, A) <= Ahead(r, g, m, q, X, A)
<1>1. Makes(m) /\ Makes(m2)
  BY DEF Makes, Remakes
<1>2. ~Dormant(r, m, q) /\ ~Dormant(r, m2, q) /\ ~Resting(r, m) /\ ~Bringing(r, m, q, X)
  BY DEF Dormant, Resting, Bringing
<1>3. ASSUME Covered(r, m, q, X, A)
      PROVE  Covered(r, m2, q, X, A)
  <2>1. Spared(A, q) # {} \/ Lull(r, m, q, X)
    BY <1>2, <1>3 DEF Covered
  <2>2. m2.id \in X /\ m2.id # 0
    BY <2>1 DEF Spared, Lull
  <2>3. Lull(r, m, q, X) => Bringing(r, m2, q, X)
    BY <2>2 DEF Lull, Bringing
  <2> QED
    BY <2>1, <2>2, <2>3 DEF Covered
<1>4. Bare(r, m2, q, X, A) => Bare(r, m, q, X, A)
  BY <1>3 DEF Bare
<1>5. One(Bare(r, m2, q, X, A)) <= One(Bare(r, m, q, X, A)) /\ One(Makes(m2)) <= One(Makes(m))
  BY <1>1, <1>4, OneLess
<1>6. Retries(r, g, m2, q) <= Retries(r, g, m, q)
  BY <1>2, <1>5, LeftIs, OneIs DEF Retries
<1> QED
  BY <1>5, <1>6, ChangeIs, RetriesAre, OneIs DEF Ahead

\* It goes on with the image that it has.
LEMMA AheadOfBringing ==
  ASSUME NEW r, NEW g, NEW m, NEW m2, NEW q, NEW X, NEW A, Sound(r, q),
         Remakes(m), Remakes(m2), Stage(m) # "find", Stage(m2) \notin {"find", "make"},
         m2.id = m.id, m2.end = m.end
  PROVE  Ahead(r, g, m2, q, X, A) <= Ahead(r, g, m, q, X, A)
<1>1. ~Makes(m2) /\ Stage(m) # "idle" /\ Stage(m2) # "idle"
  BY DEF Makes, Remakes
<1>2. /\ ~Dormant(r, m, q) /\ ~Resting(r, m) /\ ~Lull(r, m, q, X)
      /\ ~Dormant(r, m2, q) /\ ~Resting(r, m2) /\ ~Lull(r, m2, q, X)
  BY <1>1 DEF Dormant, Resting, Lull
<1>3. Bringing(r, m, q, X) => Bringing(r, m2, q, X)
  BY DEF Bringing
<1>4. Bare(r, m2, q, X, A) => Bare(r, m, q, X, A)
  BY <1>1, <1>2, <1>3 DEF Bare, Covered
<1>5. One(Bare(r, m2, q, X, A)) <= One(Bare(r, m, q, X, A)) /\ One(Makes(m2)) <= One(Makes(m))
  BY <1>1, <1>4, OneLess
<1>6. Retries(r, g, m2, q) <= Retries(r, g, m, q)
  BY <1>2, <1>5, LeftIs, OneIs DEF Retries
<1> QED
  BY <1>5, <1>6, ChangeIs, RetriesAre, OneIs DEF Ahead

\* It makes an image that was not found.
LEMMA AheadOfMakingAgain ==
  ASSUME NEW r, NEW g, NEW m, NEW m2, NEW q, NEW X, NEW A, NEW X2, NEW A2, Sound(r, q),
         Remakes(m), Remakes(m2), Stage(m) = "make", Stage(m2) = "blob",
         m.id = 0, m2.id \in X2, m2.id # r.id, Stage(q) = "idle" \/ m2.id # q.id, m2.end = "ok", A \subseteq A2
  PROVE  Ahead(r, g, m2, q, X2, A2) + 1 <= Ahead(r, g, m, q, X, A)
<1>1. Makes(m) /\ ~Makes(m2)
  BY DEF Makes, Remakes
<1>2. ~Dormant(r, m, q) /\ ~Dormant(r, m2, q)
  BY DEF Dormant
<1>3. Spared(A, q) \subseteq Spared(A2, q)
  BY DEF Spared
<1>4. Owed(q, A2) => Owed(q, A)
  BY <1>3 DEF Owed
<1>5. One(Owed(q, A2)) <= One(Owed(q, A))
  BY <1>4, OneLess
<1>6. Bringing(r, m2, q, X2)
  BY DEF Bringing
<1>7. Covered(r, m2, q, X2, A2) /\ ~Covered(r, m, q, X, A)
  BY <1>1, <1>6 DEF Covered
<1>8. ~Bare(r, m2, q, X2, A2) /\ (Bare(r, m, q, X, A) <=> ~r.spec.external)
  BY <1>7 DEF Bare
<1>9. One(Bare(r, m2, q, X2, A2)) = 0 /\ One(Makes(m)) = 1 /\ One(Makes(m2)) = 0
      /\ (~r.spec.external => One(Bare(r, m, q, X, A)) = 1)
  BY <1>1, <1>8, OneIs
<1>10. r.spec.external => Retries(r, g, m2, q) + 1 <= Retries(r, g, m, q)
  BY <1>9, LeftIs DEF Retries
<1>11. ~r.spec.external => Retries(r, g, m2, q) = Retries(r, g, m, q)
  BY <1>2 DEF Retries
<1> QED
  BY <1>5, <1>9, <1>10, <1>11, ChangeIs, RetriesAre, OneIs DEF Ahead

\* The poll sees an import that is over, or goes on.
LEMMA AheadOfSeen ==
  ASSUME NEW r, NEW g, NEW m, NEW q, NEW q2, NEW X, NEW A, Sound(r, q), Sound(r, q2),
         Stage(q) = "look", q.put = Same, Stage(q2) = "patch", q2.id = q.id, q2.put.tries = -1,
         q2.put.phase = "Ready" => A # {}
  PROVE  Ahead(r, g, m, q2, X, A) <= Ahead(r, g, m, q, X, A)
<1>1. Left(r, q2) = Left(r, q) /\ Left(r, q) \in 0..2
  BY LeftIs DEF Left, Tried, Sound, Same
<1>2. /\ ~Dormant(r, m, q) /\ ~Dormant(r, m, q2) /\ ~Lull(r, m, q, X) /\ ~Ending(q)
      /\ Spared(A, q) = A /\ Spared(A, q2) = A /\ Spared(X, q) = X /\ Spared(X, q2) = X
  BY DEF Dormant, Lull, Ending, Spared, Same
<1>3. ~Owed(q2, A)
  BY <1>2 DEF Owed
<1>4. Bringing(r, m, q, X) => Bringing(r, m, q2, X)
  BY DEF Bringing
<1>5. Bare(r, m, q2, X, A) => Bare(r, m, q, X, A)
  BY <1>2, <1>4 DEF Bare, Covered
<1>6. One(Bare(r, m, q2, X, A)) <= One(Bare(r, m, q, X, A)) /\ One(Owed(q2, A)) <= One(Owed(q, A))
  BY <1>3, <1>5, OneLess
<1>7. Retries(r, g, m, q2) <= Retries(r, g, m, q)
  BY <1>1, <1>2, OneIs DEF Retries
<1> QED
  BY <1>6, <1>7, ChangeIs, RetriesAre, OneIs DEF Ahead

\* It sees one that is stuck: it is made again, or gives up.
LEMMA AheadOfStuck ==
  ASSUME NEW r, NEW g, NEW m, NEW q, NEW q2, NEW X, NEW A, Sound(r, q), Sound(r, q2),
         Stage(q) = "look", q.put = Same, Stage(q2) = "drop", q2.id = q.id, q.id \notin A,
         \/ q2.put.tries > r.tries /\ q2.put.phase = "Pending"
         \/ q2.put.tries = -1 /\ q2.put.phase = "Error"
  PROVE  Ahead(r, g, m, q2, X, A) <= Ahead(r, g, m, q, X, A)
<1>1. /\ ~Dormant(r, m, q) /\ ~Dormant(r, m, q2) /\ ~Lull(r, m, q, X) /\ ~Ending(q)
      /\ Spared(A, q) = A /\ Spared(A, q2) = A /\ Spared(X, q) = X
  BY DEF Dormant, Lull, Ending, Spared, Same
<1>2. ~Owed(q2, A)
  BY DEF Owed
<1>3. One(Owed(q2, A)) <= One(Owed(q, A))
  BY <1>2, OneLess
<1>4. Left(r, q) = 2 - r.tries /\ Left(r, q2) \in 0..2
  BY LeftIs DEF Left, Tried, Sound, Same
<1>5. CASE q2.put.tries > r.tries
  <2>1. Left(r, q2) + 1 <= Left(r, q)
    BY <1>4, <1>5 DEF Left, Tried, Sound
  <2>2. Retries(r, g, m, q2) + 1 <= Retries(r, g, m, q)
    BY <1>1, <1>4, <2>1, OneIs DEF Retries, Sound
  <2> QED
    BY <1>3, <2>2, ChangeIs, RetriesAre, OneIs DEF Ahead
<1>6. CASE q2.put.tries = -1 /\ q2.put.phase = "Error"
  <2>1. Left(r, q2) = Left(r, q)
    BY <1>4, <1>6 DEF Left, Tried, Sound
  <2>2. Retries(r, g, m, q2) <= Retries(r, g, m, q)
    BY <1>1, <1>4, <2>1, OneIs DEF Retries
  <2>3. Bringing(r, m, q, X) => Bringing(r, m, q2, X)
    BY DEF Bringing
  <2>4. Ending(q2)
    BY <1>6 DEF Ending
  <2>5. Bare(r, m, q2, X, A) => Bare(r, m, q, X, A)
    BY <1>1, <2>3, <2>4 DEF Bare, Covered
  <2>6. One(Bare(r, m, q2, X, A)) <= One(Bare(r, m, q, X, A))
    BY <2>5, OneLess
  <2> QED
    BY <1>3, <2>2, <2>6, ChangeIs, RetriesAre, OneIs DEF Ahead
<1> QED
  BY <1>5, <1>6

\* It deletes the image.
LEMMA AheadOfDrop ==
  ASSUME NEW r, NEW g, NEW m, NEW q, NEW q2, NEW X, NEW A, NEW X2, NEW A2, Sound(r, q), Sound(r, q2),
         Stage(q) = "drop", Stage(q2) = "patch", q2.id = q.id, q2.put = q.put,
         X \ {q.id} \subseteq X2, A \ {q.id} \subseteq A2
  PROVE  Ahead(r, g, m, q2, X2, A2) <= Ahead(r, g, m, q, X, A)
<1>1. Left(r, q2) = Left(r, q) /\ Left(r, q) \in 0..2
  BY LeftIs DEF Left, Tried
<1>2. /\ ~Dormant(r, m, q) /\ ~Dormant(r, m, q2) /\ ~Lull(r, m, q, X) /\ (Ending(q) <=> Ending(q2))
      /\ Spared(A, q) \subseteq Spared(A2, q2) /\ Spared(X, q) \subseteq Spared(X2, q2)
  BY DEF Dormant, Lull, Ending, Spared
<1>3. Owed(q2, A2) => Owed(q, A)
  BY <1>2 DEF Owed
<1>4. Bringing(r, m, q, X) => Bringing(r, m, q2, X2)
  BY DEF Bringing
<1>5. Bare(r, m, q2, X2, A2) => Bare(r, m, q, X, A)
  BY <1>2, <1>4 DEF Bare, Covered
<1>6. One(Bare(r, m, q2, X2, A2)) <= One(Bare(r, m, q, X, A)) /\ One(Owed(q2, A2)) <= One(Owed(q, A))
  BY <1>3, <1>5, OneLess
<1>7. Retries(r, g, m, q2) <= Retries(r, g, m, q)
  BY <1>1, <1>2, OneIs DEF Retries
<1> QED
  BY <1>6, <1>7, ChangeIs, RetriesAre, OneIs DEF Ahead

-----------------------------------------------------------------------------
(* What a change by a user, or a crash, costs.                             *)

LEMMA AheadOfCreation ==
  ASSUME NEW r, NEW g, NEW m, NEW q, NEW X, NEW A, Sound(r, q),
         Stage(g) = "idle", Stage(m) = "idle", Stage(q) = "idle", Dormant(r, m, q)
  PROVE  Ahead(r, g, m, q, X, A) <= 4
<1>1. ~Changes(g) /\ ~Makes(g) /\ ~Makes(m) /\ ~Owed(q, A)
  BY DEF Changes, Makes, Owed
<1>2. ~Bare(r, m, q, X, A)
  BY <1>1 DEF Bare, Covered
<1>3. One(Makes(g)) = 0 /\ One(Makes(m)) = 0 /\ One(Owed(q, A)) = 0 /\ One(Bare(r, m, q, X, A)) = 0
  BY <1>1, <1>2, OneIs
<1>4. Left(r, q) \in 0..2
  BY LeftIs
<1>5. CASE r.at # "live"
  BY <1>3, <1>5 DEF Ahead
<1>6. CASE r.at = "live" /\ r.spec.external
  <2>1. Retries(r, g, m, q) = Left(r, q) + 1 + One(Makes(m))
    BY <1>6 DEF Retries
  <2>2. Change(r, g) \in 0..1
    BY <1>1, <1>6 DEF Change
  <2> QED
    BY <1>3, <1>4, <1>6, <2>1, <2>2 DEF Ahead
<1>7. CASE r.at = "live" /\ ~r.spec.external
  <2>1. Retries(r, g, m, q) = 0
    BY <1>1, <1>7 DEF Retries
  <2>2. Change(r, g) \in 0..4
    BY <1>1, <1>7 DEF Change
  <2> QED
    BY <1>3, <1>7, <2>1, <2>2 DEF Ahead
<1> QED
  BY <1>5, <1>6, <1>7

LEMMA AheadOfEdit ==
  ASSUME NEW r, NEW r2, NEW g, NEW m, NEW q, NEW X, NEW A, Sound(r, q), Sound(r2, q),
         r.at = "live", r2.at = "live", r2.handled = r.handled, r2.phase = r.phase, r2.id = r.id,
         r2.tries = r.tries
  PROVE  Ahead(r2, g, m, q, X, A) <= Ahead(r, g, m, q, X, A) + 4
<1>1. Left(r2, q) = Left(r, q) /\ Left(r, q) \in 0..2
  BY LeftIs DEF Left, Tried
<1>2. Dormant(r2, m, q) <=> Dormant(r, m, q)
  BY DEF Dormant
<1>3. Covered(r2, m, q, X, A) <=> Covered(r, m, q, X, A)
  BY <1>2 DEF Covered, Resting, Lull, Bringing
<1>4. ChangeCost(g) \in 3..4
  BY ChangeIs
<1>5. Dormant(r, m, q) => ~Makes(m)
  BY DEF Dormant, Makes
<1>6. CASE r.spec.external /\ r2.spec.external
  <2>1. ~Bare(r, m, q, X, A) /\ ~Bare(r2, m, q, X, A)
    BY <1>6 DEF Bare
  <2>2. One(Bare(r, m, q, X, A)) = 0 /\ One(Bare(r2, m, q, X, A)) = 0
    BY <2>1, OneIs
  <2>3. Change(r2, g) <= Change(r, g) + 1
    BY <1>4, <1>6 DEF Change
  <2>4. Retries(r2, g, m, q) = Retries(r, g, m, q)
    BY <1>1, <1>6 DEF Retries
  <2> QED
    BY <2>2, <2>3, <2>4, ChangeIs, RetriesAre, OneIs DEF Ahead
<1>7. CASE ~r.spec.external /\ ~r2.spec.external
  <2>1. Bare(r2, m, q, X, A) => Bare(r, m, q, X, A)
    BY <1>3, <1>7 DEF Bare
  <2>2. One(Bare(r2, m, q, X, A)) <= One(Bare(r, m, q, X, A))
    BY <2>1, OneLess
  <2>3. Change(r2, g) <= Change(r, g) + 4
    BY <1>4, <1>7 DEF Change
  <2>4. Retries(r2, g, m, q) = Retries(r, g, m, q)
    BY <1>1, <1>2, <1>7 DEF Retries
  <2> QED
    BY <2>2, <2>3, <2>4, ChangeIs, RetriesAre, OneIs DEF Ahead
<1>8. CASE r.spec.external /\ ~r2.spec.external
  <2>1. ~Bare(r, m, q, X, A)
    BY <1>8 DEF Bare
  <2>2. One(Bare(r, m, q, X, A)) = 0
    BY <2>1, OneIs
  <2>3. Change(r2, g) <= Change(r, g) + 4
    BY <1>4, <1>8 DEF Change
  <2>4. Retries(r2, g, m, q) + 1 <= Retries(r, g, m, q)
    BY <1>1, <1>8, OneIs DEF Retries
  <2> QED
    BY <2>2, <2>3, <2>4, ChangeIs, RetriesAre, OneIs DEF Ahead
<1>9. CASE ~r.spec.external /\ r2.spec.external
  <2>1. ~Bare(r2, m, q, X, A)
    BY <1>9 DEF Bare
  <2>2. One(Bare(r2, m, q, X, A)) = 0
    BY <2>1, OneIs
  <2>3. CASE Dormant(r, m, q) /\ ~(Changes(g) /\ g.spec.external)
    <3>1. One(Makes(m)) = 0
      BY <1>5, <2>3, OneIs
    <3>2. Retries(r, g, m, q) = 0 /\ Retries(r2, g, m, q) \in 1..3
      BY <1>1, <1>9, <2>3, <3>1 DEF Retries
    <3>3. Change(r2, g) <= Change(r, g) + 1
      BY <1>4, <1>9, <2>3 DEF Change
    <3> QED
      BY <2>2, <3>2, <3>3, ChangeIs, OneIs DEF Ahead
  <2>4. CASE ~(Dormant(r, m, q) /\ ~(Changes(g) /\ g.spec.external))
    <3>1. Retries(r, g, m, q) = Left(r, q) /\ Retries(r2, g, m, q) <= Left(r, q) + 2 /\ Retries(r2, g, m, q) \in 1..4
      BY <1>1, <1>9, <2>4, OneIs DEF Retries
    <3>2. Change(r2, g) <= Change(r, g) + 1
      BY <1>4, <1>9 DEF Change
    <3> QED
      BY <1>1, <2>2, <3>1, <3>2, ChangeIs, OneIs DEF Ahead
  <2> QED
    BY <2>3, <2>4
<1> QED
  BY <1>6, <1>7, <1>8, <1>9

LEMMA AheadOfCrash ==
  ASSUME NEW r, NEW g, NEW m, NEW q, NEW g2, NEW m2, NEW q2, NEW X, NEW A, Sound(r, q), Sound(r, q2),
         Stage(g2) = "idle", Stage(m2) = "idle", Stage(q2) = "idle"
  PROVE  Ahead(r, g2, m2, q2, X, A) <= Ahead(r, g, m, q, X, A) + 4
<1>1. ~Changes(g2) /\ ~Makes(g2) /\ ~Makes(m2) /\ ~Owed(q2, A)
  BY DEF Changes, Makes, Owed
<1>2. One(Makes(g2)) = 0 /\ One(Makes(m2)) = 0 /\ One(Owed(q2, A)) = 0
  BY <1>1, OneIs
<1>3. Left(r, q2) \in 0..2 /\ Left(r, q) \in 0..2
  BY LeftIs
<1>4. ChangeCost(g) \in 3..4
  BY ChangeIs
<1>5. Change(r, g2) <= Change(r, g) + 1
  BY <1>1, <1>4 DEF Change
<1>6. CASE r.spec.external
  <2>1. ~Bare(r, m, q, X, A) /\ ~Bare(r, m2, q2, X, A)
    BY <1>6 DEF Bare
  <2>2. One(Bare(r, m, q, X, A)) = 0 /\ One(Bare(r, m2, q2, X, A)) = 0
    BY <2>1, OneIs
  <2>3. Retries(r, g2, m2, q2) \in 1..3 /\ Retries(r, g, m, q) \in 1..4
    BY <1>2, <1>3, <1>6, RetriesAre DEF Retries
  <2> QED
    BY <1>2, <1>5, <2>2, <2>3, ChangeIs, OneIs DEF Ahead
<1>7. CASE ~r.spec.external
  <2>1. Retries(r, g2, m2, q2) \in 0..2 /\ Retries(r, g, m, q) \in 0..2
    BY <1>7, RetriesAre
  <2> QED
    BY <1>2, <1>5, <2>1, ChangeIs, OneIs DEF Ahead
<1> QED
  BY <1>6, <1>7

-----------------------------------------------------------------------------
(* What a step does to the images that may yet be made.                    *)

LEMMA StageIs ==
  ASSUME NEW th \in Thread
  PROVE  /\ Stage(th) = "idle" <=> th.todo = <<>>
         /\ th.todo # <<>> => Stage(th) = Head(th.todo)
<1>1. th.todo # <<>> => Head(th.todo) \in Steps
  BY HeadTail DEF Thread
<1>2. "idle" \notin Steps
  BY DEF Steps
<1> QED
  BY <1>1, <1>2 DEF Stage

LEMMA SoundFits ==
  ASSUME NEW pl, NEW d, NEW r, NEW q, NEW S, NEW n,
         RecordFits(pl, d, r, S, n), ThreadFits(pl, d, "poll", q, r, S, n)
  PROVE  Sound(r, q)
<1>1. r.tries \in 0..2
  <2>1. r \in Record /\ r.tries <= 2
    BY DEF RecordFits
  <2>2. r.tries \in 0..3
    BY <2>1 DEF Record
  <2> QED
    BY <2>1, <2>2
<1>2. q \in Thread
  BY DEF ThreadFits
<1>3. ASSUME Stage(q) # "idle"
      PROVE  q.put.tries \in -1..2
  <2>1. q.put \in Put /\ q.put.tries <= 2
    BY <1>2, <1>3, StageIs DEF ThreadFits, WorkFits, Thread
  <2> QED
    BY <2>1 DEF Put
<1> QED
  BY <1>1, <1>3 DEF Sound

LEMMA IdsKept ==
  ASSUME NEW S, NEW S2, NEW n, Kept(S, S2, n)
  PROVE  IdsOf(S, n) \subseteq IdsOf(S2, n) /\ ActiveIdsOf(S, n) \subseteq ActiveIdsOf(S2, n)
<1>1. ASSUME NEW s \in S, s.kind = "image", s.name = n
      PROVE  \E u \in S2 : u.kind = "image" /\ u.name = n /\ u.id = s.id /\ (s.state = "active" => u.state = "active")
  BY <1>1 DEF Kept, Alike
<1> QED
  BY <1>1 DEF IdsOf, ActiveIdsOf, Images

\* The step costs no more than its events allow.
Paid(c) == imports'[c] + AheadOf(c)' <= imports[c] + AheadOf(c) + 4 * (events' - events)

\* Nothing of the record changes, and no image of it is lost that matters.
LEMMA PaidByOthers ==
  ASSUME Typed, Fits, NEW c \in Records,
         cr'[c] = cr[c], \A w \in Ways : task'[<<c, w>>] = task[<<c, w>>], imports'[c] = imports[c],
         \/ events' = events + 1
         \/ /\ events' = events
            /\ \/ Kept(stock, stock', cr[c].spec.name)
               \/ cr[c].at # "live"
               \/ Dormant(cr[c], task[<<c, "timer">>], task[<<c, "poll">>])
  PROVE  Paid(c)
<1> DEFINE r == cr[c]
           g == task[<<c, "change">>]
           m == task[<<c, "timer">>]
           q == task[<<c, "poll">>]
           X == IdsOf(stock, r.spec.name)
           A == ActiveIdsOf(stock, r.spec.name)
           X2 == IdsOf(stock', r.spec.name)
           A2 == ActiveIdsOf(stock', r.spec.name)
<1>1. AheadOf(c) = Ahead(r, g, m, q, X, A) /\ AheadOf(c)' = Ahead(r, g, m, q, X2, A2)
  BY DEF AheadOf, Ways
<1>2. Sound(r, q)
  BY SoundFits DEF Fits, Ways
<1>3. imports[c] \in Nat /\ events \in Nat
  BY DEF Typed
<1>4. Kept(stock, stock', r.spec.name) => X \subseteq X2 /\ A \subseteq A2
  BY IdsKept
<1> HIDE DEF r, g, m, q, X, A, X2, A2
<1>5. Ahead(r, g, m, q, X, A) \in Nat /\ Ahead(r, g, m, q, X2, A2) \in Nat
  BY <1>2, AheadIs
<1>6. CASE events' = events + 1
  <2>1. Ahead(r, g, m, q, X2, A2) <= Ahead(r, g, m, q, X, A) + 4
    BY <1>2, AheadFour
  <2> QED
    BY <1>1, <1>3, <1>5, <1>6, <2>1 DEF Paid
<1>7. CASE events' = events
  <2>1. Kept(stock, stock', r.spec.name) \/ r.at # "live" \/ Dormant(r, m, q)
    BY <1>3, <1>7 DEF r, m, q
  <2>2. Ahead(r, g, m, q, X2, A2) <= Ahead(r, g, m, q, X, A)
    BY <1>2, <1>4, <2>1, AheadMonotone, AheadAlone
  <2> QED
    BY <1>1, <1>3, <1>5, <1>7, <2>2 DEF Paid
<1> QED
  BY <1>6, <1>7

\* What is ahead when the thread of way w is x.
Turn(w, x, r, g, m, q, X, A) ==
  IF w = "change" THEN Ahead(r, x, m, q, X, A)
  ELSE IF w = "timer" THEN Ahead(r, g, x, q, X, A)
  ELSE Ahead(r, g, m, x, X, A)

LEMMA AheadTurns ==
  ASSUME Typed, NEW c \in Records, NEW w \in Ways, NEW x,
         task' = [task EXCEPT ![<<c, w>>] = x], cr'[c] = cr[c]
  PROVE  AheadOf(c)' = Turn(w, x, cr[c], task[<<c, "change">>], task[<<c, "timer">>], task[<<c, "poll">>],
                            IdsOf(stock', cr[c].spec.name), ActiveIdsOf(stock', cr[c].spec.name))
<1>1. task \in [Threads -> Thread]
  BY DEF Typed
<1>2. \A v \in Ways : <<c, v>> \in Threads
  BY ThreadsAre
<1>3. \A v \in Ways : task'[<<c, v>>] = IF v = w THEN x ELSE task[<<c, v>>]
  BY <1>1, <1>2
<1>4. CASE w = "change"
  BY <1>3, <1>4 DEF AheadOf, Turn, Ways
<1>5. CASE w = "timer"
  BY <1>3, <1>5 DEF AheadOf, Turn, Ways
<1>6. CASE w = "poll"
  BY <1>3, <1>6 DEF AheadOf, Turn, Ways
<1> QED
  BY <1>4, <1>5, <1>6 DEF Ways

-----------------------------------------------------------------------------
(* A thread of an image goes on: what is ahead, given what it may be.      *)

\* Both rows of a thread that goes on with its next step.
On(th, x) == x.fn = th.fn /\ x.spec = th.spec /\ x.todo = Tail(th.todo)

LEMMA MakingGoes ==
  ASSUME NEW th \in Thread, NEW x \in Thread, Making(th), Head(th.todo) # "patch", On(th, x)
  PROVE  /\ Follows(Stage(th), Stage(x)) /\ Stage(x) \notin {"idle", "find"}
         /\ ~th.spec.external /\ th.end = "ok"
<1>1. th.todo \in MakeTodos /\ th.todo # <<>>
  BY MakeTodoIs DEF Making
<1>2. Follows(Head(th.todo), Head(Tail(th.todo))) /\ Tail(th.todo) # <<>>
  BY <1>1, MakeTodoGoes
<1>3. Stage(th) = Head(th.todo) /\ Stage(x) = Head(x.todo)
  BY <1>1, <1>2, StageIs DEF On
<1> QED
  BY <1>2, <1>3 DEF On, Making, Follows

LEMMA FindingGoes ==
  ASSUME NEW th \in Thread, NEW x \in Thread, Finding(th), Head(th.todo) # "patch", On(th, x)
  PROVE  Stage(th) = "find" /\ Stage(x) = "patch" /\ th.spec.external
<1>1. th.todo = <<"find", "patch">>
  BY ShortTodos DEF Finding, FindTodos
<1>2. x.todo = <<"patch">>
  BY <1>1, ShortTodos DEF On
<1>3. th.todo # <<>> /\ Head(th.todo) = "find" /\ x.todo # <<>> /\ Head(x.todo) = "patch"
  BY <1>1, <1>2, ShortTodos
<1> QED
  BY <1>3, StageIs DEF Finding

LEMMA ChangeGoes ==
  ASSUME NEW g \in Thread, NEW x \in Thread, NEW r, NEW m, NEW q, NEW X, NEW A, Sound(r, q),
         ChangeFits(g, r), g.todo # <<>>, Head(g.todo) \notin {"patch", "release"},
         \/ g.fn = "delete" /\ x.fn = "delete"
         \/ g.fn = "create" /\ On(g, x) /\ (x.end = g.end \/ g.spec.external)
         \/ g.fn = "update" /\ x.fn = g.fn /\ x.spec = g.spec /\ Stage(x) = "patch"
  PROVE  Ahead(r, x, m, q, X, A) <= Ahead(r, g, m, q, X, A)
<1>1. CASE g.fn = "delete"
  <2>1. r.at # "live" /\ ~Makes(x)
    BY <1>1 DEF ChangeFits, Makes
  <2> QED
    BY <2>1, AheadOfDeletion
<1>2. CASE g.fn = "update"
  <2>1. Stage(g) = "settings"
    BY <1>2, ShortTodos, StageIs DEF ChangeFits
  <2>2. Changes(g) /\ Changes(x) /\ ~Makes(x) /\ ChangeCost(g) = 4
    BY <1>2, <2>1 DEF Changes, Makes, ChangeCost
  <2>3. ChangeCost(x) <= ChangeCost(g)
    BY <2>2, ChangeIs
  <2> QED
    BY <1>2, <2>2, <2>3, AheadOfChanging
<1>3. CASE g.fn = "create" /\ Making(g)
  <2>1. /\ Follows(Stage(g), Stage(x)) /\ Stage(x) \notin {"idle", "find"}
        /\ ~g.spec.external /\ g.end = "ok" /\ x.end = "ok" /\ x.fn = "create" /\ x.spec = g.spec
    BY <1>3, MakingGoes DEF On
  <2>2. Changes(g) /\ Changes(x) /\ (Makes(x) => Makes(g)) /\ ChangeCost(x) <= ChangeCost(g)
    BY <1>3, <2>1 DEF Changes, Makes, ChangeCost, Follows
  <2> QED
    BY <2>1, <2>2, AheadOfChanging
<1>4. CASE g.fn = "create" /\ Finding(g)
  <2>1. Stage(g) = "find" /\ Stage(x) = "patch" /\ g.spec.external /\ x.fn = "create" /\ x.spec = g.spec
    BY <1>4, FindingGoes DEF On
  <2>2. Changes(g) /\ Changes(x) /\ ~Makes(x)
    BY <1>4, <2>1 DEF Changes, Makes
  <2> QED
    BY <2>1, <2>2, AheadOfChanging
<1> QED
  BY <1>1, <1>2, <1>3, <1>4 DEF ChangeFits

\* The timer: it has found what there is, or has it in its hands.
LEMMA TimerGoes ==
  ASSUME NEW m \in Thread, NEW x \in Thread, NEW r, NEW g, NEW q, NEW S, NEW X, NEW A, Sound(r, q),
         TimerFits(m, S), m.todo # <<>>, Head(m.todo) # "patch", 0 \notin X, A \subseteq X,
         \/ m.fn = "look" /\ x.fn = "look" /\ Stage(x) # "idle"
         \/ /\ m.fn = "recreate" /\ On(m, x) /\ (x.end = m.end \/ m.spec.external)
            /\ \/ Head(m.todo) = "find" /\ (IF X = {} THEN x.id = 0 ELSE x.id \in X)
               \/ Head(m.todo) # "find" /\ x.id = m.id
  PROVE  Ahead(r, g, x, q, X, A) <= Ahead(r, g, m, q, X, A)
<1>1. Stage(m) # "idle" /\ Stage(m) = Head(m.todo)
  BY StageIs
<1>2. CASE m.fn = "look"
  BY <1>1, <1>2, AheadOfIdling DEF Makes, Remakes
<1>3. CASE m.fn = "recreate" /\ Finding(m)
  <2>1. Stage(m) = "find" /\ Stage(x) = "patch" /\ m.spec.external /\ x.spec.external
    BY <1>3, FindingGoes DEF On
  <2> QED
    BY <1>1, <2>1, AheadOfIdling DEF Makes, Remakes
<1>4. CASE m.fn = "recreate" /\ Making(m)
  <2>1. /\ Follows(Stage(m), Stage(x)) /\ Stage(x) \notin {"idle", "find"}
        /\ ~m.spec.external /\ m.end = "ok" /\ x.end = "ok" /\ x.fn = "recreate" /\ x.spec = m.spec
    BY <1>4, MakingGoes DEF On
  <2>2. Remakes(m) /\ Remakes(x)
    BY <1>1, <1>4, <2>1 DEF Remakes
  <2>3. CASE Stage(m) = "find"
    <3>1. Stage(x) = "make" /\ ((x.id = 0 /\ X = {}) \/ x.id \in X)
      BY <1>1, <1>4, <2>1, <2>3 DEF Follows
    <3> QED
      BY <2>1, <2>2, <2>3, <3>1, AheadOfFinding
  <2>4. CASE Stage(m) # "find"
    <3>1. Stage(x) \notin {"find", "make"} /\ x.id = m.id /\ x.end = m.end
      BY <1>1, <1>4, <2>1, <2>4 DEF Follows
    <3> QED
      BY <2>2, <2>4, <3>1, AheadOfBringing
  <2> QED
    BY <2>3, <2>4
<1> QED
  BY <1>2, <1>3, <1>4 DEF TimerFits

-----------------------------------------------------------------------------
(* The steps of the threads of an image are paid for.                      *)

\* The images of a record have an id, and those that are active are among them.
LEMMA IdsAre ==
  ASSUME Typed, NEW n
  PROVE  0 \notin IdsOf(stock, n) /\ ActiveIdsOf(stock, n) \subseteq IdsOf(stock, n)
<1>1. \A s \in stock : s.id \in 1..MaxIds
  BY DEF Typed, Stocked, Row
<1>2. \A s \in stock : s.id # 0
  BY <1>1
<1> QED
  BY <1>2 DEF IdsOf, ActiveIdsOf, Images

\* A record of which all that its user may wish has one name.
Steady(c) == \A v, w \in plan.wishes[c] : v.name = w.name

LEMMA SteadyIs ==
  ASSUME NEW c \in Records, Steady(c), NEW v \in plan.wishes[c]
  PROVE  Mine(plan, c) = {v.name}
BY DEF Steady, Mine

\* What a thread of an image is.
LEMMA ImageIs ==
  ASSUME Typed, Fits, NEW c \in Records, Kind(c) = "image", Steady(c), NEW w \in Ways, Busy(<<c, w>>)
  PROVE  /\ task[<<c, w>>] \in Thread /\ task[<<c, w>>].todo # <<>>
         /\ task[<<c, w>>].spec.name = cr[c].spec.name /\ task[<<c, w>>].kind = "image"
         /\ task[<<c, w>>].cr = c
         /\ Named(task[<<c, w>>].id, "image", {cr[c].spec.name}, stock, ids)
         /\ w = "change" => ChangeFits(task[<<c, w>>], cr[c])
         /\ w = "timer" => TimerFits(task[<<c, w>>], stock)
         /\ w = "poll" => PollFits(task[<<c, w>>], cr[c])
         /\ ImageFits(w, task[<<c, w>>], cr[c], stock)
<1>1. ThreadFits(plan, c, w, task[<<c, w>>], cr[c], stock, ids) /\ task[<<c, w>>] \in Thread
      /\ task[<<c, w>>].todo # <<>>
  BY ThreadIs
<1>2. WorkFits(plan, c, task[<<c, w>>], cr[c], stock, ids) /\ ImageFits(w, task[<<c, w>>], cr[c], stock)
  BY <1>1 DEF ThreadFits, Kind
<1>3. cr[c].spec \in plan.wishes[c] /\ task[<<c, w>>].spec \in plan.wishes[c] /\ task[<<c, w>>].cr = c
  BY <1>2 DEF Fits, RecordFits, WorkFits
<1>4. Mine(plan, c) = {cr[c].spec.name} /\ task[<<c, w>>].spec.name = cr[c].spec.name
  BY <1>3, SteadyIs DEF Steady
<1>5. Named(task[<<c, w>>].id, "image", {cr[c].spec.name}, stock, ids)
  BY <1>2, <1>3, <1>4 DEF WorkFits, Named, Kind
<1> QED
  BY <1>1, <1>2, <1>3, <1>4, <1>5 DEF WorkFits, ImageFits, Kind

\* A thread goes on, and loses no image.
LEMMA PaidByTurn ==
  ASSUME Typed, Fits, NEW c \in Records, NEW w \in Ways, NEW x,
         task' = [task EXCEPT ![<<c, w>>] = x], cr'[c] = cr[c],
         imports'[c] = imports[c], events' = events, Kept(stock, stock', cr[c].spec.name),
         w = "poll" => Sound(cr[c], x),
         Turn(w, x, cr[c], task[<<c, "change">>], task[<<c, "timer">>], task[<<c, "poll">>],
              IdsOf(stock, cr[c].spec.name), ActiveIdsOf(stock, cr[c].spec.name)) <= AheadOf(c)
  PROVE  Paid(c)
<1> DEFINE r == cr[c]
           g == task[<<c, "change">>]
           m == task[<<c, "timer">>]
           q == task[<<c, "poll">>]
           X == IdsOf(stock, r.spec.name)
           A == ActiveIdsOf(stock, r.spec.name)
           X2 == IdsOf(stock', r.spec.name)
           A2 == ActiveIdsOf(stock', r.spec.name)
<1>1. AheadOf(c)' = Turn(w, x, r, g, m, q, X2, A2) /\ AheadOf(c) = Ahead(r, g, m, q, X, A)
  BY AheadTurns DEF AheadOf
<1>2. Sound(r, q) /\ (w = "poll" => Sound(r, x))
  BY SoundFits DEF Fits, Ways
<1>3. imports[c] \in Nat /\ events \in Nat
  BY DEF Typed
<1>4. X \subseteq X2 /\ A \subseteq A2
  BY IdsKept
<1>5. Turn(w, x, r, g, m, q, X, A) <= AheadOf(c)
  OBVIOUS
<1> HIDE DEF r, g, m, q, X, A, X2, A2
<1>6. /\ Ahead(r, g, m, q, X, A) \in Nat
      /\ Turn(w, x, r, g, m, q, X2, A2) \in Nat /\ Turn(w, x, r, g, m, q, X, A) \in Nat
      /\ Turn(w, x, r, g, m, q, X2, A2) <= Turn(w, x, r, g, m, q, X, A)
  <2>1. CASE w = "change"
    BY <1>2, <1>4, <2>1, AheadIs, AheadMonotone DEF Turn
  <2>2. CASE w = "timer"
    BY <1>2, <1>4, <2>2, AheadIs, AheadMonotone DEF Turn
  <2>3. CASE w = "poll"
    BY <1>2, <1>4, <2>3, AheadIs, AheadMonotone DEF Turn
  <2> QED
    BY <2>1, <2>2, <2>3 DEF Ways
<1>7. events' - events = 0
  BY <1>3
<1> QED
  BY <1>1, <1>3, <1>5, <1>6, <1>7 DEF Paid

LEMMA PaidByGoing ==
  ASSUME Typed, Fits, Typed', NEW c \in Records, Kind(c) = "image", Steady(c), NEW w \in Ways, NEW th, NEW x,
         th = task[<<c, w>>], Busy(<<c, w>>), Head(th.todo) \notin {"patch", "release", "look", "drop"},
         task' = [task EXCEPT ![<<c, w>>] = x], cr'[c] = cr[c],
         imports'[c] = imports[c], events' = events, Kept(stock, stock', cr[c].spec.name),
         x.fn = th.fn, x.spec = th.spec,
         th.fn \in {"update", "look"} => Stage(x) = "patch",
         th.fn \in {"create", "recreate"} => x.todo = Tail(th.todo) /\ (x.end = th.end \/ th.spec.external),
         th.fn = "recreate" /\ Head(th.todo) # "find" => x.id = th.id,
         th.fn = "recreate" /\ Head(th.todo) = "find" =>
           IF IdsOf(stock, cr[c].spec.name) = {} THEN x.id = 0 ELSE x.id \in IdsOf(stock, cr[c].spec.name)
  PROVE  Paid(c)
<1> DEFINE r == cr[c]
           g == task[<<c, "change">>]
           m == task[<<c, "timer">>]
           q == task[<<c, "poll">>]
           X == IdsOf(stock, r.spec.name)
           A == ActiveIdsOf(stock, r.spec.name)
<1>1. AheadOf(c) = Ahead(r, g, m, q, X, A)
  BY DEF AheadOf
<1>2. Sound(r, q)
  BY SoundFits DEF Fits, Ways
<1>3. x \in Thread /\ th \in Thread /\ th.todo # <<>>
  <2>1. task'[<<c, w>>] = x
    BY ThreadsAre DEF Typed
  <2> QED
    BY <2>1, ThreadsAre, ImageIs DEF Typed
<1>4. 0 \notin X /\ A \subseteq X
  BY IdsAre
<1>5. Turn(w, x, r, g, m, q, X, A) <= AheadOf(c) /\ w # "poll"
  <2>1. CASE w = "change"
    <3>1. g = th /\ ChangeFits(g, r)
      BY <2>1, ImageIs
    <3>2. g.fn \in {"create", "update", "delete"}
      BY <3>1 DEF ChangeFits
    <3> HIDE DEF r, g, m, q, X, A
    <3>3. Ahead(r, x, m, q, X, A) <= Ahead(r, g, m, q, X, A)
      BY <1>2, <1>3, <3>1, <3>2, ChangeGoes DEF On
    <3> QED
      BY <1>1, <2>1, <3>3 DEF Turn
  <2>2. CASE w = "timer"
    <3>1. m = th /\ TimerFits(m, stock)
      BY <2>2, ImageIs
    <3>2. m.fn \in {"look", "recreate"}
      BY <3>1 DEF TimerFits
    <3>3. m.fn = "recreate" /\ Head(m.todo) = "find" => IF X = {} THEN x.id = 0 ELSE x.id \in X
      BY <3>1
    <3> HIDE DEF r, g, m, q, X, A
    <3>4. Ahead(r, g, x, q, X, A) <= Ahead(r, g, m, q, X, A)
      BY <1>2, <1>3, <1>4, <3>1, <3>2, <3>3, TimerGoes DEF On
    <3> QED
      BY <1>1, <2>2, <3>4 DEF Turn
  <2>3. CASE w = "poll"
    <3>1. PollFits(th, r)
      BY <2>3, ImageIs
    <3> QED
      BY <3>1, ShortTodos DEF PollFits
  <2> QED
    BY <2>1, <2>2, <2>3 DEF Ways
<1> QED
  BY <1>5, PaidByTurn

LEMMA HeadsAre ==
  ASSUME NEW w, NEW th, NEW r, NEW S, ImageFits(w, th, r, S), th.todo # <<>>
  PROVE  /\ th.fn = "update" => Head(th.todo) \in {"settings", "patch"}
         /\ th.fn = "look" => Head(th.todo) \in {"look", "settings", "patch"}
         /\ th.fn \in {"update", "look"} /\ Head(th.todo) = "settings" => Tail(th.todo) = <<"patch">>
         /\ th.fn \in {"create", "recreate"} => Head(th.todo) \in MakeSteps
         /\ th.fn = "poll" => Head(th.todo) \in {"look", "drop", "patch"}
         /\ th.fn \in {"create", "recreate"} /\ Head(th.todo) = "make" => Making(th)
         /\ th.fn \in {"create", "recreate"} /\ Head(th.todo) = "blob" => th.todo[3] # "delist"
<1>1. Making(th) => /\ Head(th.todo) \in MakeSteps
                    /\ Head(th.todo) = "blob" => th.todo[3] # "delist"
  BY MakeTodoIs DEF Making
<1>2. Finding(th) => Head(th.todo) \in {"find", "patch"}
  BY ShortTodos DEF Finding, FindTodos
<1>3. ASSUME ChangeFits(th, r), th.fn = "update"
      PROVE  Head(th.todo) \in {"settings", "patch"} /\ (Head(th.todo) = "settings" => Tail(th.todo) = <<"patch">>)
  BY <1>3, ShortTodos DEF ChangeFits
<1>4. ASSUME TimerFits(th, S), th.fn = "look"
      PROVE  Head(th.todo) \in {"look", "settings", "patch"}
             /\ (Head(th.todo) = "settings" => Tail(th.todo) = <<"patch">>)
  BY <1>4, ShortTodos DEF TimerFits
<1>5. ASSUME PollFits(th, r)
      PROVE  Head(th.todo) \in {"look", "drop", "patch"} /\ th.fn = "poll"
  BY <1>5, ShortTodos DEF PollFits
<1>6. ChangeFits(th, r) => th.fn \in {"create", "update", "delete"} /\ (th.fn = "create" => Making(th) \/ Finding(th))
  BY DEF ChangeFits
<1>7. TimerFits(th, S) => th.fn \in {"look", "recreate"} /\ (th.fn = "recreate" => Making(th) \/ Finding(th))
  BY DEF TimerFits
<1> QED
  BY <1>1, <1>2, <1>3, <1>4, <1>5, <1>6, <1>7 DEF ImageFits, MakeSteps

LEMMA FindPaid ==
  ASSUME Typed, Fits, NEW c \in Records, Kind(c) = "image", Steady(c), NEW w \in Ways, Find(<<c, w>>)
  PROVE  Paid(c)
<1> DEFINE t == <<c, w>>
           th == task[t]
           found == ByName(th.kind, th.spec.name)
           n == cr[c].spec.name
<1>1. Busy(t) /\ Head(th.todo) = "find" /\ Typed' /\ Kept(stock, stock', n)
  BY FindFits DEF Find, At
<1>2. /\ th \in Thread /\ th.todo # <<>> /\ th.spec.name = n /\ th.kind = "image"
      /\ ImageFits(w, th, cr[c], stock)
  BY <1>1, ImageIs
<1>3. cr' = cr /\ imports' = imports /\ events' = events
  BY DEF Find, KeepRecords
<1>4. th.fn \notin {"update", "look"}
  BY <1>1, <1>2, HeadsAre
<1>5. \A r \in found : r.id \in IdsOf(stock, n)
  BY <1>2 DEF IdsOf, Images, ByName
<1>6. found = {} => IdsOf(stock, n) = {}
  BY <1>2 DEF IdsOf, Images, ByName
<1>7. CASE found = {}
  <2> DEFINE e == IF th.spec.external THEN "missing" ELSE th.end
             x == [th EXCEPT !.todo = Tail(th.todo), !.id = 0, !.end = e]
  <2>1. task' = [task EXCEPT ![t] = x]
    BY <1>7 DEF Find, Rest, Typed
  <2>2. e = th.end \/ th.spec.external
    OBVIOUS
  <2> HIDE DEF e
  <2>3. x.todo = Tail(th.todo) /\ x.id = 0 /\ x.end = e /\ x.fn = th.fn /\ x.spec = th.spec
    BY <1>2 DEF Thread
  <2>4. IdsOf(stock, n) = {}
    BY <1>6, <1>7
  <2> HIDE DEF x, found
  <2> QED
    BY <1>1, <1>2, <1>3, <1>4, <2>1, <2>2, <2>3, <2>4, PaidByGoing
<1>8. CASE found # {}
  <2>1. PICK r \in found : task' = [task EXCEPT ![t].todo = Rest(t), ![t].id = r.id, ![t].seen = Seen(r)]
    BY <1>8 DEF Find
  <2> DEFINE x == [th EXCEPT !.todo = Tail(th.todo), !.id = r.id, !.seen = Seen(r)]
  <2>2. task' = [task EXCEPT ![t] = x]
    BY <2>1 DEF Rest, Typed
  <2>3. x.todo = Tail(th.todo) /\ x.id = r.id /\ x.end = th.end /\ x.fn = th.fn /\ x.spec = th.spec
    BY <1>2 DEF Thread
  <2>4. x.id \in IdsOf(stock, n)
    BY <1>5, <2>3
  <2> HIDE DEF x, found
  <2> QED
    BY <1>1, <1>2, <1>3, <1>4, <2>2, <2>3, <2>4, PaidByGoing
<1> QED
  BY <1>7, <1>8

LEMMA SettingsPaid ==
  ASSUME Typed, Fits, NEW c \in Records, Kind(c) = "image", Steady(c), NEW w \in Ways, Settings(<<c, w>>)
  PROVE  Paid(c)
<1> DEFINE t == <<c, w>>
           th == task[t]
           n == cr[c].spec.name
           x == [th EXCEPT !.todo = Tail(th.todo)]
           y == [th EXCEPT !.todo = <<"patch">>, !.end = "failed"]
<1>1. Busy(t) /\ Head(th.todo) = "settings" /\ Typed' /\ Kept(stock, stock', n)
  BY SettingsFits DEF Settings, At
<1>2. th \in Thread /\ th.todo # <<>> /\ ImageFits(w, th, cr[c], stock)
  BY <1>1, ImageIs
<1>3. cr' = cr /\ imports' = imports /\ events' = events
  BY DEF Settings, KeepRecords
<1>4. th.fn \notin {"create", "recreate", "poll"} /\ (th.fn \in {"update", "look"} => Tail(th.todo) = <<"patch">>)
  BY <1>1, <1>2, HeadsAre DEF MakeSteps
<1>5. x.fn = th.fn /\ x.spec = th.spec /\ (th.fn \in {"update", "look"} => Stage(x) = "patch")
  <2>1. x.todo = Tail(th.todo) /\ x.fn = th.fn /\ x.spec = th.spec
    BY <1>2 DEF Thread
  <2> HIDE DEF x
  <2> QED
    BY <1>4, <2>1, ShortTodos DEF Stage
<1>6. y.fn = th.fn /\ y.spec = th.spec /\ Stage(y) = "patch"
  <2>1. y.todo = <<"patch">> /\ y.fn = th.fn /\ y.spec = th.spec
    BY <1>2 DEF Thread
  <2> HIDE DEF y
  <2> QED
    BY <2>1, ShortTodos DEF Stage
<1>7. \/ task' = [task EXCEPT ![t] = x]
      \/ task' = [task EXCEPT ![t] = Failed(t, th)]
  BY DEF Settings, Next1, Rest, Typed
<1> HIDE DEF x
<1>8. CASE task' = [task EXCEPT ![t] = x]
  BY <1>1, <1>2, <1>3, <1>4, <1>5, <1>8, PaidByGoing
<1>9. CASE task' = [task EXCEPT ![t] = Failed(t, th)] /\ th.fn # "delete"
  <2>1. th.fn \in {"update", "look"}
    BY <1>2, <1>4, <1>9 DEF ImageFits, ChangeFits, TimerFits, PollFits
  <2>2. Failed(t, th) = y
    BY <2>1 DEF Failed
  <2> HIDE DEF y
  <2> QED
    BY <1>1, <1>2, <1>3, <1>4, <1>6, <1>9, <2>2, PaidByGoing
<1>10. CASE th.fn = "delete"
  <2>1. w = "change" /\ th.todo \in Seq(DeleteSteps)
    BY <1>2, <1>10 DEF ImageFits, ChangeFits, TimerFits, PollFits
  <2> QED
    BY <1>1, <1>2, <2>1, HeadTail DEF DeleteSteps
<1> QED
  BY <1>7, <1>8, <1>9, <1>10

\* What a step of a thread makes, and what is ahead then, is what was ahead or is due
\* to an event.
LEMMA PaidBySum ==
  ASSUME Typed, Fits, NEW c \in Records, NEW w \in Ways, NEW x, NEW k \in 0..1, NEW e \in 0..1,
         task' = [task EXCEPT ![<<c, w>>] = x], cr'[c] = cr[c],
         imports'[c] = imports[c] + k, events' = events + e,
         w = "poll" => Sound(cr[c], x),
         Turn(w, x, cr[c], task[<<c, "change">>], task[<<c, "timer">>], task[<<c, "poll">>],
              IdsOf(stock', cr[c].spec.name), ActiveIdsOf(stock', cr[c].spec.name)) + k
           <= AheadOf(c) + 4 * e
  PROVE  Paid(c)
<1>1. AheadOf(c)' = Turn(w, x, cr[c], task[<<c, "change">>], task[<<c, "timer">>], task[<<c, "poll">>],
                         IdsOf(stock', cr[c].spec.name), ActiveIdsOf(stock', cr[c].spec.name))
  BY AheadTurns
<1>2. imports[c] \in Nat /\ events \in Nat
  BY DEF Typed
<1>3. AheadOf(c) \in Nat
  BY SoundFits, AheadIs DEF Fits, Ways, AheadOf
<1>4. AheadOf(c)' \in Nat
  <2>1. Sound(cr[c], task[<<c, "poll">>])
    BY SoundFits DEF Fits, Ways
  <2> QED
    BY <1>1, <2>1, AheadIs DEF Turn, Ways
<1>5. imports'[c] \in Nat /\ events' - events = e
  BY <1>2
<1> QED
  BY <1>1, <1>2, <1>3, <1>4, <1>5 DEF Paid

\* A thread of an image that is to make it, as it goes on, and as it fails.
LEMMA MakeStage ==
  ASSUME NEW w \in Ways, NEW th \in Thread, NEW r, NEW S, ImageFits(w, th, r, S), th.todo # <<>>,
         Head(th.todo) = "make"
  PROVE  /\ \/ w = "change" /\ th.fn = "create"
            \/ w = "timer" /\ th.fn = "recreate"
         /\ Making(th) /\ ~th.spec.external /\ th.end = "ok" /\ Stage(th) = "make"
         /\ \A x \in Thread : On(th, x) => Stage(x) = "blob"
<1>1. th.fn \notin {"update", "look", "poll"}
  BY HeadsAre
<1>2. th.fn # "delete"
  <2> SUFFICES ASSUME th.fn = "delete" PROVE FALSE
    OBVIOUS
  <2>1. th.todo \in Seq(DeleteSteps)
    BY DEF ImageFits, ChangeFits, TimerFits, PollFits
  <2> QED
    BY <2>1, HeadTail DEF DeleteSteps
<1>3. (w = "change" /\ th.fn = "create") \/ (w = "timer" /\ th.fn = "recreate")
  BY <1>1, <1>2 DEF ImageFits, ChangeFits, TimerFits, PollFits
<1>4. Making(th)
  BY <1>3, HeadsAre
<1>5. Stage(th) = "make"
  BY StageIs
<1>6. \A x \in Thread : On(th, x) => Stage(x) = "blob"
  BY <1>4, <1>5, MakingGoes DEF Follows
<1>7. ~th.spec.external /\ th.end = "ok"
  BY <1>4 DEF Making
<1> QED
  BY <1>3, <1>4, <1>5, <1>6, <1>7

\* The ids in the hands of a record and of a thread that is up are not new.
LEMMA IdsInHand ==
  ASSUME Typed, Fits, NEW c \in Records
  PROVE  /\ cr[c].id \in 0..ids
         /\ \A w \in Ways : task[<<c, w>>].todo # <<>> => task[<<c, w>>].id \in 0..ids
<1>1. cr[c].id \in 0..ids
  BY DEF Fits, RecordFits, Named
<1>2. ASSUME NEW w \in Ways, task[<<c, w>>].todo # <<>>
      PROVE  task[<<c, w>>].id \in 0..ids
  BY <1>2, BusyHeld DEF WorkFits, Named
<1> QED
  BY <1>1, <1>2

LEMMA MadePaid ==
  ASSUME Typed, Fits, Typed', NEW c \in Records, Kind(c) = "image", Steady(c), NEW w \in Ways, NEW th, NEW x, NEW e \in 0..1,
         th = task[<<c, w>>], Busy(<<c, w>>), Head(th.todo) = "make", th.id = 0,
         task' = [task EXCEPT ![<<c, w>>] = x], cr'[c] = cr[c], Kept(stock, stock', cr[c].spec.name),
         imports'[c] = imports[c] + 1, events' = events + e, x.fn = th.fn, x.spec = th.spec,
         \/ /\ x.todo = Tail(th.todo) /\ x.end = th.end
            /\ x.id > ids /\ x.id \in IdsOf(stock', cr[c].spec.name)
         \/ e = 1 /\ x.todo = <<"patch">>
  PROVE  Paid(c)
<1> DEFINE r == cr[c]
           g == task[<<c, "change">>]
           m == task[<<c, "timer">>]
           q == task[<<c, "poll">>]
           X == IdsOf(stock, r.spec.name)
           A == ActiveIdsOf(stock, r.spec.name)
           X2 == IdsOf(stock', r.spec.name)
           A2 == ActiveIdsOf(stock', r.spec.name)
<1>1. AheadOf(c) = Ahead(r, g, m, q, X, A)
  BY DEF AheadOf
<1>2. Sound(r, q)
  BY SoundFits DEF Fits, Ways
<1>3. X \subseteq X2 /\ A \subseteq A2
  BY IdsKept
<1>4. x \in Thread /\ th \in Thread /\ th.todo # <<>> /\ q \in Thread
  <2>1. task'[<<c, w>>] = x
    BY ThreadsAre DEF Typed
  <2> QED
    BY <2>1, ThreadsAre, ImageIs DEF Typed, Ways
<1>5. ImageFits(w, th, r, stock)
  BY ImageIs
<1>6. /\ \/ w = "change" /\ th.fn = "create"
         \/ w = "timer" /\ th.fn = "recreate"
      /\ ~th.spec.external /\ th.end = "ok" /\ Stage(th) = "make"
      /\ x.todo = Tail(th.todo) => Stage(x) = "blob"
  <2> HIDE DEF r
  <2> QED
    BY <1>4, <1>5, MakeStage DEF On
<1>7. x.todo = <<"patch">> => Stage(x) = "patch"
  BY <1>4, StageIs, ShortTodos
<1>8. Stage(x) \in {"blob", "patch"}
  BY <1>6, <1>7
<1>9. Makes(th) /\ ~Makes(x)
  BY <1>6, <1>8 DEF Makes
<1>10. ids \in Nat /\ r.id \in 0..ids /\ (Stage(q) = "idle" \/ q.id \in 0..ids)
  <2>1. ids \in Nat
    BY DEF Typed, Stocked
  <2>2. q.todo # <<>> => q.id \in 0..ids
    BY IdsInHand DEF Ways
  <2>3. Stage(q) = "idle" <=> q.todo = <<>>
    BY <1>4, StageIs
  <2> QED
    BY <2>1, <2>2, <2>3, IdsInHand
<1>11. x.id > ids /\ x.id \in X2 => x.id # r.id /\ (Stage(q) = "idle" \/ x.id # q.id)
  BY <1>10
<1>12. g = th \/ w # "change"
  OBVIOUS
<1>13. m = th \/ w # "timer"
  OBVIOUS
<1>14. \/ x.todo = Tail(th.todo) /\ x.end = "ok" /\ x.id > ids /\ x.id \in X2
       \/ e = 1
  BY <1>6
<1> HIDE DEF r, g, m, q, X, A, X2, A2
<1>15. Turn(w, x, r, g, m, q, X2, A2) + 1 <= Ahead(r, g, m, q, X, A) + 4 * e
  <2>1. CASE w = "change"
    <3>1. Changes(g) /\ Changes(x)
      BY <1>6, <1>8, <1>12, <2>1 DEF Changes
    <3>2. Ahead(r, x, m, q, X2, A2) <= Ahead(r, x, m, q, X, A)
      BY <1>2, <1>3, AheadMonotone
    <3>3. Ahead(r, x, m, q, X, A) <= Ahead(r, g, m, q, X, A) + 1
      BY <1>2, <1>9, <1>12, <2>1, <3>1, AheadOfFailing
    <3>4. x.todo = Tail(th.todo) /\ x.end = "ok" => Ahead(r, x, m, q, X, A) + 1 <= Ahead(r, g, m, q, X, A)
      BY <1>2, <1>6, <1>9, <1>12, <2>1, AheadOfMaking
    <3>5. Ahead(r, x, m, q, X2, A2) \in Nat /\ Ahead(r, x, m, q, X, A) \in Nat /\ Ahead(r, g, m, q, X, A) \in Nat
      BY <1>2, AheadIs
    <3> QED
      BY <1>14, <2>1, <3>2, <3>3, <3>4, <3>5 DEF Turn
  <2>2. CASE w = "timer"
    <3>1. Remakes(m) /\ Remakes(x)
      BY <1>6, <1>8, <1>13, <2>2 DEF Remakes
    <3>2. Ahead(r, g, x, q, X2, A2) <= Ahead(r, g, m, q, X, A) + 1
      BY <1>2, <1>3, <1>6, <1>8, <1>9, <1>13, <2>2, AheadOfBusy
    <3>3. x.todo = Tail(th.todo) /\ x.end = "ok" /\ x.id > ids /\ x.id \in X2
          => Ahead(r, g, x, q, X2, A2) + 1 <= Ahead(r, g, m, q, X, A)
      BY <1>2, <1>3, <1>6, <1>11, <1>13, <2>2, <3>1, AheadOfMakingAgain
    <3>4. Ahead(r, g, x, q, X2, A2) \in Nat /\ Ahead(r, g, m, q, X, A) \in Nat
      BY <1>2, AheadIs
    <3> QED
      BY <1>14, <2>2, <3>2, <3>3, <3>4 DEF Turn
  <2> QED
    BY <1>6, <2>1, <2>2
<1>16. w # "poll" /\ 1 \in 0..1
  BY <1>6
<1>17. Turn(w, x, r, g, m, q, X2, A2) + 1 <= AheadOf(c) + 4 * e
  BY <1>1, <1>15
<1> QED
  BY <1>16, <1>17, PaidBySum DEF r, g, m, q, X2, A2

LEMMA MakePaid ==
  ASSUME Typed, Fits, NEW c \in Records, Kind(c) = "image", Steady(c), NEW w \in Ways, Make(<<c, w>>)
  PROVE  Paid(c)
<1> DEFINE t == <<c, w>>
           th == task[t]
           n == cr[c].spec.name
           new == NewRow(ids + 1, th.kind, th.spec, TRUE)
           To(i) == [th EXCEPT !.todo = Tail(th.todo), !.id = i, !.seen = "queued"]
           y == [th EXCEPT !.todo = <<"patch">>, !.end = "failed"]
<1>1. Busy(t) /\ Head(th.todo) = "make" /\ Typed' /\ Kept(stock, stock', n)
  BY MakeFits DEF Make, At
<1>2. /\ th \in Thread /\ th.todo # <<>> /\ th.spec.name = n /\ th.kind = "image" /\ th.cr = c
      /\ ImageFits(w, th, cr[c], stock)
  BY <1>1, ImageIs
<1>3. cr' = cr /\ plan' = plan
  BY DEF Make
<1>4. th.fn \in {"create", "recreate"} /\ Making(th)
  BY <1>1, <1>2, MakeStage
<1>5. CASE th.id # 0
  <2> DEFINE x == [th EXCEPT !.todo = Tail(th.todo)]
  <2>1. task' = [task EXCEPT ![t] = x] /\ UNCHANGED <<events, imports>>
    BY <1>5 DEF Make, Next1, Rest, Typed
  <2>2. x.todo = Tail(th.todo) /\ x.fn = th.fn /\ x.spec = th.spec /\ x.end = th.end /\ x.id = th.id
    BY <1>2 DEF Thread
  <2> HIDE DEF x
  <2> QED
    BY <1>1, <1>2, <1>3, <1>4, <2>1, <2>2, PaidByGoing
<1>6. CASE th.id = 0
  <2>1. /\ ids + 2 <= MaxIds /\ imports' = [imports EXCEPT ![th.cr] = @ + 1]
        /\ \/ /\ stock' = stock \cup {new}
              /\ task' = [task EXCEPT ![t].todo = Rest(t), ![t].id = ids + 1,
                            ![t].seen = IF th.kind = "image" THEN "queued" ELSE @]
              /\ UNCHANGED events
           \/ /\ Fault
              /\ task' = [task EXCEPT ![t] = Failed(t, @)]
           \/ /\ Fault
              /\ stock' = stock \cup Repeated(new)
              /\ task' = [task EXCEPT ![t].todo = Rest(t), ![t].id = ids + 2,
                            ![t].seen = IF th.kind = "image" THEN "queued" ELSE @]
    BY <1>2, <1>6 DEF Make, Unique
  <2>2. imports'[c] = imports[c] + 1
    BY <1>2, <2>1 DEF Typed
  <2>3. ids \in Nat /\ events \in Nat
    BY DEF Typed, Stocked
  <2>4. ASSUME NEW i \in {ids + 1, ids + 2}, NEW e \in 0..1, events' = events + e,
               task' = [task EXCEPT ![t].todo = Rest(t), ![t].id = i,
                          ![t].seen = IF th.kind = "image" THEN "queued" ELSE @],
               NEW u \in stock', u.id = i, u.kind = "image", u.name = n
        PROVE  Paid(c)
    <3> DEFINE x == To(i)
    <3>1. task' = [task EXCEPT ![t] = x]
      BY <1>2, <2>4 DEF Rest, Typed
    <3>2. x.todo = Tail(th.todo) /\ x.fn = th.fn /\ x.spec = th.spec /\ x.end = th.end /\ x.id = i
      BY <1>2 DEF Thread
    <3>3. i > ids /\ i \in IdsOf(stock', n)
      BY <2>3, <2>4 DEF IdsOf, Images
    <3> HIDE DEF x
    <3> QED
      BY <1>1, <1>2, <1>3, <1>6, <2>2, <2>4, <3>1, <3>2, <3>3, MadePaid
  <2>5. new.id = ids + 1 /\ new.kind = "image" /\ new.name = n
    BY <1>2 DEF NewRow
  <2>6. CASE stock' = stock \cup {new} /\ events' = events
             /\ task' = [task EXCEPT ![t].todo = Rest(t), ![t].id = ids + 1,
                           ![t].seen = IF th.kind = "image" THEN "queued" ELSE @]
    <3>1. new \in stock' /\ events' = events + 0
      BY <2>3, <2>6
    <3> HIDE DEF new, th, t, n
    <3>2. 0 \in 0..1
      OBVIOUS
    <3> QED
      BY <2>4, <2>5, <2>6, <3>1, <3>2
  <2>7. CASE Fault /\ stock' = stock \cup Repeated(new)
             /\ task' = [task EXCEPT ![t].todo = Rest(t), ![t].id = ids + 2,
                           ![t].seen = IF th.kind = "image" THEN "queued" ELSE @]
    <3> DEFINE u == [new EXCEPT !.id = @ + 1]
    <3>1. u \in stock' /\ events' = events + 1
      BY <2>7 DEF Fault, Event, Repeated
    <3>2. u.id = ids + 2 /\ u.kind = "image" /\ u.name = n
      BY <1>2, <2>3 DEF NewRow
    <3> HIDE DEF u, new, th, t, n
    <3>3. 1 \in 0..1
      OBVIOUS
    <3> QED
      BY <2>4, <2>7, <3>1, <3>2, <3>3
  <2>8. CASE Fault /\ task' = [task EXCEPT ![t] = Failed(t, @)]
    <3>1. task' = [task EXCEPT ![t] = y] /\ events' = events + 1
      BY <1>4, <2>8 DEF Failed, Fault, Event, Typed
    <3>2. y.todo = <<"patch">> /\ y.fn = th.fn /\ y.spec = th.spec
      BY <1>2 DEF Thread
    <3> HIDE DEF y
    <3>3. 1 \in 0..1
      OBVIOUS
    <3> QED
      BY <1>1, <1>2, <1>3, <1>6, <2>2, <3>1, <3>2, <3>3, MadePaid
  <2> HIDE DEF new
  <2> QED
    BY <2>1, <2>6, <2>7, <2>8
<1> QED
  BY <1>5, <1>6

\* The steps of the deletion, and those that write the registry.
LEMMA DeleteHeads ==
  ASSUME NEW w \in Ways, NEW th, NEW r, NEW S, ImageFits(w, th, r, S), th.todo # <<>>,
         Head(th.todo) \in {"erase", "blob", "whole", "enlist", "delist"}
  PROVE  /\ \/ w = "change" /\ th.fn = "delete" /\ r.at = "deleting"
            \/ th.fn \in {"create", "recreate"}
         /\ Head(th.todo) \in {"erase", "delist"} => th.fn = "delete"
         /\ th.fn = "delete" => w = "change" /\ r.at = "deleting"
<1>1. th.fn \notin {"update", "look", "poll"}
  BY HeadsAre
<1>2. th.fn \in {"create", "update", "delete", "look", "recreate", "poll"}
  BY DEF ImageFits, ChangeFits, TimerFits, PollFits
<1>3. th.fn = "delete" => w = "change" /\ r.at = "deleting"
  BY DEF ImageFits, ChangeFits, TimerFits, PollFits
<1>4. Head(th.todo) \in {"erase", "delist"} => th.fn \notin {"create", "recreate"}
  BY HeadsAre DEF MakeSteps
<1> QED
  BY <1>1, <1>2, <1>3, <1>4

LEMMA DeletePaid ==
  ASSUME Typed, Fits, NEW c \in Records, cr[c].at = "deleting", NEW x, NEW e \in 0..1,
         task' = [task EXCEPT ![<<c, "change">>] = x], cr'[c] = cr[c],
         imports'[c] = imports[c], events' = events + e, x.fn \in {"delete", "none"}
  PROVE  Paid(c)
<1> DEFINE r == cr[c]
           g == task[<<c, "change">>]
           m == task[<<c, "timer">>]
           q == task[<<c, "poll">>]
           X == IdsOf(stock, r.spec.name)
           A == ActiveIdsOf(stock, r.spec.name)
           X2 == IdsOf(stock', r.spec.name)
           A2 == ActiveIdsOf(stock', r.spec.name)
           w == "change"
<1>1. AheadOf(c) = Ahead(r, g, m, q, X, A)
  BY DEF AheadOf
<1>2. Sound(r, q)
  BY SoundFits DEF Fits, Ways
<1>3. r.at # "live" /\ ~Makes(x)
  BY DEF Makes
<1>4. imports'[c] = imports[c] + 0 /\ 0 \in 0..1
  BY DEF Typed
<1>5. w \in Ways /\ w # "poll" /\ task' = [task EXCEPT ![<<c, w>>] = x]
  BY DEF Ways
<1> HIDE DEF r, g, m, q, X, A, X2, A2
<1>6. Ahead(r, x, m, q, X2, A2) <= Ahead(r, x, m, q, X, A) /\ Ahead(r, x, m, q, X, A) <= Ahead(r, g, m, q, X, A)
  BY <1>2, <1>3, AheadOfDeletion, AheadAlone
<1>7. Ahead(r, x, m, q, X2, A2) \in Nat /\ Ahead(r, x, m, q, X, A) \in Nat /\ Ahead(r, g, m, q, X, A) \in Nat
  BY <1>2, AheadIs
<1>8. Turn(w, x, r, g, m, q, X2, A2) + 0 <= AheadOf(c) + 4 * e
  BY <1>1, <1>6, <1>7 DEF Turn
<1> HIDE DEF w
<1> QED
  BY <1>4, <1>5, <1>8, PaidBySum DEF r, g, m, q, X2, A2

LEMMA ErasePaid ==
  ASSUME Typed, Fits, NEW c \in Records, Kind(c) = "image", Steady(c), NEW w \in Ways, Erase(<<c, w>>)
  PROVE  Paid(c)
<1> DEFINE t == <<c, w>>
           th == task[t]
           x == [th EXCEPT !.todo = Tail(th.todo)]
<1>1. Busy(t) /\ Head(th.todo) = "erase"
  BY DEF Erase, At
<1>2. th \in Thread /\ th.todo # <<>> /\ ImageFits(w, th, cr[c], stock)
  BY <1>1, ImageIs
<1>3. w = "change" /\ th.fn = "delete" /\ cr[c].at = "deleting"
  <2> HIDE DEF th
  <2> QED
    BY <1>1, <1>2, DeleteHeads
<1>4. cr' = cr /\ imports' = imports /\ events \in Nat /\ 0 \in 0..1 /\ 1 \in 0..1
  BY DEF Erase, KeepRecords, Typed
<1>5. x.fn = "delete" /\ Failed(t, th).fn = "none"
  BY <1>2, <1>3 DEF Thread, Failed, Idle
<1>6. \/ task' = [task EXCEPT ![t] = x] /\ events' = events + 0
      \/ task' = [task EXCEPT ![t] = Failed(t, th)] /\ events' = events + 1
  BY <1>4 DEF Erase, Next1, Rest, Fault, Event, Typed
<1> HIDE DEF x, th
<1> QED
  BY <1>3, <1>4, <1>5, <1>6, DeletePaid

\* A step that changes no image.
LEMMA QuietPaid ==
  ASSUME Typed, Fits, Typed', NEW c \in Records, Kind(c) = "image", Steady(c), NEW w \in Ways, NEW th, NEW x,
         th = task[<<c, w>>], Busy(<<c, w>>), Head(th.todo) \in {"blob", "whole", "enlist", "delist"},
         task' = [task EXCEPT ![<<c, w>>] = x], cr' = cr, imports' = imports, events' = events, stock' = stock,
         x.fn = th.fn, x.spec = th.spec, x.end = th.end, x.id = th.id,
         th.fn # "delete" => x.todo = Tail(th.todo)
  PROVE  Paid(c)
<1>1. ImageFits(w, th, cr[c], stock) /\ th.todo # <<>>
  BY ImageIs
<1>2. \/ w = "change" /\ th.fn = "delete" /\ cr[c].at = "deleting"
      \/ th.fn \in {"create", "recreate"}
  BY <1>1, DeleteHeads
<1>3. CASE th.fn = "delete"
  <2>1. events' = events + 0 /\ 0 \in 0..1
    BY DEF Typed
  <2> QED
    BY <1>2, <1>3, <2>1, DeletePaid
<1>4. CASE th.fn # "delete"
  <2>1. Kept(stock, stock', cr[c].spec.name)
    BY SameKept
  <2> QED
    BY <1>2, <1>4, <2>1, PaidByGoing
<1> QED
  BY <1>3, <1>4

LEMMA ReadBlobPaid ==
  ASSUME Typed, Fits, NEW c \in Records, Kind(c) = "image", Steady(c), NEW w \in Ways, ReadBlob(<<c, w>>)
  PROVE  Paid(c)
<1> DEFINE t == <<c, w>>
           th == task[t]
           absent == th.todo[3] = "delist" /\ registry[th.kind][th.spec.name] = NoEntry
           b == IF absent THEN EmptyBlob ELSE registry[th.kind]
           td == IF absent THEN SubSeq(th.todo, 4, Len(th.todo)) ELSE Tail(th.todo)
           x == [th EXCEPT !.blob = b, !.todo = td]
<1>1. Busy(t) /\ Head(th.todo) = "blob" /\ Typed'
  BY ReadBlobFits DEF ReadBlob, At
<1>2. th \in Thread /\ th.todo # <<>> /\ ImageFits(w, th, cr[c], stock)
  BY <1>1, ImageIs
<1>3. task' = [task EXCEPT ![t] = x]
  BY DEF ReadBlob, Typed
<1>4. cr' = cr /\ imports' = imports /\ events' = events /\ stock' = stock
  BY DEF ReadBlob, KeepRecords, KeepCloud
<1>5. th.fn # "delete" => td = Tail(th.todo)
  <2>1. th.fn # "delete" => th.todo[3] # "delist"
    <3> HIDE DEF th
    <3> QED
      BY <1>1, <1>2, DeleteHeads, HeadsAre
  <2> QED
    BY <2>1
<1> HIDE DEF b, td
<1>6. x.fn = th.fn /\ x.spec = th.spec /\ x.end = th.end /\ x.id = th.id /\ x.todo = td
  BY <1>2 DEF Thread
<1> HIDE DEF x
<1> QED
  BY <1>1, <1>3, <1>4, <1>5, <1>6, QuietPaid

LEMMA ReadWholePaid ==
  ASSUME Typed, Fits, NEW c \in Records, Kind(c) = "image", Steady(c), NEW w \in Ways, ReadWhole(<<c, w>>)
  PROVE  Paid(c)
<1> DEFINE t == <<c, w>>
           th == task[t]
           x == [th EXCEPT !.todo = Tail(th.todo), !.whole = registry]
<1>1. Busy(t) /\ Head(th.todo) = "whole" /\ Typed'
  BY ReadWholeFits DEF ReadWhole, At
<1>2. th \in Thread
  BY <1>1, ImageIs
<1>3. task' = [task EXCEPT ![t] = x]
  BY DEF ReadWhole, Rest, Typed
<1>4. cr' = cr /\ imports' = imports /\ events' = events /\ stock' = stock
  BY DEF ReadWhole, KeepRecords, KeepCloud
<1>5. x.fn = th.fn /\ x.spec = th.spec /\ x.end = th.end /\ x.id = th.id /\ x.todo = Tail(th.todo)
  BY <1>2 DEF Thread
<1> HIDE DEF x
<1> QED
  BY <1>1, <1>3, <1>4, <1>5, QuietPaid

LEMMA StorePaid ==
  ASSUME Typed, Fits, Typed', NEW c \in Records, Kind(c) = "image", Steady(c), NEW w \in Ways, NEW e,
         Store(<<c, w>>, e), Busy(<<c, w>>), Head(task[<<c, w>>].todo) \in {"enlist", "delist"}
  PROVE  Paid(c)
<1> DEFINE t == <<c, w>>
           th == task[t]
           x == [th EXCEPT !.todo = Tail(th.todo), !.blob = EmptyBlob, !.whole = NoRegistry]
<1>1. th \in Thread
  BY ImageIs
<1>2. task' = [task EXCEPT ![t] = x]
  BY DEF Store, Rest, Typed
<1>3. cr' = cr /\ imports' = imports /\ events' = events /\ stock' = stock
  BY DEF Store, KeepCloud
<1>4. x.fn = th.fn /\ x.spec = th.spec /\ x.end = th.end /\ x.id = th.id /\ x.todo = Tail(th.todo)
  BY <1>1 DEF Thread
<1> HIDE DEF x
<1> QED
  BY <1>2, <1>3, <1>4, QuietPaid

LEMMA EnlistPaid ==
  ASSUME Typed, Fits, NEW c \in Records, Kind(c) = "image", Steady(c), NEW w \in Ways,
         Enlist(<<c, w>>) \/ Delist(<<c, w>>)
  PROVE  Paid(c)
<1>1. Typed' /\ Busy(<<c, w>>) /\ Head(task[<<c, w>>].todo) \in {"enlist", "delist"}
  BY EnlistFits, DelistFits DEF Enlist, Delist, At
<1>2. PICK e : Store(<<c, w>>, e)
  BY DEF Enlist, Delist
<1> QED
  BY <1>1, <1>2, StorePaid

LEMMA LookPaid ==
  ASSUME Typed, Fits, NEW c \in Records, Kind(c) = "image", Steady(c), NEW w \in Ways, Look(<<c, w>>)
  PROVE  Paid(c)
<1> DEFINE t == <<c, w>>
           th == task[t]
           r == cr[c]
           g == task[<<c, "change">>]
           q == task[<<c, "poll">>]
           X == IdsOf(stock, r.spec.name)
           A == ActiveIdsOf(stock, r.spec.name)
<1>1. Busy(t) /\ Head(th.todo) = "look" /\ th.fn = "look" /\ Typed'
  BY LookFits DEF Look, At
<1>2. th \in Thread /\ th.todo # <<>> /\ ImageFits(w, th, r, stock)
  BY <1>1, ImageIs
<1>3. w = "timer" /\ TimerFits(th, stock)
  BY <1>1, <1>2, ImageHeads
<1>4. Tail(th.todo) = <<"patch">>
  BY <1>1, <1>3, ShortTodos DEF TimerFits
<1>5. \E put, td : /\ task' = [task EXCEPT ![t] = [th EXCEPT !.put = put, !.todo = td]]
                   /\ td \in {<<"settings", "patch">>, <<"patch">>}
  <2> DEFINE named == ByName(th.kind, th.spec.name)
  <2>1. PICK found \in (IF named = {} THEN {{}} ELSE {{u} : u \in named}) :
               task' = [task EXCEPT ![t].put = Reconciled(th, found),
                          ![t].todo = IF Drifted(th, found) THEN <<"settings", "patch">> ELSE Rest(t)]
    BY DEF Look
  <2> DEFINE put == Reconciled(th, found)
             td == IF Drifted(th, found) THEN <<"settings", "patch">> ELSE Tail(th.todo)
  <2>2. task' = [task EXCEPT ![t] = [th EXCEPT !.put = put, !.todo = td]]
    BY <2>1 DEF Rest, Typed
  <2>3. td \in {<<"settings", "patch">>, <<"patch">>}
    BY <1>4
  <2> QED
    BY <2>2, <2>3
<1>6. PICK put, td : /\ task' = [task EXCEPT ![t] = [th EXCEPT !.put = put, !.todo = td]]
                     /\ td \in {<<"settings", "patch">>, <<"patch">>}
  BY <1>5
<1> DEFINE x == [th EXCEPT !.put = put, !.todo = td]
<1>7. x.fn = "look" /\ x.todo = td /\ task' = [task EXCEPT ![t] = x]
  BY <1>1, <1>2, <1>6 DEF Thread
<1>8. cr' = cr /\ imports' = imports /\ events' = events /\ stock' = stock
  BY DEF Look, KeepRecords, KeepCloud
<1> HIDE DEF x
<1>9. x \in Thread
  <2>1. task'[t] = x
    BY <1>7, ThreadsAre DEF Typed
  <2> QED
    BY <1>1, <2>1, ThreadsAre DEF Typed
<1>10. Stage(x) # "idle"
  BY <1>6, <1>7, <1>9, StageIs, ShortTodos
<1>11. Sound(r, q)
  BY SoundFits DEF Fits, Ways
<1>12. 0 \notin X /\ A \subseteq X /\ AheadOf(c) = Ahead(r, g, task[<<c, "timer">>], q, X, A)
  BY IdsAre DEF AheadOf
<1>13. task[<<c, "timer">>] = th
  BY <1>3
<1> HIDE DEF r, g, th, q, X, A
<1>14. Ahead(r, g, x, q, X, A) <= Ahead(r, g, th, q, X, A)
  BY <1>1, <1>2, <1>3, <1>7, <1>9, <1>10, <1>11, <1>12, TimerGoes
<1>15. Turn(w, x, r, g, th, q, X, A) <= AheadOf(c)
  BY <1>3, <1>12, <1>13, <1>14 DEF Turn
<1>16. Kept(stock, stock', cr[c].spec.name)
  BY <1>8, SameKept
<1>17. w # "poll"
  BY <1>3
<1> QED
  BY <1>7, <1>8, <1>13, <1>15, <1>16, <1>17, PaidByTurn DEF r, g, q, X, A

\* What poll_image_status decides, and what is known of the image then.
LEMMA PollDecides ==
  ASSUME Typed, Fits, NEW c \in Records, Kind(c) = "image", Steady(c), NEW w \in Ways, Poll(<<c, w>>)
  PROVE  \E put, td :
           /\ task' = [task EXCEPT ![<<c, w>>] = [task[<<c, w>>] EXCEPT !.todo = td, !.put = put]]
           /\ \/ /\ td = <<"patch">> /\ put.tries = -1
                 /\ put.phase = "Ready" => ActiveIdsOf(stock, cr[c].spec.name) # {}
              \/ /\ td = <<"drop", "patch">> /\ put = Retried(task[<<c, w>>])
                 /\ task[<<c, w>>].id \notin ActiveIdsOf(stock, cr[c].spec.name)
<1> DEFINE t == <<c, w>>
           th == task[t]
           n == cr[c].spec.name
           found == ById(th.id)
           s == CHOOSE s \in found : TRUE
           state == Seen(s)
           stuck == found # {} /\ state = "queued" /\ th.began = 2
           td == IF stuck THEN <<"drop", "patch">> ELSE Tail(th.todo)
           seen == CASE state = "active" -> [Same EXCEPT !.phase = "Ready"]
                     [] state = "killed" -> [Same EXCEPT !.phase = "Error"]
                     [] state = "busy" -> Same
                     [] state = "queued" -> [Same EXCEPT !.began = IF th.began = 0 THEN 1 ELSE -1]
           put == IF found = {} THEN Lost ELSE IF stuck THEN Retried(th) ELSE seen
<1>1. Busy(t) /\ Head(th.todo) = "look" /\ th.fn = "poll"
  BY DEF Poll, At
<1>2. th \in Thread /\ th.todo # <<>> /\ ImageFits(w, th, cr[c], stock) /\ Named(th.id, "image", {n}, stock, ids)
  BY <1>1, ImageIs
<1>3. PollFits(th, cr[c])
  BY <1>1, <1>2, ImageHeads
<1>4. Tail(th.todo) = <<"patch">>
  BY <1>1, <1>3, ShortTodos DEF PollFits
<1>5. task' = [task EXCEPT ![t] = [th EXCEPT !.todo = td, !.put = put]]
  <2>1. task' = [task EXCEPT ![t].todo = td, ![t].put = put]
    BY DEF Poll, Rest
  <2> HIDE DEF td, put
  <2> QED
    BY <2>1 DEF Typed
<1>6. found # {} => s \in found /\ s \in stock /\ s.id = th.id /\ s.kind = "image" /\ s.name = n /\ s \in Row
                    /\ \A u \in stock : u.id = th.id => u = s
  <2>1. found # {} => s \in found
    OBVIOUS
  <2> HIDE DEF s
  <2> QED
    BY <1>2, <2>1 DEF ById, Named, Typed, Stocked
<1>7. found # {} => state \in {"active", "killed", "queued", "busy"} /\ (state = "active" <=> s.state = "active")
  <2> HIDE DEF s
  <2> QED
    BY <1>6 DEF Seen, Row
<1>8. /\ [Same EXCEPT !.phase = "Ready"].tries = -1 /\ [Same EXCEPT !.phase = "Error"].tries = -1
      /\ [Same EXCEPT !.phase = "Error"].phase = "Error"
      /\ \A b : [Same EXCEPT !.began = b].tries = -1 /\ [Same EXCEPT !.began = b].phase = "same"
      /\ Lost.tries = -1 /\ Lost.phase = "Pending"
  BY PutsAre DEF Same
<1>9. found # {} /\ ~stuck => seen.tries = -1 /\ (seen.phase = "Ready" => s.state = "active")
  <2> HIDE DEF s, found
  <2> QED
    BY <1>7, <1>8
<1>10. found # {} /\ s.state = "active" => ActiveIdsOf(stock, n) # {}
  <2> HIDE DEF s, found
  <2> QED
    BY <1>6 DEF ActiveIdsOf, Images
<1>11. found # {} /\ s.state # "active" => th.id \notin ActiveIdsOf(stock, n)
  <2> HIDE DEF s, found
  <2> QED
    BY <1>6 DEF ActiveIdsOf, Images
<1>12. ~stuck => td = <<"patch">> /\ put.tries = -1 /\ (put.phase = "Ready" => ActiveIdsOf(stock, n) # {})
  <2> HIDE DEF s, found, seen
  <2> QED
    BY <1>4, <1>8, <1>9, <1>10
<1>13. stuck => td = <<"drop", "patch">> /\ put = Retried(th) /\ th.id \notin ActiveIdsOf(stock, n)
  <2> HIDE DEF s, found, seen
  <2> QED
    BY <1>7, <1>11
<1> HIDE DEF td, put, stuck
<1> QED
  BY <1>5, <1>12, <1>13

LEMMA PollPaid ==
  ASSUME Typed, Fits, NEW c \in Records, Kind(c) = "image", Steady(c), NEW w \in Ways, Poll(<<c, w>>)
  PROVE  Paid(c)
<1> DEFINE t == <<c, w>>
           th == task[t]
           r == cr[c]
           g == task[<<c, "change">>]
           m == task[<<c, "timer">>]
           X == IdsOf(stock, r.spec.name)
           A == ActiveIdsOf(stock, r.spec.name)
<1>1. Busy(t) /\ Head(th.todo) = "look" /\ th.fn = "poll" /\ Typed' /\ Fits'
  BY PollStepFits DEF Poll, At
<1>2. th \in Thread /\ th.todo # <<>> /\ ImageFits(w, th, r, stock)
  BY <1>1, ImageIs
<1>3. w = "poll" /\ PollFits(th, r)
  BY <1>1, <1>2, ImageHeads
<1>4. th.put = Same /\ r.tries <= th.tries
  BY <1>1, <1>3, ShortTodos DEF PollFits
<1>5. PICK put, td :
           /\ task' = [task EXCEPT ![<<c, w>>] = [task[<<c, w>>] EXCEPT !.todo = td, !.put = put]]
           /\ \/ /\ td = <<"patch">> /\ put.tries = -1
                 /\ put.phase = "Ready" => ActiveIdsOf(stock, cr[c].spec.name) # {}
              \/ /\ td = <<"drop", "patch">> /\ put = Retried(task[<<c, w>>])
                 /\ task[<<c, w>>].id \notin ActiveIdsOf(stock, cr[c].spec.name)
  BY PollDecides
<1> DEFINE x == [th EXCEPT !.todo = td, !.put = put]
<1>6. x.todo = td /\ x.put = put /\ x.id = th.id /\ task' = [task EXCEPT ![t] = x]
  BY <1>2, <1>5 DEF Thread
<1>7. cr' = cr /\ imports' = imports /\ events' = events /\ stock' = stock
  BY DEF Poll, KeepRecords, KeepCloud
<1> HIDE DEF x
<1>8. task'[t] = x /\ x \in Thread
  <2>1. task'[t] = x
    BY <1>6, ThreadsAre DEF Typed
  <2> QED
    BY <1>1, <2>1, ThreadsAre DEF Typed
<1>9. Sound(r, th)
  BY <1>3, SoundFits DEF Fits, Ways
<1>10. Sound(r, x)
  <2>1. RecordFits(plan', c, cr'[c], stock', ids') /\ ThreadFits(plan', c, "poll", task'[t], cr'[c], stock', ids')
    BY <1>1, <1>3 DEF Fits
  <2> QED
    BY <1>7, <1>8, <2>1, SoundFits
<1>11. Stage(x) = "patch" \/ Stage(x) = "drop"
  BY <1>5, <1>6, <1>8, StageIs, ShortTodos
<1>12. Stage(x) = "patch" <=> td = <<"patch">>
  BY <1>5, <1>6, <1>8, StageIs, ShortTodos
<1>13. Stage(th) = "look"
  BY <1>1, <1>2, StageIs
<1>14. th.tries \in 0..3 /\ r.tries \in 0..3
  BY <1>2 DEF Thread, Typed, Record
<1>15. AheadOf(c) = Ahead(r, g, m, th, X, A)
  BY <1>3 DEF AheadOf
<1>16. \/ Stage(x) = "patch" /\ put.tries = -1 /\ (put.phase = "Ready" => A # {})
       \/ Stage(x) = "drop" /\ put = Retried(th) /\ th.id \notin A
  BY <1>5, <1>11, <1>12
<1>17. task[<<c, "poll">>] = th
  BY <1>3
<1> HIDE DEF r, g, m, th, X, A
<1>18. Ahead(r, g, m, x, X, A) <= Ahead(r, g, m, th, X, A)
  <2>1. CASE Stage(x) = "patch"
    BY <1>4, <1>6, <1>9, <1>10, <1>13, <1>16, <2>1, AheadOfSeen
  <2>2. CASE Stage(x) = "drop"
    <3>1. \/ put.tries > r.tries /\ put.phase = "Pending"
          \/ put.tries = -1 /\ put.phase = "Error"
      BY <1>4, <1>14, <1>16, <2>2, RetriedIs
    <3> QED
      BY <1>4, <1>6, <1>9, <1>10, <1>13, <1>16, <2>2, <3>1, AheadOfStuck
  <2> QED
    BY <1>11, <2>1, <2>2
<1>19. Turn(w, x, r, g, m, th, X, A) <= AheadOf(c)
  BY <1>3, <1>15, <1>18 DEF Turn
<1>20. Kept(stock, stock', cr[c].spec.name)
  BY <1>7, SameKept
<1>21. Turn(w, x, cr[c], task[<<c, "change">>], task[<<c, "timer">>], task[<<c, "poll">>],
            IdsOf(stock, cr[c].spec.name), ActiveIdsOf(stock, cr[c].spec.name)) <= AheadOf(c)
  BY <1>17, <1>19 DEF r, g, m, X, A
<1>22. Sound(cr[c], x)
  BY <1>10 DEF r
<1> QED
  BY <1>6, <1>7, <1>20, <1>21, <1>22, PaidByTurn

LEMMA DropPaid ==
  ASSUME Typed, Fits, NEW c \in Records, Kind(c) = "image", Steady(c), NEW w \in Ways, Drop(<<c, w>>)
  PROVE  Paid(c)
<1> DEFINE t == <<c, w>>
           th == task[t]
           r == cr[c]
           g == task[<<c, "change">>]
           m == task[<<c, "timer">>]
           X == IdsOf(stock, r.spec.name)
           A == ActiveIdsOf(stock, r.spec.name)
           X2 == IdsOf(stock', r.spec.name)
           A2 == ActiveIdsOf(stock', r.spec.name)
           x == [th EXCEPT !.todo = Tail(th.todo)]
<1>1. Busy(t) /\ Head(th.todo) = "drop" /\ Typed' /\ Fits'
  BY DropFits DEF Drop, At
<1>2. th \in Thread /\ th.todo # <<>> /\ ImageFits(w, th, r, stock)
  BY <1>1, ImageIs
<1>3. w = "poll" /\ PollFits(th, r)
  <2>1. th.fn \notin {"create", "recreate", "update", "look"}
    <3> HIDE DEF th, r
    <3> QED
      BY <1>1, <1>2, HeadsAre DEF MakeSteps
  <2>2. th.fn # "delete"
    <3> SUFFICES ASSUME th.fn = "delete" PROVE FALSE
      OBVIOUS
    <3>1. th.todo \in Seq(DeleteSteps)
      BY <1>2 DEF ImageFits, ChangeFits, TimerFits, PollFits
    <3> QED
      BY <1>1, <1>2, <3>1, HeadTail DEF DeleteSteps
  <2> QED
    BY <1>2, <2>1, <2>2 DEF ImageFits, ChangeFits, TimerFits
<1>4. th.todo = <<"drop", "patch">> /\ Tail(th.todo) = <<"patch">>
  BY <1>1, <1>3, ShortTodos DEF PollFits
<1>5. task' = [task EXCEPT ![t] = x] /\ cr' = cr /\ imports' = imports
  BY DEF Drop, Next1, Rest, KeepRecords, Typed
<1>6. x.todo = <<"patch">> /\ x.id = th.id /\ x.put = th.put
  BY <1>2, <1>4 DEF Thread
<1>7. \A s \in stock : s.id # th.id => s \in stock'
  BY DEF Drop, ById
<1>8. events' = events + 0 \/ events' = events + 1
  BY DEF Drop, Fault, Event, Typed
<1>9. PICK e \in 0..1 : events' = events + e
  BY <1>8
<1> HIDE DEF x
<1>10. task'[t] = x /\ x \in Thread
  <2>1. task'[t] = x
    BY <1>5, ThreadsAre DEF Typed
  <2> QED
    BY <1>1, <2>1, ThreadsAre DEF Typed
<1>11. Sound(r, th)
  BY <1>3, SoundFits DEF Fits, Ways
<1>12. Sound(r, x)
  <2>1. RecordFits(plan', c, cr'[c], stock', ids') /\ ThreadFits(plan', c, "poll", task'[t], cr'[c], stock', ids')
    BY <1>1, <1>3 DEF Fits
  <2> QED
    BY <1>5, <1>10, <2>1, SoundFits
<1>13. Stage(x) = "patch" /\ Stage(th) = "drop"
  BY <1>1, <1>2, <1>6, <1>10, StageIs, ShortTodos
<1>14. X \ {th.id} \subseteq X2 /\ A \ {th.id} \subseteq A2
  BY <1>7 DEF IdsOf, ActiveIdsOf, Images
<1>15. AheadOf(c) = Ahead(r, g, m, th, X, A)
  BY <1>3 DEF AheadOf
<1>16. task[<<c, "poll">>] = th
  BY <1>3
<1>17. imports'[c] = imports[c] + 0 /\ 0 \in 0..1
  BY <1>5 DEF Typed
<1> HIDE DEF r, g, m, th, X, A, X2, A2
<1>18. Ahead(r, g, m, x, X2, A2) <= Ahead(r, g, m, th, X, A)
  BY <1>6, <1>11, <1>12, <1>13, <1>14, AheadOfDrop
<1>19. Ahead(r, g, m, x, X2, A2) \in Nat /\ Ahead(r, g, m, th, X, A) \in Nat
  BY <1>11, <1>12, AheadIs
<1>20. Turn(w, x, r, g, m, th, X2, A2) + 0 <= AheadOf(c) + 4 * e
  BY <1>3, <1>15, <1>18, <1>19 DEF Turn
<1>21. Turn(w, x, cr[c], task[<<c, "change">>], task[<<c, "timer">>], task[<<c, "poll">>],
            IdsOf(stock', cr[c].spec.name), ActiveIdsOf(stock', cr[c].spec.name)) + 0 <= AheadOf(c) + 4 * e
  BY <1>16, <1>20 DEF r, g, m, X2, A2
<1>22. Sound(cr[c], x)
  BY <1>12 DEF r
<1> QED
  BY <1>5, <1>9, <1>17, <1>21, <1>22, PaidBySum

LEMMA FailPaid ==
  ASSUME Typed, Fits, NEW c \in Records, Kind(c) = "image", Steady(c), NEW w \in Ways, Fail(<<c, w>>)
  PROVE  Paid(c)
<1> DEFINE t == <<c, w>>
           th == task[t]
           r == cr[c]
           g == task[<<c, "change">>]
           m == task[<<c, "timer">>]
           q == task[<<c, "poll">>]
           X == IdsOf(stock, r.spec.name)
           A == ActiveIdsOf(stock, r.spec.name)
           x == Failed(t, th)
           y == [th EXCEPT !.todo = <<"patch">>, !.end = "failed"]
<1>1. Busy(t) /\ Typed' /\ Fits'
  BY FailFits DEF Fail
<1>2. th \in Thread /\ th.todo # <<>> /\ ImageFits(w, th, r, stock)
  BY <1>1, ImageIs
<1>3. task' = [task EXCEPT ![t] = x] /\ cr' = cr /\ imports' = imports /\ stock' = stock
      /\ events' = events + 1 /\ 1 \in 0..1 /\ 0 \in 0..1
  BY DEF Fail, Fault, Event, KeepRecords, KeepCloud, Typed
<1>4. imports'[c] = imports[c] + 0
  BY <1>3 DEF Typed
<1>5. AheadOf(c) = Ahead(r, g, m, q, X, A)
  BY DEF AheadOf
<1>6. Sound(r, q)
  BY SoundFits DEF Fits, Ways
<1>7. th.fn = "delete" => x.fn = "none" /\ w = "change" /\ r.at = "deleting"
  BY <1>2 DEF Failed, Idle, ImageFits, ChangeFits, TimerFits, PollFits
<1>8. th.fn # "delete" => x = y
  BY <1>2 DEF Failed, ImageFits, ChangeFits, TimerFits, PollFits
<1>9. y.todo = <<"patch">> /\ y.fn = th.fn /\ y.spec = th.spec
  BY <1>2 DEF Thread
<1> HIDE DEF x, y
<1>10. task'[t] = x /\ x \in Thread
  <2>1. task'[t] = x
    BY <1>3, ThreadsAre DEF Typed
  <2> QED
    BY <1>1, <2>1, ThreadsAre DEF Typed
<1>11. w = "poll" => Sound(r, x)
  <2> SUFFICES ASSUME w = "poll" PROVE Sound(r, x)
    OBVIOUS
  <2>1. RecordFits(plan', c, cr'[c], stock', ids') /\ ThreadFits(plan', c, "poll", task'[t], cr'[c], stock', ids')
    BY <1>1 DEF Fits
  <2> QED
    BY <1>3, <1>10, <2>1, SoundFits
<1>12. CASE th.fn = "delete"
  <2>1. task' = [task EXCEPT ![<<c, "change">>] = x]
    BY <1>3, <1>7, <1>12
  <2> QED
    BY <1>3, <1>7, <1>12, <2>1, DeletePaid
<1>13. CASE th.fn # "delete"
  <2>1. Stage(th) # "idle" /\ Stage(x) = "patch" /\ x.fn = th.fn /\ x.spec = th.spec
    BY <1>2, <1>8, <1>9, <1>10, <1>13, StageIs, ShortTodos
  <2>2. w = "change" => g = th
    OBVIOUS
  <2> HIDE DEF r, g, m, q, X, A
  <2>3. Turn(w, x, r, g, m, q, X, A) <= Ahead(r, g, m, q, X, A) + 4 /\ Turn(w, x, r, g, m, q, X, A) \in Nat
    <3>1. CASE w = "change"
      <4>1. (Changes(x) <=> Changes(g)) /\ (Changes(g) => x.spec = g.spec) /\ ~Makes(x)
        BY <2>1, <2>2, <3>1 DEF Changes, Makes
      <4>2. Ahead(r, x, m, q, X, A) <= Ahead(r, g, m, q, X, A) + 1
        BY <1>6, <4>1, AheadOfFailing
      <4> QED
        BY <1>6, <3>1, <4>2, AheadIs DEF Turn
    <3>2. CASE w = "timer"
      BY <1>6, <3>2, AheadFour, AheadIs DEF Turn
    <3>3. CASE w = "poll"
      BY <1>6, <1>11, <3>3, AheadFour, AheadIs DEF Turn
    <3> QED
      BY <3>1, <3>2, <3>3 DEF Ways
  <2>4. Turn(w, x, r, g, m, q, X, A) + 0 <= AheadOf(c) + 4 * 1
    BY <1>5, <1>6, <2>3, AheadIs
  <2>5. Turn(w, x, cr[c], task[<<c, "change">>], task[<<c, "timer">>], task[<<c, "poll">>],
             IdsOf(stock', cr[c].spec.name), ActiveIdsOf(stock', cr[c].spec.name)) + 0 <= AheadOf(c) + 4 * 1
    BY <1>3, <2>4 DEF r, g, m, q, X, A
  <2>6. w = "poll" => Sound(cr[c], x)
    BY <1>11 DEF r
  <2> QED
    BY <1>3, <1>4, <2>5, <2>6, PaidBySum
<1> QED
  BY <1>12, <1>13

\* Every step of a thread of an image.
LEMMA StepPaid ==
  ASSUME Typed, Fits, NEW c \in Records, Kind(c) = "image", Steady(c), NEW w \in Ways, Step(<<c, w>>)
  PROVE  Paid(c)
<1>1. ~Compare(<<c, w>>)
  <2> SUFFICES ASSUME Busy(<<c, w>>), Head(task[<<c, w>>].todo) = "compare" PROVE FALSE
    BY DEF Compare, At
  <2> DEFINE th == task[<<c, w>>]
             r == cr[c]
  <2>1. th.todo # <<>> /\ ImageFits(w, th, r, stock) /\ Head(th.todo) = "compare"
    BY ImageIs
  <2> HIDE DEF th, r
  <2> QED
    BY <2>1, ImageHeads
<1> QED
  BY <1>1, FindPaid, MakePaid, SettingsPaid, ErasePaid, ReadBlobPaid, ReadWholePaid, EnlistPaid,
     LookPaid, PollPaid, DropPaid DEF Step

-----------------------------------------------------------------------------
(* What starts, ends and changes the row of an image is paid for.          *)

LEMMA PaidByRows ==
  ASSUME Typed, Fits, Typed', Fits', NEW c \in Records, NEW r2, NEW g2, NEW m2, NEW q2, NEW e \in 0..1,
         cr'[c] = r2, task'[<<c, "change">>] = g2, task'[<<c, "timer">>] = m2, task'[<<c, "poll">>] = q2,
         imports'[c] = imports[c], events' = events + e, stock' = stock,
         Sound(r2, q2) =>
           Ahead(r2, g2, m2, q2, IdsOf(stock, r2.spec.name), ActiveIdsOf(stock, r2.spec.name))
             <= AheadOf(c) + 4 * e
  PROVE  Paid(c)
<1> DEFINE X2 == IdsOf(stock, r2.spec.name)
           A2 == ActiveIdsOf(stock, r2.spec.name)
<1>1. AheadOf(c)' = Ahead(r2, g2, m2, q2, X2, A2)
  BY DEF AheadOf
<1>2. Sound(r2, q2)
  <2>1. RecordFits(plan', c, cr'[c], stock', ids')
        /\ ThreadFits(plan', c, "poll", task'[<<c, "poll">>], cr'[c], stock', ids')
    BY DEF Fits
  <2> QED
    BY <2>1, SoundFits
<1>3. AheadOf(c) \in Nat
  BY SoundFits, AheadIs DEF Fits, AheadOf
<1>4. imports[c] \in Nat /\ events \in Nat
  BY DEF Typed
<1> HIDE DEF X2, A2
<1>5. Ahead(r2, g2, m2, q2, X2, A2) \in Nat
  BY <1>2, AheadIs
<1>6. Ahead(r2, g2, m2, q2, X2, A2) <= AheadOf(c) + 4 * e
  BY <1>2 DEF X2, A2
<1>7. events' - events = e
  BY <1>4
<1> QED
  BY <1>1, <1>3, <1>4, <1>5, <1>6, <1>7 DEF Paid

LEMMA StartChangePaid ==
  ASSUME Typed, Fits, NEW c \in Records, Kind(c) = "image", Steady(c), StartChange(c)
  PROVE  Paid(c)
<1> DEFINE t == <<c, "change">>
           r == cr[c]
           g == task[t]
           m == task[<<c, "timer">>]
           q == task[<<c, "poll">>]
           X == IdsOf(stock, r.spec.name)
           A == ActiveIdsOf(stock, r.spec.name)
           r2 == [r EXCEPT !.held = TRUE]
           new == r.handled = NoWish
           fn == IF new \/ (r.id = 0 /\ Kind(c) # "policy") THEN "create" ELSE "update"
           todo == (IF new THEN Created(c) ELSE UpdatedTo(c)) \o <<"patch">>
           last == Deleted(c) \o <<"release">>
<1>1. \/ Live(c) /\ r.handled # r.spec /\ task' = [task EXCEPT ![t] = Started(c, fn, todo)]
      \/ r.at = "deleting" /\ task' = [task EXCEPT ![t] = Started(c, "delete", last)]
  BY DEF StartChange
<1>2. /\ cr' = [cr EXCEPT ![c] = r2] /\ events' = events
      /\ imports' = imports /\ stock' = stock /\ g.todo = <<>> /\ t \in Threads
  BY ThreadsAre DEF StartChange, KeepCloud, Busy, Typed, Ways
<1>3. r.at # "absent" /\ r \in Record /\ Typed' /\ Fits'
  BY <1>1, RowsTyped, StartChangeFits DEF Live
<1>4. /\ r2.held /\ r2.spec = r.spec /\ r2.at = r.at /\ r2.tries = r.tries
      /\ r2.id = r.id /\ r2.phase = r.phase /\ r2.handled = r.handled
  BY <1>3, HeldFits
<1>5. Unmoved(r, r2)
  BY <1>4 DEF Unmoved
<1> HIDE DEF r2
<1>6. cr'[c] = r2
  BY <1>2 DEF Typed
<1>7. Sound(r, q) /\ AheadOf(c) = Ahead(r, g, m, q, X, A)
  BY SoundFits DEF Fits, AheadOf
<1>8. r.spec \in Wish
  BY <1>3, PlanFits, RowsTyped DEF RecordFits
<1>9. ASSUME NEW x, task' = [task EXCEPT ![t] = x],
             Ahead(r, x, m, q, X, A) <= Ahead(r, g, m, q, X, A)
      PROVE  Paid(c)
  <2>1. task'[t] = x /\ task'[<<c, "timer">>] = m /\ task'[<<c, "poll">>] = q
    BY <1>2, <1>9 DEF Typed
  <2>2. imports'[c] = imports[c] /\ events' = events + 0 /\ 0 \in 0..1
    BY <1>2 DEF Typed
  <2>3. X = IdsOf(stock, r2.spec.name) /\ A = ActiveIdsOf(stock, r2.spec.name)
    BY <1>4
  <2> HIDE DEF r, g, m, q, X, A
  <2>4. Ahead(r2, x, m, q, X, A) = Ahead(r, x, m, q, X, A)
    BY <1>5, <1>7, UnmovedIs
  <2>5. Ahead(r2, x, m, q, X, A) \in Nat /\ Ahead(r, g, m, q, X, A) \in Nat
    BY <1>5, <1>7, UnmovedIs, AheadIs
  <2>6. Ahead(r2, x, m, q, IdsOf(stock, r2.spec.name), ActiveIdsOf(stock, r2.spec.name)) <= AheadOf(c) + 4 * 0
    BY <1>7, <1>9, <2>3, <2>4, <2>5
  <2> QED
    BY <1>2, <1>3, <1>6, <2>1, <2>2, <2>6, PaidByRows
<1>10. CASE Live(c) /\ r.handled # r.spec /\ task' = [task EXCEPT ![t] = Started(c, fn, todo)]
  <2>1. todo \in Seq(Steps)
    <3>1. (IF new THEN Created(c) ELSE UpdatedTo(c)) \in Seq(Steps)
      BY ProgramsAre
    <3> QED
      BY <3>1, RegisterIs, Joined
  <2>2. fn = "create" => todo = CreateImage(r.spec) \o <<"patch">>
    BY ProgramsAre DEF Kind
  <2>3. fn = "update" => todo = <<"settings", "patch">>
    <3>1. fn = "update" => todo = <<"settings">> \o <<"patch">>
      BY ProgramsAre DEF Kind
    <3> QED
      BY <3>1, ImagePrograms
  <2>4. fn \in {"create", "update"}
    OBVIOUS
  <2> HIDE DEF fn, todo
  <2> DEFINE x == Started(c, fn, todo)
  <2>5. x.todo = todo /\ x.fn = fn /\ x.spec = r.spec /\ x.end = "ok" /\ x \in Thread
    BY <1>8, <2>1, <2>4, StartedIs
  <2> HIDE DEF x
  <2>6. Stage(x) \in {"find", "settings"}
    <3>1. CASE fn = "create"
      <4>1. x.todo = CreateImage(r.spec) \o <<"patch">>
        BY <2>2, <2>5, <3>1
      <4>2. x.todo # <<>> /\ Head(x.todo) = "find"
        BY <2>5, <4>1, MakingStarts
      <4> QED
        BY <2>5, <4>2, StageIs
    <3>2. CASE fn = "update"
      BY <2>3, <2>5, <3>2, StageIs, ShortTodos
    <3> QED
      BY <2>4, <3>1, <3>2
  <2>7. Stage(g) = "idle" /\ r.at = "live"
    BY <1>2, <1>10 DEF Stage, Live
  <2>8. Ahead(r, x, m, q, X, A) <= Ahead(r, g, m, q, X, A)
    <3>1. r.handled # r.spec
      BY <1>10
    <3> HIDE DEF r, g, m, q, X, A
    <3> QED
      BY <1>7, <2>4, <2>5, <2>6, <2>7, <3>1, AheadOfChange
  <2> QED
    BY <1>9, <1>10, <2>8 DEF x
<1>11. CASE r.at = "deleting" /\ task' = [task EXCEPT ![t] = Started(c, "delete", last)]
  <2>1. last \in Seq(Steps)
    <3>1. <<"release">> \in Seq(Steps)
      BY DEF Steps
    <3> QED
      BY <3>1, ProgramsAre, Joined
  <2> HIDE DEF last
  <2> DEFINE x == Started(c, "delete", last)
  <2>2. x.fn = "delete"
    BY <1>8, <2>1, StartedIs
  <2> HIDE DEF x
  <2>3. ~Makes(x) /\ r.at # "live"
    BY <1>11, <2>2 DEF Makes
  <2>4. Ahead(r, x, m, q, X, A) <= Ahead(r, g, m, q, X, A)
    <3> HIDE DEF r, g, m, q, X, A
    <3> QED
      BY <1>7, <2>3, AheadOfDeletion
  <2> QED
    BY <1>9, <1>11, <2>4 DEF x
<1> QED
  BY <1>1, <1>10, <1>11

LEMMA StartTimerPaid ==
  ASSUME Typed, Fits, NEW c \in Records, Kind(c) = "image", Steady(c), StartTimer(c)
  PROVE  Paid(c)
<1> DEFINE t == <<c, "timer">>
           r == cr[c]
           g == task[<<c, "change">>]
           m == task[t]
           q == task[<<c, "poll">>]
           X == IdsOf(stock, r.spec.name)
           A == ActiveIdsOf(stock, r.spec.name)
           again == CreateImage(r.spec) \o <<"patch">>
<1>1. r.at = "live" /\ r.spec \in Wish
  BY RowsTyped, PlanFits DEF StartTimer, StartThread, Live, RecordFits
<1>2. Typed' /\ Fits'
  BY StartTimerFits
<1>3. cr' = cr /\ imports' = imports /\ events' = events /\ stock' = stock /\ m.todo = <<>>
  BY DEF StartTimer, StartThread, KeepCloud, records, Busy
<1>4. Sound(r, q) /\ AheadOf(c) = Ahead(r, g, m, q, X, A) /\ Stage(m) = "idle"
  BY <1>3, SoundFits DEF Fits, AheadOf, Stage
<1>5. \/ r.phase = "Ready" /\ task' = [task EXCEPT ![t] = Started(c, "look", <<"look", "patch">>)]
      \/ r.phase = "Pending" /\ task' = [task EXCEPT ![t] = Started(c, "recreate", again)]
  BY DEF StartTimer, StartThread
<1>6. ASSUME NEW x, task' = [task EXCEPT ![t] = x],
             Ahead(r, g, x, q, X, A) <= Ahead(r, g, m, q, X, A)
      PROVE  Paid(c)
  <2>1. "timer" \in Ways /\ "timer" # "poll"
    BY DEF Ways
  <2>2. Kept(stock, stock', cr[c].spec.name)
    BY <1>3, SameKept
  <2>3. Turn("timer", x, r, g, m, q, X, A) <= AheadOf(c)
    BY <1>4, <1>6 DEF Turn
  <2> QED
    BY <1>3, <1>6, <2>1, <2>2, <2>3, PaidByTurn
<1>7. CASE r.phase = "Ready" /\ task' = [task EXCEPT ![t] = Started(c, "look", <<"look", "patch">>)]
  <2>1. PICK td \in Seq(Steps) : td = <<"look", "patch">>
    BY LookProgram
  <2> DEFINE x == Started(c, "look", td)
  <2>2. x.fn = "look"
    BY <1>1, StartedIs
  <2> HIDE DEF x
  <2>3. Ahead(r, g, x, q, X, A) <= Ahead(r, g, m, q, X, A)
    <3> HIDE DEF r, g, m, q, X, A
    <3> QED
      BY <1>1, <1>4, <1>7, <2>2, AheadOfLook
  <2>4. task' = [task EXCEPT ![t] = x]
    BY <1>7, <2>1 DEF x
  <2> QED
    BY <1>6, <2>3, <2>4
<1>8. CASE r.phase = "Pending" /\ task' = [task EXCEPT ![t] = Started(c, "recreate", again)]
  <2>1. again \in Seq(Steps)
    <3>1. plan.kinds[c] = "image"
      BY DEF Kind
    <3>2. CreateImage(r.spec) \in Seq(Steps)
      BY <3>1, ProgramsAre
    <3> QED
      BY <3>2, RegisterIs, Joined
  <2> HIDE DEF again
  <2> DEFINE x == Started(c, "recreate", again)
  <2>2. x.todo = again /\ x.fn = "recreate" /\ x.end = "ok" /\ x.spec = r.spec /\ x \in Thread
    BY <1>1, <2>1, StartedIs
  <2> HIDE DEF x
  <2>3. x.todo # <<>> /\ Head(x.todo) = "find"
    BY <2>2, MakingStarts DEF again
  <2>4. Stage(x) = "find"
    BY <2>2, <2>3, StageIs
  <2>5. Ahead(r, g, x, q, X, A) <= Ahead(r, g, m, q, X, A)
    <3> HIDE DEF r, g, m, q, X, A
    <3> QED
      BY <1>1, <1>4, <1>8, <2>2, <2>4, AheadOfRemaking
  <2> QED
    BY <1>6, <1>8, <2>5 DEF x
<1> QED
  BY <1>5, <1>7, <1>8

LEMMA StartPollPaid ==
  ASSUME Typed, Fits, NEW c \in Records, Kind(c) = "image", Steady(c), StartPoll(c)
  PROVE  Paid(c)
<1> DEFINE t == <<c, "poll">>
           r == cr[c]
           g == task[<<c, "change">>]
           m == task[<<c, "timer">>]
           q == task[t]
           X == IdsOf(stock, r.spec.name)
           A == ActiveIdsOf(stock, r.spec.name)
<1>1. r.at = "live" /\ r.spec \in Wish /\ r.phase \in {"Provisioning", "Pending"} /\ r.id # 0
  BY RowsTyped, PlanFits DEF StartPoll, StartThread, Live, RecordFits
<1>2. Typed' /\ Fits'
  BY StartPollFits
<1>3. cr' = cr /\ imports' = imports /\ events' = events /\ stock' = stock /\ q.todo = <<>>
  BY DEF StartPoll, StartThread, KeepCloud, records, Busy
<1>4. Sound(r, q) /\ AheadOf(c) = Ahead(r, g, m, q, X, A) /\ Stage(q) = "idle"
  BY <1>3, SoundFits DEF Fits, AheadOf, Stage
<1>5. PICK td \in Seq(Steps) : td = <<"look", "patch">>
  BY LookProgram
<1> DEFINE x == Started(c, "poll", td)
<1>6. task' = [task EXCEPT ![t] = x]
  BY <1>5 DEF StartPoll, StartThread
<1>7. x.todo = td /\ x.put = Same /\ x.id = r.id /\ x \in Thread
  BY <1>1, StartedIs
<1> HIDE DEF x
<1>8. Stage(x) = "look"
  BY <1>5, <1>7, StageIs, ShortTodos
<1>9. Sound(r, x)
  <2>1. task'[t] = x
    BY <1>6, ThreadsAre DEF Typed, Ways
  <2>2. RecordFits(plan', c, cr'[c], stock', ids') /\ ThreadFits(plan', c, "poll", task'[t], cr'[c], stock', ids')
    BY <1>2 DEF Fits
  <2> QED
    BY <1>3, <2>1, <2>2, SoundFits
<1>10. Ahead(r, g, m, x, X, A) <= Ahead(r, g, m, q, X, A)
  <2> HIDE DEF r, g, m, q, X, A
  <2> QED
    BY <1>1, <1>4, <1>7, <1>8, <1>9, AheadOfPolling
<1>11. "poll" \in Ways
  BY DEF Ways
<1>12. Kept(stock, stock', cr[c].spec.name)
  BY <1>3, SameKept
<1>13. Turn("poll", x, r, g, m, q, X, A) <= AheadOf(c)
  BY <1>4, <1>10 DEF Turn
<1> QED
  BY <1>3, <1>6, <1>9, <1>11, <1>12, <1>13, PaidByTurn

\* What the handlers of changes leave of an image.
LEMMA ChangePutIs ==
  ASSUME NEW c, NEW th \in Thread, th.end \in {"ok", "failed", "missing"},
         NEW put, put = IF th.fn = "create" THEN PutOfCreate(c, th) ELSE PutOfUpdate(th),
         th.end = "missing" => th.fn = "create"
  PROVE  /\ put \in Put
         /\ th.end # "ok" \/ th.spec.external => put.tries = -1
         /\ th.end = "failed" => put.phase = "Error"
<1>1. CASE th.fn # "create"
  <2>1. th.end # "missing" /\ put = PutOfUpdate(th)
    BY <1>1
  <2>2. put \in Put /\ put.tries = -1
    BY <2>1, UpdatePutIs
  <2>3. th.end = "failed" => put.phase = "Error"
    BY <2>1 DEF PutOfUpdate, Same
  <2> QED
    BY <2>2, <2>3
<1>2. CASE th.fn = "create"
  <2>1. put = PutOfCreate(c, th) /\ put \in Put
    BY <1>2, CreatePutIs
  <2>2. CASE th.end = "missing"
    BY <2>1, <2>2 DEF PutOfCreate, Same
  <2>3. CASE th.end = "failed"
    BY <2>1, <2>3 DEF PutOfCreate, Same
  <2>4. CASE th.end = "ok"
    BY <2>1, <2>4 DEF PutOfCreate, Same
  <2> QED
    BY <2>1, <2>2, <2>3, <2>4
<1> QED
  BY <1>1, <1>2

LEMMA PatchChangePaid ==
  ASSUME Typed, Fits, NEW c \in Records, Kind(c) = "image", Steady(c), PatchChange(c)
  PROVE  Paid(c)
<1> DEFINE t == <<c, "change">>
           r == cr[c]
           g == task[t]
           m == task[<<c, "timer">>]
           q == task[<<c, "poll">>]
           X == IdsOf(stock, r.spec.name)
           A == ActiveIdsOf(stock, r.spec.name)
           put == IF g.fn = "create" THEN PutOfCreate(c, g) ELSE PutOfUpdate(g)
           handled == IF g.end \in {"ok", "permanent"} THEN g.spec ELSE r.handled
           w == Written(r, put)
           r2 == [w EXCEPT !.handled = handled]
<1>1. /\ Busy(t) /\ Head(g.todo) = "patch" /\ "change" \in Ways /\ Typed' /\ Fits'
      /\ r \in Record /\ t \in Threads
  BY PatchChangeFits, RowsTyped, ThreadsAre DEF PatchChange, At, Ways
<1>2. g \in Thread /\ g.todo # <<>> /\ ChangeFits(g, r)
  BY <1>1, ImageIs
<1>3. /\ g.fn \in {"create", "update"} /\ g.end \in {"ok", "failed", "missing"}
      /\ g.end = "missing" => g.fn = "create" /\ g.spec.external
  <2>1. g.fn # "delete"
    <3> SUFFICES ASSUME g.todo \in Seq(DeleteSteps) PROVE FALSE
      BY <1>2 DEF ChangeFits
    <3> QED
      BY <1>1, <1>2, HeadTail DEF DeleteSteps
  <2> QED
    BY <1>2, <2>1 DEF ChangeFits, Making, Finding
<1>4. /\ cr' = [cr EXCEPT ![c] = r2] /\ task' = [task EXCEPT ![t] = Idle]
      /\ events' = events /\ imports' = imports /\ stock' = stock
  <2>1. cr' = [cr EXCEPT ![c] = [Written(@, put) EXCEPT !.handled = handled]]
    BY DEF PatchChange
  <2> HIDE DEF put, handled
  <2> QED
    BY <2>1 DEF PatchChange, KeepCloud, Typed
<1>5. /\ put \in Put
      /\ g.end # "ok" \/ g.spec.external => put.tries = -1
      /\ g.end = "failed" => put.phase = "Error"
  <2> HIDE DEF g
  <2> QED
    BY <1>2, <1>3, ChangePutIs
<1>6. handled = IF g.end = "ok" THEN g.spec ELSE r.handled
  BY <1>3
<1> HIDE DEF put, handled
<1>7. /\ w \in Record /\ w.at = r.at /\ w.spec = r.spec
      /\ put.tries = -1 => w.tries = r.tries
      /\ put.phase = "Error" => w.phase = "Error"
  <2> HIDE DEF r
  <2> QED
    BY <1>1, <1>5, WrittenIs
<1> HIDE DEF w
<1>8. /\ r2.at = w.at /\ r2.spec = w.spec /\ r2.tries = w.tries /\ r2.phase = w.phase /\ r2.handled = handled
  BY <1>7 DEF Record
<1> HIDE DEF r2
<1>9. /\ r2.at = r.at /\ r2.spec = r.spec
      /\ g.end # "ok" \/ g.spec.external => r2.tries = r.tries
      /\ g.end = "failed" => r2.phase = "Error"
  BY <1>5, <1>7, <1>8
<1>10. cr'[c] = r2 /\ task'[t] = Idle /\ task'[<<c, "timer">>] = m /\ task'[<<c, "poll">>] = q
  BY <1>1, <1>4, ThreadsAre DEF Typed, Ways
<1>11. Sound(r, q) /\ AheadOf(c) = Ahead(r, g, m, q, X, A)
  BY SoundFits DEF Fits, AheadOf
<1>12. Stage(g) = "patch" /\ Changes(g) /\ Stage(Idle) = "idle"
  <2>1. Stage(g) = "patch"
    BY <1>1, <1>2, StageIs
  <2> QED
    BY <1>3, <2>1, IdleIsThread DEF Changes, Stage
<1>13. imports'[c] = imports[c] /\ events' = events + 0 /\ 0 \in 0..1
  BY <1>4 DEF Typed
<1>14. X = IdsOf(stock, r2.spec.name) /\ A = ActiveIdsOf(stock, r2.spec.name)
  BY <1>9
<1>15. Sound(r2, q) => Ahead(r2, Idle, m, q, X, A) <= Ahead(r, g, m, q, X, A)
  <2> SUFFICES ASSUME Sound(r2, q) PROVE Ahead(r2, Idle, m, q, X, A) <= Ahead(r, g, m, q, X, A)
    OBVIOUS
  <2> DEFINE g2 == Idle
  <2>1. Stage(g2) = "idle"
    BY <1>12
  <2> HIDE DEF r, g, m, q, X, A, g2
  <2>2. CASE r.at # "live"
    <3>1. ~Makes(g2)
      BY <2>1 DEF Makes
    <3>2. One(Makes(g2)) = 0
      BY <3>1, OneIs
    <3> QED
      BY <1>9, <2>2, <3>2, OneIs DEF Ahead, g2
  <2>3. CASE r.at = "live" /\ g.end = "ok"
    <3>1. r2.handled = g.spec
      BY <1>6, <1>8, <2>3
    <3>2. Ahead(r2, g2, m, q, X, A) <= Ahead(r, g, m, q, X, A)
      BY <1>9, <1>11, <1>12, <2>1, <2>3, <3>1, AheadOfSuccess
    <3> QED
      BY <3>2 DEF g2
  <2>4. CASE r.at = "live" /\ g.end # "ok"
    <3>1. r2.handled = r.handled
      BY <1>6, <1>8, <2>4
    <3>2. r2.phase = "Error" \/ (g.spec.external /\ (r.spec.external \/ g.spec # r.spec))
      BY <1>3, <1>9, <2>4
    <3>3. Ahead(r2, g2, m, q, X, A) <= Ahead(r, g, m, q, X, A)
      BY <1>9, <1>11, <1>12, <2>1, <2>4, <3>1, <3>2, AheadOfFailure
    <3> QED
      BY <3>3 DEF g2
  <2> QED
    BY <2>2, <2>3, <2>4
<1>16. Sound(r2, q) => Ahead(r2, Idle, m, q, IdsOf(stock, r2.spec.name), ActiveIdsOf(stock, r2.spec.name))
                         <= AheadOf(c) + 4 * 0
  <2> SUFFICES ASSUME Sound(r2, q)
               PROVE  Ahead(r2, Idle, m, q, IdsOf(stock, r2.spec.name), ActiveIdsOf(stock, r2.spec.name))
                         <= AheadOf(c) + 4 * 0
    OBVIOUS
  <2>1. Ahead(r2, Idle, m, q, X, A) \in Nat /\ Ahead(r, g, m, q, X, A) \in Nat
    <3> HIDE DEF r, g, m, q, X, A
    <3> QED
      BY <1>11, AheadIs
  <2> QED
    BY <1>11, <1>14, <1>15, <2>1
<1> QED
  BY <1>1, <1>4, <1>10, <1>13, <1>16, PaidByRows

\* What the poll leaves of an image.
LEMMA PolledIs ==
  ASSUME NEW r \in Record, NEW q \in Thread, PollFits(q, r), q.todo = <<"patch">>,
         NEW r2, r2 = Written(r, q.put)
  PROVE  /\ r2.tries = Tried(r, q)
         /\ \/ q.put.phase \in {"Ready", "Error"} /\ r2.phase = q.put.phase /\ r2.id = r.id
            \/ q.put.phase = "Pending" /\ r2.phase = "Pending" /\ r2.id = 0
            \/ q.put.phase = "same" /\ r2.phase = r.phase /\ r2.id = r.id
<1> DEFINE put == q.put
<1>1. put \in Put /\ q.tries \in 0..3 /\ r.tries \in 0..3 /\ r.tries <= q.tries
  BY DEF Thread, Record, PollFits
<1>2. \/ put = Lost
      \/ put = Retried(q)
      \/ put \in [phase : {"same", "Ready", "Error"}, id : {-1}, tries : {-1}, began : -1..2]
  <2>1. ASSUME q.todo = <<"look", "patch">> \/ q.todo = <<"drop", "patch">> PROVE FALSE
    BY <2>1, ShortTodos
  <2> QED
    BY <2>1 DEF PollFits
<1>3. /\ \/ put.phase \in {"same", "Ready", "Error"} /\ put.id = -1
         \/ put.phase = "Pending" /\ put.id = 0
      /\ put.tries = -1 \/ put.tries > r.tries
  <2>1. CASE put = Lost
    BY <2>1, PutsAre
  <2>2. CASE put = Retried(q)
    <3> HIDE DEF put
    <3> QED
      BY <1>1, <2>2, RetriedIs
  <2>3. CASE put \in [phase : {"same", "Ready", "Error"}, id : {-1}, tries : {-1}, began : -1..2]
    BY <2>3
  <2> QED
    BY <1>2, <2>1, <2>2, <2>3
<1>4. Stage(q) # "idle"
  BY StageIs, ShortTodos
<1>5. /\ r2.phase = IF put.phase = "same" THEN r.phase ELSE put.phase
      /\ r2.id = IF put.id = -1 THEN r.id ELSE put.id
      /\ r2.tries = IF put.tries = -1 THEN r.tries ELSE put.tries
  BY <1>1, WrittenIs
<1>6. r2.tries = Tried(r, q)
  BY <1>1, <1>3, <1>4, <1>5 DEF Tried
<1> HIDE DEF put
<1>7. \/ put.phase \in {"Ready", "Error"} /\ r2.phase = put.phase /\ r2.id = r.id
      \/ put.phase = "Pending" /\ r2.phase = "Pending" /\ r2.id = 0
      \/ put.phase = "same" /\ r2.phase = r.phase /\ r2.id = r.id
  BY <1>3, <1>5
<1> QED
  BY <1>6, <1>7 DEF put

\* What the other timer leaves.
LEMMA RemadeIs ==
  ASSUME NEW r \in Record, NEW m \in Thread, NEW S, NEW n, TimerFits(m, S), Head(m.todo) = "patch", m.todo # <<>>,
         NEW r2, r2 = Written(r, IF m.fn = "recreate" THEN PutOfRecreate(m) ELSE m.put)
  PROVE  /\ r2.tries = r.tries
         /\ Remakes(m) => \/ m.end # "ok"
                          \/ m.id \in ActiveIdsOf(S, n)
                          \/ m.id \notin IdsOf(S, n)
                          \/ r2.phase = "Provisioning"
<1> DEFINE put == IF m.fn = "recreate" THEN PutOfRecreate(m) ELSE m.put
<1>1. put \in Put /\ put.tries = -1
  <2>1. CASE m.fn = "recreate"
    BY <2>1, RecreatePutIs
  <2>2. CASE m.fn # "recreate"
    BY <2>2 DEF TimerFits, Thread
  <2> QED
    BY <2>1, <2>2
<1>2. ASSUME Remakes(m), m.end = "ok", m.seen # "active"
      PROVE  put.phase = "Provisioning"
  <2>1. put = [Same EXCEPT !.phase = "Provisioning", !.id = m.id, !.began = 1]
    BY <1>2 DEF Remakes, PutOfRecreate
  <2> HIDE DEF put
  <2> QED
    BY <2>1 DEF Same
<1>3. ASSUME Remakes(m), m.end = "ok", m.seen = "active", m.id \in IdsOf(S, n)
      PROVE  m.id \in ActiveIdsOf(S, n)
  <2>1. SeenFits(m, S)
    BY <1>3 DEF Remakes, TimerFits, Finding
  <2> QED
    BY <1>3, <2>1 DEF SeenFits, IdsOf, ActiveIdsOf, Images
<1> HIDE DEF put
<1>4. /\ r2.phase = IF put.phase = "same" THEN r.phase ELSE put.phase
      /\ r2.tries = IF put.tries = -1 THEN r.tries ELSE put.tries
  <2>1. r2 = Written(r, put)
    BY DEF put
  <2> QED
    BY <1>1, <2>1, WrittenIs
<1>5. put.phase = "Provisioning" => r2.phase = "Provisioning"
  BY <1>4
<1> QED
  BY <1>1, <1>2, <1>3, <1>4, <1>5

LEMMA PatchTimerPaid ==
  ASSUME Typed, Fits, NEW c \in Records, Kind(c) = "image", Steady(c), NEW w \in {"timer", "poll"},
         PatchTimer(c, <<c, w>>)
  PROVE  Paid(c)
<1> DEFINE t == <<c, w>>
           th == task[t]
           r == cr[c]
           g == task[<<c, "change">>]
           m == task[<<c, "timer">>]
           q == task[<<c, "poll">>]
           X == IdsOf(stock, r.spec.name)
           A == ActiveIdsOf(stock, r.spec.name)
           put == IF th.fn = "recreate" THEN PutOfRecreate(th) ELSE th.put
           r2 == Written(r, put)
<1>1. /\ Busy(t) /\ Head(th.todo) = "patch" /\ w \in Ways /\ Typed' /\ Fits'
      /\ r \in Record /\ t \in Threads
  BY PatchTimerFits, RowsTyped, ThreadsAre DEF PatchTimer, At, Ways
<1>2. /\ th \in Thread /\ th.todo # <<>>
      /\ w = "timer" => TimerFits(th, stock)
      /\ w = "poll" => PollFits(th, r)
  BY <1>1, ImageIs
<1>3. /\ cr' = [cr EXCEPT ![c] = r2] /\ task' = [task EXCEPT ![t] = Idle]
      /\ events' = events /\ imports' = imports /\ stock' = stock
  BY DEF PatchTimer, KeepCloud, Typed
<1>4. put \in Put
  <2>1. CASE th.fn = "recreate"
    BY <1>2, <2>1, RecreatePutIs
  <2>2. CASE th.fn # "recreate"
    BY <1>2, <2>2 DEF Thread
  <2> QED
    BY <2>1, <2>2
<1>5. r2.at = r.at /\ r2.spec = r.spec /\ r2.handled = r.handled
  <2> HIDE DEF r, put
  <2> QED
    BY <1>1, <1>4, WrittenIs
<1>6. w = "timer" => /\ r2.tries = r.tries
                     /\ Remakes(th) => th.end # "ok" \/ th.id \in A \/ th.id \notin X \/ r2.phase = "Provisioning"
  <2> DEFINE n == r.spec.name
  <2> HIDE DEF th, r, n
  <2> QED
    BY <1>1, <1>2, RemadeIs DEF n
<1>7. w = "poll" => /\ r2.tries = Tried(r, th)
                    /\ \/ th.put.phase \in {"Ready", "Error"} /\ r2.phase = th.put.phase /\ r2.id = r.id
                       \/ th.put.phase = "Pending" /\ r2.phase = "Pending" /\ r2.id = 0
                       \/ th.put.phase = "same" /\ r2.phase = r.phase /\ r2.id = r.id
  <2> SUFFICES ASSUME w = "poll"
               PROVE  /\ r2.tries = Tried(r, th)
                      /\ \/ th.put.phase \in {"Ready", "Error"} /\ r2.phase = th.put.phase /\ r2.id = r.id
                         \/ th.put.phase = "Pending" /\ r2.phase = "Pending" /\ r2.id = 0
                         \/ th.put.phase = "same" /\ r2.phase = r.phase /\ r2.id = r.id
    OBVIOUS
  <2>1. PollFits(th, r) /\ th.todo = <<"patch">> /\ put = th.put
    <3> HIDE DEF r
    <3> QED
      BY <1>1, <1>2, ShortTodos DEF PollFits
  <2> HIDE DEF th, r, put
  <2> QED
    BY <1>1, <1>2, <2>1, PolledIs
<1> HIDE DEF r2, put
<1>8. Sound(r, q) /\ AheadOf(c) = Ahead(r, g, m, q, X, A) /\ 0 \notin X
  BY SoundFits, IdsAre DEF Fits, AheadOf
<1>9. Stage(th) = "patch" /\ Stage(Idle) = "idle"
  <2>1. Stage(th) = "patch"
    BY <1>1, <1>2, StageIs
  <2> QED
    BY <2>1, IdleIsThread DEF Stage
<1>10. imports'[c] = imports[c] /\ events' = events + 0 /\ 0 \in 0..1 /\ cr'[c] = r2
  BY <1>3 DEF Typed
<1>11. X = IdsOf(stock, r2.spec.name) /\ A = ActiveIdsOf(stock, r2.spec.name)
  BY <1>5
<1>12. /\ task'[<<c, "change">>] = g
       /\ task'[<<c, "timer">>] = IF w = "timer" THEN Idle ELSE m
       /\ task'[<<c, "poll">>] = IF w = "poll" THEN Idle ELSE q
  BY <1>1, <1>3, ThreadsAre DEF Typed, Ways
<1>13. (w = "timer" => m = th) /\ (w = "poll" => q = th)
  OBVIOUS
<1>14. ASSUME NEW m2, NEW q2, Sound(r2, q2),
              \/ w = "timer" /\ m2 = Idle /\ q2 = q
              \/ w = "poll" /\ m2 = m /\ q2 = Idle
       PROVE  Ahead(r2, g, m2, q2, X, A) <= Ahead(r, g, m, q, X, A)
  <2> DEFINE i == Idle
  <2>1. Stage(i) = "idle"
    BY <1>9
  <2>2. ~Makes(i)
    BY <2>1 DEF Makes
  <2>3. \/ w = "timer" /\ m2 = i /\ q2 = q
        \/ w = "poll" /\ m2 = m /\ q2 = i
    BY <1>14
  <2> HIDE DEF i, r, g, m, q, X, A, th
  <2>4. CASE r.at # "live"
    <3>1. One(Makes(i)) = 0
      BY <2>2, OneIs
    <3>2. One(Makes(m2)) <= One(Makes(m))
      BY <2>3, <3>1, OneIs
    <3> QED
      BY <1>5, <2>4, <3>2, OneIs DEF Ahead
  <2>5. CASE r.at = "live" /\ w = "timer" /\ ~Remakes(m)
    BY <1>5, <1>6, <1>8, <1>9, <1>13, <1>14, <2>1, <2>3, <2>5, AheadOfLooked
  <2>6. CASE r.at = "live" /\ w = "timer" /\ Remakes(m)
    BY <1>5, <1>6, <1>8, <1>9, <1>13, <1>14, <2>1, <2>3, <2>6, AheadOfRemade
  <2>7. CASE r.at = "live" /\ w = "poll"
    BY <1>5, <1>7, <1>8, <1>9, <1>13, <1>14, <2>1, <2>3, <2>7, AheadOfPolled
  <2> QED
    BY <2>4, <2>5, <2>6, <2>7
<1>15. \A m2, q2 : Ahead(r, g, m, q, X, A) \in Nat /\ (Sound(r2, q2) => Ahead(r2, g, m2, q2, X, A) \in Nat)
  <2> HIDE DEF r, g, m, q, X, A
  <2> QED
    BY <1>8, AheadIs
<1>16. ASSUME NEW m2, NEW q2, \/ w = "timer" /\ m2 = Idle /\ q2 = q
                              \/ w = "poll" /\ m2 = m /\ q2 = Idle
       PROVE  Sound(r2, q2) => Ahead(r2, g, m2, q2, IdsOf(stock, r2.spec.name), ActiveIdsOf(stock, r2.spec.name))
                                 <= AheadOf(c) + 4 * 0
  <2>1. Sound(r2, q2) => Ahead(r2, g, m2, q2, X, A) <= Ahead(r, g, m, q, X, A)
    BY <1>14, <1>16
  <2> QED
    BY <1>8, <1>11, <1>15, <2>1
<1>17. PICK m2, q2 : /\ task'[<<c, "timer">>] = m2 /\ task'[<<c, "poll">>] = q2
                     /\ \/ w = "timer" /\ m2 = Idle /\ q2 = q
                        \/ w = "poll" /\ m2 = m /\ q2 = Idle
  BY <1>12
<1>18. Sound(r2, q2) => Ahead(r2, g, m2, q2, IdsOf(stock, r2.spec.name), ActiveIdsOf(stock, r2.spec.name))
                          <= AheadOf(c) + 4 * 0
  BY <1>16, <1>17
<1> HIDE DEF r, g, m, q, X, A
<1> QED
  BY <1>1, <1>3, <1>10, <1>12, <1>17, <1>18, PaidByRows DEF g

\* A record that is gone or on its way costs two images at most.
LEMMA GonePaid ==
  ASSUME Typed, Fits, Typed', Fits', NEW c \in Records, NEW r2, cr'[c] = r2, r2.at # "live",
         NEW e \in 0..1, imports'[c] = imports[c], events' = events + e, stock' = stock,
         \/ e = 1
         \/ ~Makes(task'[<<c, "change">>]) /\ ~Makes(task'[<<c, "timer">>])
  PROVE  Paid(c)
<1>1. PICK g2, m2, q2 : /\ task'[<<c, "change">>] = g2 /\ task'[<<c, "timer">>] = m2
                        /\ task'[<<c, "poll">>] = q2
  OBVIOUS
<1>2. AheadOf(c) \in Nat
  BY SoundFits, AheadIs DEF Fits, AheadOf
<1>3. PICK X2, A2 : X2 = IdsOf(stock, r2.spec.name) /\ A2 = ActiveIdsOf(stock, r2.spec.name)
  OBVIOUS
<1>4. Sound(r2, q2) => Ahead(r2, g2, m2, q2, X2, A2) <= AheadOf(c) + 4 * e
  <2>1. CASE e = 1
    BY <1>2, <2>1, AheadIs
  <2>2. CASE ~Makes(g2) /\ ~Makes(m2)
    <3>1. One(Makes(g2)) = 0 /\ One(Makes(m2)) = 0
      BY <2>2, OneIs
    <3>2. Ahead(r2, g2, m2, q2, X2, A2) = 0
      BY <3>1 DEF Ahead
    <3> QED
      BY <1>2, <3>2
  <2> QED
    BY <1>1, <2>1, <2>2
<1> QED
  BY <1>1, <1>3, <1>4, PaidByRows

LEMMA ReleaseRecordPaid ==
  ASSUME Typed, Fits, NEW c \in Records, Kind(c) = "image", Steady(c), ReleaseRecord(c)
  PROVE  Paid(c)
<1>1. Typed' /\ Fits'
  BY ReleaseRecordFits
<1>2. cr'[c] = Absent /\ Absent.at # "live"
  BY DEF ReleaseRecord, Typed, Absent
<1>3. task' = [task EXCEPT ![<<c, "change">>] = Idle] /\ ~Busy(<<c, "timer">>)
  BY DEF ReleaseRecord
<1>4. task'[<<c, "change">>] = Idle /\ task'[<<c, "timer">>] = task[<<c, "timer">>]
  BY <1>3, ThreadsAre DEF Typed, Ways
<1>5. task'[<<c, "change">>].todo = <<>> /\ task'[<<c, "timer">>].todo = <<>>
  BY <1>3, <1>4, IdleIsThread DEF Busy
<1>6. ~Makes(task'[<<c, "change">>]) /\ ~Makes(task'[<<c, "timer">>])
  BY <1>5 DEF Makes, Stage
<1>7. imports'[c] = imports[c] /\ events' = events + 0 /\ stock' = stock /\ 0 \in 0..1
  BY DEF ReleaseRecord, KeepCloud, Typed
<1> QED
  BY <1>1, <1>2, <1>6, <1>7, GonePaid

LEMMA DeleteRecordPaid ==
  ASSUME Typed, Fits, NEW c \in Records, DeleteRecord(c), UNCHANGED <<task, gc>>
  PROVE  Paid(c)
<1>1. Typed' /\ Fits'
  BY DeleteRecordFits
<1>2. cr'[c].at # "live"
  BY RowsTyped DEF DeleteRecord, Typed, Absent, Record
<1>3. imports'[c] = imports[c] /\ events' = events + 1 /\ stock' = stock /\ 1 \in 0..1
  BY DEF DeleteRecord, Event
<1> QED
  BY <1>1, <1>2, <1>3, GonePaid

LEMMA ImportAgesPaid ==
  ASSUME Typed, Fits, NEW c \in Records, ImportAges(c), UNCHANGED <<task, gc>>
  PROVE  Paid(c)
<1> DEFINE r == cr[c]
           r2 == [r EXCEPT !.began = 2]
           g == task[<<c, "change">>]
           m == task[<<c, "timer">>]
           q == task[<<c, "poll">>]
           X == IdsOf(stock, r.spec.name)
           A == ActiveIdsOf(stock, r.spec.name)
<1>1. Typed' /\ Fits'
  BY ImportAgesFits
<1>2. cr'[c] = r2 /\ imports'[c] = imports[c] /\ events' = events + 0 /\ stock' = stock /\ 0 \in 0..1 /\ task' = task
  BY DEF ImportAges, Typed
<1>3. r \in Record /\ Sound(r, q) /\ AheadOf(c) = Ahead(r, g, m, q, X, A)
  BY RowsTyped, SoundFits DEF Fits, AheadOf
<1>4. Unmoved(r, r2)
  BY <1>3 DEF Unmoved, Record
<1> HIDE DEF r2
<1>5. X = IdsOf(stock, r2.spec.name) /\ A = ActiveIdsOf(stock, r2.spec.name)
  BY <1>4 DEF Unmoved
<1>6. Ahead(r2, g, m, q, X, A) = Ahead(r, g, m, q, X, A) /\ Ahead(r, g, m, q, X, A) \in Nat
  <2> HIDE DEF r, g, m, q, X, A
  <2> QED
    BY <1>3, <1>4, UnmovedIs, AheadIs
<1>7. Ahead(r2, g, m, q, IdsOf(stock, r2.spec.name), ActiveIdsOf(stock, r2.spec.name)) <= AheadOf(c) + 4 * 0
  BY <1>3, <1>5, <1>6
<1> QED
  BY <1>1, <1>2, <1>7, PaidByRows

LEMMA EditRecordPaid ==
  ASSUME Typed, Fits, NEW c \in Records, Steady(c), EditRecord(c), UNCHANGED <<task, gc>>
  PROVE  Paid(c)
<1> DEFINE r == cr[c]
           g == task[<<c, "change">>]
           m == task[<<c, "timer">>]
           q == task[<<c, "poll">>]
           X == IdsOf(stock, r.spec.name)
           A == ActiveIdsOf(stock, r.spec.name)
<1>1. Typed' /\ Fits' /\ r \in Record
  BY EditRecordFits, RowsTyped
<1>2. imports'[c] = imports[c] /\ events' = events + 1 /\ stock' = stock /\ 1 \in 0..1 /\ task' = task
  BY DEF EditRecord, Event
<1>3. PICK v \in plan.wishes[c] : cr' = [cr EXCEPT ![c].spec = v]
  BY DEF EditRecord
<1> DEFINE r2 == [r EXCEPT !.spec = v]
<1>4. cr'[c] = r2
  BY <1>3 DEF Typed
<1>5. Sound(r, q) /\ AheadOf(c) = Ahead(r, g, m, q, X, A)
  BY SoundFits DEF Fits, AheadOf
<1>6. /\ r.at = "live" /\ r2.at = "live" /\ r2.handled = r.handled /\ r2.phase = r.phase /\ r2.id = r.id
      /\ r2.tries = r.tries /\ r2.spec = v
  BY <1>1 DEF EditRecord, Live, Record
<1> HIDE DEF r2
<1>7. X = IdsOf(stock, r2.spec.name) /\ A = ActiveIdsOf(stock, r2.spec.name)
  <2>1. r.spec \in plan.wishes[c]
    BY <1>6 DEF Fits, RecordFits
  <2> QED
    BY <1>3, <1>6, <2>1 DEF Steady
<1>8. Sound(r2, q) => Ahead(r2, g, m, q, X, A) <= Ahead(r, g, m, q, X, A) + 4
  <2> HIDE DEF r, g, m, q, X, A
  <2> QED
    BY <1>5, <1>6, AheadOfEdit
<1>9. Sound(r2, q) => Ahead(r2, g, m, q, IdsOf(stock, r2.spec.name), ActiveIdsOf(stock, r2.spec.name))
                        <= AheadOf(c) + 4 * 1
  BY <1>5, <1>7, <1>8
<1> QED
  BY <1>1, <1>2, <1>4, <1>9, PaidByRows

LEMMA CreateRecordPaid ==
  ASSUME Typed, Fits, NEW c \in Records, CreateRecord(c), UNCHANGED <<task, gc>>
  PROVE  Paid(c)
<1> DEFINE g == task[<<c, "change">>]
           m == task[<<c, "timer">>]
           q == task[<<c, "poll">>]
<1>1. Typed' /\ Fits'
  BY CreateRecordFits
<1>2. imports'[c] = imports[c] /\ events' = events + 1 /\ stock' = stock /\ 1 \in 0..1 /\ task' = task
  BY DEF CreateRecord, Event
<1>3. PICK v : cr' = [cr EXCEPT ![c] = [Absent EXCEPT !.at = "live", !.spec = v]]
  BY DEF CreateRecord
<1> DEFINE r2 == [Absent EXCEPT !.at = "live", !.spec = v]
<1>4. cr'[c] = r2
  BY <1>3 DEF Typed
<1>5. ~cr[c].held
  BY DEF CreateRecord, Fits, RecordFits
<1>6. g.todo = <<>> /\ m.todo = <<>> /\ q.todo = <<>>
  BY <1>5, BusyHeld DEF Ways
<1>7. Stage(g) = "idle" /\ Stage(m) = "idle" /\ Stage(q) = "idle"
  BY <1>6 DEF Stage
<1> HIDE DEF g, m, q
<1>8. Dormant(r2, m, q)
  BY <1>7 DEF Dormant, Absent
<1> HIDE DEF r2
<1>9. PICK X2, A2 : X2 = IdsOf(stock, r2.spec.name) /\ A2 = ActiveIdsOf(stock, r2.spec.name)
  OBVIOUS
<1>10. Sound(r2, q) => Ahead(r2, g, m, q, X2, A2) \in Nat /\ Ahead(r2, g, m, q, X2, A2) <= 4
  BY <1>7, <1>8, AheadOfCreation, AheadIs
<1>11. AheadOf(c) \in Nat
  BY SoundFits, AheadIs DEF Fits, AheadOf
<1>12. Sound(r2, q) => Ahead(r2, g, m, q, X2, A2) <= AheadOf(c) + 4 * 1
  BY <1>10, <1>11
<1> QED
  BY <1>1, <1>2, <1>4, <1>9, <1>12, PaidByRows DEF g, m, q

LEMMA CrashPaid ==
  ASSUME Typed, Fits, NEW c \in Records, Crash
  PROVE  Paid(c)
<1> DEFINE r == cr[c]
           g == task[<<c, "change">>]
           m == task[<<c, "timer">>]
           q == task[<<c, "poll">>]
           X == IdsOf(stock, r.spec.name)
           A == ActiveIdsOf(stock, r.spec.name)
           i == Idle
<1>1. Typed' /\ Fits'
  BY CrashFits
<1>2. imports'[c] = imports[c] /\ events' = events + 1 /\ stock' = stock /\ 1 \in 0..1 /\ cr'[c] = r
  BY DEF Crash, Fault, Event, KeepCloud, KeepRecords
<1>3. \A v \in Ways : task'[<<c, v>>] = i
  BY ThreadsAre DEF Crash
<1>4. task'[<<c, "change">>] = i /\ task'[<<c, "timer">>] = i /\ task'[<<c, "poll">>] = i
  BY <1>3 DEF Ways
<1>5. Sound(r, q) /\ AheadOf(c) = Ahead(r, g, m, q, X, A) /\ Stage(i) = "idle"
  BY SoundFits, IdleIsThread DEF Fits, AheadOf, Stage
<1>6. Sound(r, i) => Ahead(r, i, i, i, X, A) <= AheadOf(c) + 4 * 1
  <2> HIDE DEF r, g, m, q, X, A, i
  <2> QED
    BY <1>5, AheadOfCrash
<1> HIDE DEF i
<1> QED
  BY <1>1, <1>2, <1>4, <1>6, PaidByRows

-----------------------------------------------------------------------------
(* What others do to an image is paid for.                                 *)

\* A step leaves the records and the other threads alone, and counts images of the
\* record of its thread only.
LEMMA StepFrame ==
  ASSUME Typed, NEW t \in Threads, Step(t)
  PROVE  /\ cr' = cr /\ plan' = plan
         /\ \A u \in Threads \ {t} : task'[u] = task[u]
         /\ events' = events \/ events' = events + 1
         /\ \/ imports' = imports
            \/ /\ Make(t) /\ task[t].kind = "image"
               /\ imports' = [imports EXCEPT ![task[t].cr] = @ + 1]
<1> USE DEF Typed
<1>1. CASE Find(t)
  BY <1>1 DEF Find, KeepRecords
<1>2. CASE Make(t)
  BY <1>2 DEF Make, Next1, Fault, Event
<1>3. CASE Settings(t)
  BY <1>3 DEF Settings, Next1, KeepRecords
<1>4. CASE Compare(t)
  BY <1>4 DEF Compare, KeepRecords
<1>5. CASE Erase(t)
  BY <1>5 DEF Erase, Next1, KeepRecords, Fault, Event
<1>6. CASE ReadBlob(t)
  BY <1>6 DEF ReadBlob, KeepRecords
<1>7. CASE ReadWhole(t)
  BY <1>7 DEF ReadWhole, KeepRecords
<1>8. CASE Enlist(t) \/ Delist(t)
  BY <1>8 DEF Enlist, Delist, Store
<1>9. CASE Look(t)
  BY <1>9 DEF Look, KeepRecords
<1>10. CASE Poll(t)
  BY <1>10 DEF Poll, KeepRecords
<1>11. CASE Drop(t)
  BY <1>11 DEF Drop, Next1, KeepRecords, Fault, Event
<1> QED
  BY <1>1, <1>2, <1>3, <1>4, <1>5, <1>6, <1>7, <1>8, <1>9, <1>10, <1>11 DEF Step

\* A record that is alone keeps its name, and no other image record may have it.
LEMMA AloneIs ==
  ASSUME NEW c \in Records, Alone(c)
  PROVE  /\ Steady(c)
         /\ Fits /\ cr[c].at # "absent" =>
              \A d \in Records : Kind(d) = "image" /\ cr[c].spec.name \in Mine(plan, d) => d = c
<1>1. Steady(c)
  BY DEF Alone, NamesOf, Steady
<1>2. ASSUME Fits, cr[c].at # "absent", NEW d \in Records, Kind(d) = "image",
             cr[c].spec.name \in Mine(plan, d)
      PROVE  d = c
  <2>1. cr[c].spec \in plan.wishes[c]
    BY <1>2 DEF Fits, RecordFits
  <2>2. cr[c].spec.name \in NamesOf(c) /\ cr[c].spec.name \in NamesOf(d)
    BY <1>2, <2>1 DEF NamesOf, Mine
  <2> QED
    BY <1>2, <2>2 DEF Alone
<1> QED
  BY <1>1, <1>2

\* What is deleted by its id has the kind of the thread, and a name that its record may have.
LEMMA TargetIs ==
  ASSUME NEW th, NEW M, NEW n, Named(th.id, th.kind, M, stock, n), NEW s \in Target(th)
  PROVE  s.kind = th.kind /\ s \in stock /\ (th.kind # "policy" => s.name \in M)
BY DEF Target, ByName, ById, Named

LEMMA ForeignStep ==
  ASSUME Typed, Fits, NEW c \in Records, Kind(c) = "image", Alone(c), NEW d \in Records, d # c,
         NEW w \in Ways, Step(<<d, w>>)
  PROVE  Paid(c)
<1> DEFINE t == <<d, w>>
           th == task[t]
           n == cr[c].spec.name
<1>1. t \in Threads /\ \A v \in Ways : <<c, v>> \in Threads /\ <<c, v>> # t
  BY ThreadsAre
<1>2. /\ cr' = cr /\ \A v \in Ways : task'[<<c, v>>] = task[<<c, v>>]
      /\ events' = events \/ events' = events + 1
  BY <1>1, StepFrame
<1>3. Busy(t)
  BY DEF Step, Find, Make, Settings, Compare, Erase, ReadBlob, ReadWhole, Enlist, Delist, Look, Poll, Drop, At
<1>4. WorkFits(plan, d, th, cr[d], stock, ids) /\ th.cr = d /\ th.spec \in plan.wishes[d] /\ th.kind = Kind(d)
      /\ Named(th.id, th.kind, Mine(plan, th.cr), stock, ids)
  BY <1>3, ThreadIs DEF WorkFits, Kind
<1>5. imports'[c] = imports[c]
  BY <1>1, <1>4, StepFrame DEF Typed
<1>6. cr[c].at # "absent" => ~(th.kind = "image" /\ n \in Mine(plan, th.cr))
  BY <1>4, AloneIs
<1>7. ASSUME cr[c].at = "live", events' = events PROVE Kept(stock, stock', n)
  <2>1. CASE Find(t)
    BY <2>1, FindFits
  <2>2. CASE Make(t)
    BY <2>2, MakeFits
  <2>3. CASE Settings(t)
    BY <2>3, SettingsFits
  <2>4. CASE Erase(t)
    <3>1. stock' = stock \ Target(th)
      BY <1>7, <2>4 DEF Erase, Fault, Event, Typed
    <3>2. \A s \in Target(th) : ~(s.kind = "image" /\ s.name = n)
      BY <1>4, <1>6, <1>7, TargetIs
    <3> QED
      BY <3>1, <3>2 DEF Kept, Alike
  <2>5. CASE Drop(t)
    <3>1. stock' = stock \ ById(th.id)
      BY <1>7, <2>5 DEF Drop, Fault, Event, Typed
    <3>2. \A s \in ById(th.id) : ~(s.kind = "image" /\ s.name = n)
      BY <1>4, <1>6, <1>7 DEF ById, Named
    <3> QED
      BY <3>1, <3>2 DEF Kept, Alike
  <2>6. CASE Compare(t) \/ ReadBlob(t) \/ ReadWhole(t) \/ Enlist(t) \/ Delist(t) \/ Look(t) \/ Poll(t)
    <3>1. stock' = stock
      BY <2>6 DEF Compare, ReadBlob, ReadWhole, Enlist, Delist, Store, Look, Poll, KeepCloud
    <3> QED
      BY <3>1, SameKept
  <2> QED
    BY <2>1, <2>2, <2>3, <2>4, <2>5, <2>6 DEF Step
<1> QED
  BY <1>2, <1>5, <1>7, PaidByOthers

\* Whatever else is done for another record.
LEMMA ForeignPaid ==
  ASSUME Typed, Fits, NEW c \in Records, NEW d \in Records, d # c,
         \/ CreateRecord(d) /\ UNCHANGED <<task, gc>>
         \/ EditRecord(d) /\ UNCHANGED <<task, gc>>
         \/ DeleteRecord(d) /\ UNCHANGED <<task, gc>>
         \/ ImportAges(d) /\ UNCHANGED <<task, gc>>
         \/ StartChange(d) \/ StartTimer(d) \/ StartPoll(d) \/ PatchChange(d) \/ ReleaseRecord(d)
         \/ PatchTimer(d, <<d, "timer">>) \/ PatchTimer(d, <<d, "poll">>)
  PROVE  Paid(c)
<1> USE DEF Typed
<1>1. \A w, v \in Ways : <<d, w>> \in Threads /\ <<c, v>> \in Threads /\ <<c, v>> # <<d, w>>
  BY ThreadsAre
<1>2. "change" \in Ways /\ "timer" \in Ways /\ "poll" \in Ways
  BY DEF Ways
<1>3. /\ cr'[c] = cr[c] /\ \A v \in Ways : task'[<<c, v>>] = task[<<c, v>>]
      /\ imports' = imports /\ stock' = stock
      /\ events' = events \/ events' = events + 1
  <2>1. CASE CreateRecord(d) /\ UNCHANGED <<task, gc>>
    BY <2>1 DEF CreateRecord, Event
  <2>2. CASE EditRecord(d) /\ UNCHANGED <<task, gc>>
    BY <2>2 DEF EditRecord, Event
  <2>3. CASE DeleteRecord(d) /\ UNCHANGED <<task, gc>>
    BY <2>3 DEF DeleteRecord, Event
  <2>4. CASE ImportAges(d) /\ UNCHANGED <<task, gc>>
    BY <2>4 DEF ImportAges
  <2>5. CASE StartChange(d)
    BY <1>1, <1>2, <2>5 DEF StartChange, KeepCloud
  <2>6. CASE StartTimer(d)
    BY <1>1, <1>2, <2>6 DEF StartTimer, StartThread, KeepCloud, records
  <2>7. CASE StartPoll(d)
    BY <1>1, <1>2, <2>7 DEF StartPoll, StartThread, KeepCloud, records
  <2>8. CASE PatchChange(d)
    BY <1>1, <1>2, <2>8 DEF PatchChange, KeepCloud
  <2>9. CASE PatchTimer(d, <<d, "timer">>)
    BY <1>1, <1>2, <2>9 DEF PatchTimer, KeepCloud
  <2>10. CASE PatchTimer(d, <<d, "poll">>)
    BY <1>1, <1>2, <2>10 DEF PatchTimer, KeepCloud
  <2>11. CASE ReleaseRecord(d)
    BY <1>1, <1>2, <2>11 DEF ReleaseRecord, KeepCloud
  <2> QED
    BY <2>1, <2>2, <2>3, <2>4, <2>5, <2>6, <2>7, <2>8, <2>9, <2>10, <2>11
<1>4. Kept(stock, stock', cr[c].spec.name)
  BY <1>3, SameKept
<1> QED
  BY <1>3, <1>4, PaidByOthers

LEMMA WorldPaid ==
  ASSUME Typed, Fits, NEW c \in Records, UNCHANGED <<task, gc>>,
         LoseResource \/ ImportGoesOn \/ \E d \in Records : UploadImage(d)
  PROVE  Paid(c)
<1>1. CASE LoseResource \/ \E d \in Records : UploadImage(d)
  <2>1. cr' = cr /\ imports' = imports /\ events' = events + 1
    BY <1>1 DEF LoseResource, UploadImage, Event
  <2> QED
    BY <2>1, PaidByOthers
<1>2. CASE ImportGoesOn
  <2>1. cr' = cr /\ imports' = imports /\ events' = events
    BY <1>2 DEF ImportGoesOn, records
  <2>2. Kept(stock, stock', cr[c].spec.name)
    BY <1>2, ImportGoesOnFits
  <2> QED
    BY <2>1, <2>2, PaidByOthers
<1> QED
  BY <1>1, <1>2

\* A thread of another record, or the collector, fails.
LEMMA FailElsewherePaid ==
  ASSUME Typed, Fits, NEW c \in Records, NEW t \in Threads, Fail(t), \A w \in Ways : t # <<c, w>>
  PROVE  Paid(c)
<1>1. cr' = cr /\ imports' = imports /\ events' = events + 1 /\ \A w \in Ways : task'[<<c, w>>] = task[<<c, w>>]
  BY ThreadsAre DEF Fail, Fault, Event, KeepRecords, Typed
<1> QED
  BY <1>1, PaidByOthers

\* A record that kopf does not hold is at rest.
LEMMA UnheldIs ==
  ASSUME Typed, Fits, NEW c \in Records, ~cr[c].held
  PROVE  Dormant(cr[c], task[<<c, "timer">>], task[<<c, "poll">>])
<1> DEFINE r == cr[c]
           m == task[<<c, "timer">>]
           q == task[<<c, "poll">>]
<1>1. RecordFits(plan, c, r, stock, ids) /\ ~r.held
  BY DEF Fits
<1>2. m.todo = <<>> /\ q.todo = <<>>
  BY BusyHeld DEF Ways
<1>3. Stage(m) = "idle" /\ Stage(q) = "idle"
  BY <1>2 DEF Stage
<1> HIDE DEF r, m, q
<1>4. Dormant(r, m, q)
  BY <1>1, <1>3 DEF RecordFits, Dormant
<1> QED
  BY <1>4 DEF r, m, q

\* The collector deletes the image of a record that it did not see, and that has no
\* status yet, but of no other.
LEMMA CollectionPaid ==
  ASSUME Typed, Fits, NEW c \in Records, Kind(c) = "image", Alone(c), Collection
  PROVE  Paid(c)
<1> DEFINE th == task[Collector]
           n == cr[c].spec.name
<1>1. Collector \in Threads /\ \A w \in Ways : <<c, w>> \in Threads /\ <<c, w>> # Collector
  BY ThreadsAre
<1>2. CASE StartCollection \/ Scan \/ NextOrphan
  <2>1. cr' = cr /\ imports' = imports /\ events' = events /\ stock' = stock
    BY <1>2 DEF StartCollection, Scan, NextOrphan, KeepCloud, records
  <2>2. \A w \in Ways : task'[<<c, w>>] = task[<<c, w>>]
    <3>1. CASE StartCollection
      BY <1>1, <3>1 DEF StartCollection, Typed
    <3>2. CASE Scan
      BY <1>1, <3>2 DEF Scan, Typed
    <3>3. CASE NextOrphan
      BY <1>1, <3>3 DEF NextOrphan, Typed
    <3> QED
      BY <1>2, <3>1, <3>2, <3>3
  <2>3. Kept(stock, stock', n)
    BY <2>1, SameKept
  <2> QED
    BY <2>1, <2>2, <2>3, PaidByOthers
<1>3. CASE Step(Collector)
  <2>1. Busy(Collector)
    BY <1>3 DEF Step, Find, Make, Settings, Compare, Erase, ReadBlob, ReadWhole, Enlist, Delist, Look, Poll, Drop, At
  <2>2. /\ Head(th.todo) \in GcSteps /\ CollectorFits(plan, th, gc, stock, ids) /\ th.todo # <<>>
        /\ \A d \in Records \ gc.expected : ~cr[d].held
    BY <2>1, CollectorIs
  <2>3. Erase(Collector) \/ ReadBlob(Collector) \/ ReadWhole(Collector) \/ Delist(Collector)
    BY <1>3, <2>2 DEF Step, Find, Make, Settings, Compare, Enlist, Look, Poll, Drop, At, GcSteps
  <2>4. /\ cr' = cr /\ \A w \in Ways : task'[<<c, w>>] = task[<<c, w>>]
        /\ events' = events \/ events' = events + 1
    BY <1>1, <1>3, StepFrame
  <2>5. imports' = imports
    BY <2>3 DEF Erase, ReadBlob, ReadWhole, Delist, Store, KeepRecords
  <2>6. ASSUME events' = events, cr[c].at = "live", ~Kept(stock, stock', n)
        PROVE  ~cr[c].held
    <3>1. Erase(Collector)
      <4>1. ASSUME stock' = stock PROVE FALSE
        BY <2>6, <4>1, SameKept
      <4> QED
        BY <2>3, <4>1 DEF ReadBlob, ReadWhole, Delist, Store, KeepCloud
    <3>2. stock' = stock \ Target(th)
      BY <2>6, <3>1 DEF Erase, Fault, Event, Typed
    <3>3. PICK s \in Target(th) : s.kind = "image" /\ s.name = n
      BY <2>6, <3>2 DEF Kept, Alike
    <3>4. th.id # 0 \/ th.kind = "policy"
      <4>1. s \in stock /\ (th.kind # "policy" => s.id = th.id)
        BY <3>3 DEF Target, ById, ByName
      <4>2. s.id # 0
        BY <4>1 DEF Typed, Stocked, Row
      <4> QED
        BY <4>1, <4>2
    <3>5. th.kind # "policy"
      BY <3>3 DEF Target, ByName
    <3>6. Strange(plan, th.kind, th.id, gc.expected, stock, ids)
      BY <2>2, <3>4, <3>5 DEF CollectorFits
    <3>7. PICK d \in Records \ gc.expected :
            plan.kinds[d] = th.kind /\ Named(th.id, th.kind, Mine(plan, d), stock, ids)
      BY <3>6 DEF Strange
    <3>8. th.kind = "image" /\ n \in Mine(plan, d)
      BY <3>3, <3>5, <3>7, TargetIs
    <3>9. d = c
      BY <2>6, <3>7, <3>8, AloneIs DEF Kind
    <3> QED
      BY <2>2, <3>7, <3>9
  <2>7. cr[c].at # "live" \/ Kept(stock, stock', n) \/ events' = events + 1
        \/ Dormant(cr[c], task[<<c, "timer">>], task[<<c, "poll">>])
    BY <2>4, <2>6, UnheldIs
  <2> QED
    BY <2>4, <2>5, <2>7, PaidByOthers
<1> QED
  BY <1>2, <1>3 DEF Collection

-----------------------------------------------------------------------------
(* The budget holds.                                                       *)

LEMMA OwnPaid ==
  ASSUME Typed, Fits, NEW c \in Records, Kind(c) = "image", Steady(c), Handler(c) \/ Timer(c) \/ Poller(c)
  PROVE  Paid(c)
<1>1. "change" \in Ways /\ "timer" \in Ways /\ "poll" \in Ways
  BY DEF Ways
<1>2. (\E w \in Ways : Step(<<c, w>>)) => Paid(c)
  BY StepPaid
<1>3. StartChange(c) \/ PatchChange(c) \/ ReleaseRecord(c) => Paid(c)
  BY StartChangePaid, PatchChangePaid, ReleaseRecordPaid
<1>4. StartTimer(c) \/ StartPoll(c) \/ (\E w \in {"timer", "poll"} : PatchTimer(c, <<c, w>>)) => Paid(c)
  BY StartTimerPaid, StartPollPaid, PatchTimerPaid
<1> QED
  BY <1>1, <1>2, <1>3, <1>4 DEF Handler, Timer, Poller

LEMMA NextPaid ==
  ASSUME Typed, Fits, NEW c \in Records, Kind(c) = "image", Alone(c), Next
  PROVE  Paid(c)
<1> Steady(c)
  BY AloneIs
<1>1. CASE Users /\ UNCHANGED <<task, gc>>
  <2>1. PICK d \in Records : CreateRecord(d) \/ EditRecord(d) \/ DeleteRecord(d) \/ UploadImage(d)
    BY <1>1 DEF Users
  <2> QED
    BY <1>1, <2>1, CreateRecordPaid, EditRecordPaid, DeleteRecordPaid, WorldPaid, ForeignPaid
<1>2. CASE (LoseResource \/ ImportGoesOn) /\ UNCHANGED <<task, gc>>
  BY <1>2, WorldPaid
<1>3. CASE \E d \in Records : ImportAges(d) /\ UNCHANGED <<task, gc>>
  BY <1>3, ImportAgesPaid, ForeignPaid
<1>4. CASE \E d \in Records : Handler(d) \/ Timer(d) \/ Poller(d)
  <2>1. PICK d \in Records : Handler(d) \/ Timer(d) \/ Poller(d)
    BY <1>4
  <2>2. CASE d = c
    BY <2>1, <2>2, OwnPaid
  <2>3. CASE d # c
    <3>1. (\E w \in Ways : Step(<<d, w>>)) => Paid(c)
      BY <2>3, ForeignStep
    <3>2. "change" \in Ways /\ "timer" \in Ways /\ "poll" \in Ways
      BY DEF Ways
    <3>3. CASE \E w \in Ways : Step(<<d, w>>)
      BY <3>1, <3>3
    <3>4. CASE ~ \E w \in Ways : Step(<<d, w>>)
      <4>1. \/ StartChange(d) \/ StartTimer(d) \/ StartPoll(d) \/ PatchChange(d) \/ ReleaseRecord(d)
            \/ PatchTimer(d, <<d, "timer">>) \/ PatchTimer(d, <<d, "poll">>)
        BY <2>1, <3>2, <3>4 DEF Handler, Timer, Poller
      <4> QED
        BY <2>3, <4>1, ForeignPaid
    <3> QED
      BY <3>3, <3>4
  <2> QED
    BY <2>2, <2>3
<1>5. CASE Collection
  BY <1>5, CollectionPaid
<1>6. CASE \E t \in Threads : Fail(t)
  <2>1. PICK t \in Threads : Fail(t)
    BY <1>6
  <2>2. CASE \E w \in Ways : t = <<c, w>>
    BY <2>1, <2>2, FailPaid
  <2>3. CASE \A w \in Ways : t # <<c, w>>
    BY <2>1, <2>3, FailElsewherePaid
  <2> QED
    BY <2>2, <2>3
<1>7. CASE Crash
  BY <1>7, CrashPaid
<1> QED
  BY <1>1, <1>2, <1>3, <1>4, <1>5, <1>6, <1>7 DEF Next

\* The plan is what it was, and images are counted for image records alone.
LEMMA NextCounts ==
  ASSUME Typed, Fits, Next
  PROVE  plan' = plan /\ \A c \in Records : Kind(c) # "image" => imports'[c] = imports[c]
<1>1. ASSUME NEW t \in Threads, Step(t)
      PROVE  plan' = plan /\ \A c \in Records : Kind(c) # "image" => imports'[c] = imports[c]
  <2>1. \/ imports' = imports
        \/ /\ Make(t) /\ task[t].kind = "image"
           /\ imports' = [imports EXCEPT ![task[t].cr] = @ + 1]
    BY <1>1, StepFrame
  <2>2. CASE Make(t) /\ task[t].kind = "image" /\ imports' = [imports EXCEPT ![task[t].cr] = @ + 1]
    <3>1. Busy(t) /\ Head(task[t].todo) = "make"
      BY <2>2 DEF Make, At
    <3>2. t # Collector
      BY <3>1, CollectorIs DEF GcSteps
    <3>3. PICK d \in Records, w \in Ways : t = <<d, w>>
      BY <3>2 DEF Threads, Ways
    <3>4. task[t].cr = d /\ task[t].kind = Kind(d)
      BY <3>1, <3>3, ThreadIs DEF WorkFits, Kind
    <3> QED
      BY <1>1, <2>2, <3>4, StepFrame DEF Typed
  <2> QED
    BY <1>1, <2>1, <2>2, StepFrame
<1>2. ASSUME plan' = plan, imports' = imports
      PROVE  plan' = plan /\ \A c \in Records : Kind(c) # "image" => imports'[c] = imports[c]
  BY <1>2
<1>3. CASE Users /\ UNCHANGED <<task, gc>>
  BY <1>2, <1>3 DEF Users, CreateRecord, EditRecord, DeleteRecord, UploadImage
<1>4. CASE LoseResource \/ ImportGoesOn
  BY <1>2, <1>4 DEF LoseResource, ImportGoesOn, records
<1>5. CASE \E c \in Records : ImportAges(c)
  BY <1>2, <1>5 DEF ImportAges
<1>6. CASE \E c \in Records : Handler(c) \/ Timer(c) \/ Poller(c)
  <2>1. PICK c \in Records : Handler(c) \/ Timer(c) \/ Poller(c)
    BY <1>6
  <2>2. \A w \in Ways : <<c, w>> \in Threads
    BY ThreadsAre
  <2>3. CASE \E w \in Ways : Step(<<c, w>>)
    BY <1>1, <2>2, <2>3
  <2>4. CASE ~ \E w \in Ways : Step(<<c, w>>)
    <3>1. \/ StartChange(c) \/ StartTimer(c) \/ StartPoll(c) \/ PatchChange(c) \/ ReleaseRecord(c)
          \/ PatchTimer(c, <<c, "timer">>) \/ PatchTimer(c, <<c, "poll">>)
      BY <2>1, <2>4 DEF Handler, Timer, Poller, Ways
    <3>2. plan' = plan /\ imports' = imports
      BY <3>1 DEF StartChange, StartTimer, StartPoll, StartThread, PatchChange, ReleaseRecord, PatchTimer, records
    <3> QED
      BY <1>2, <3>2
  <2> QED
    BY <2>3, <2>4
<1>7. CASE Collection
  <2>1. CASE Step(Collector)
    BY <1>1, <2>1, ThreadsAre
  <2>2. CASE StartCollection \/ Scan \/ NextOrphan
    BY <1>2, <2>2 DEF StartCollection, Scan, NextOrphan, records
  <2> QED
    BY <1>7, <2>1, <2>2 DEF Collection
<1>8. CASE (\E t \in Threads : Fail(t)) \/ Crash
  BY <1>2, <1>8 DEF Fail, Crash, KeepRecords
<1> QED
  BY <1>3, <1>4, <1>5, <1>6, <1>7, <1>8 DEF Next

LEMMA InitInv == Init => Inv
<1> SUFFICES ASSUME Init PROVE Inv
  OBVIOUS
<1>1. Typed /\ Fits
  BY InitFits
<1>2. \A c \in Records : imports[c] = 0 /\ cr[c].at # "live"
  BY DEF Init, InitRecords, Absent
<1>3. ASSUME NEW c \in Records PROVE AheadOf(c) = 0
  <2> DEFINE g == task[<<c, "change">>]
             m == task[<<c, "timer">>]
  <2>1. \A w \in Ways : task[<<c, w>>] = Idle
    BY ThreadsAre DEF Init
  <2>2. g.todo = <<>> /\ m.todo = <<>>
    BY <2>1, IdleIsThread DEF Ways
  <2>3. ~Makes(g) /\ ~Makes(m)
    BY <2>2 DEF Makes, Stage
  <2> HIDE DEF g, m
  <2>4. One(Makes(g)) = 0 /\ One(Makes(m)) = 0
    BY <2>3, OneIs
  <2> QED
    BY <1>2, <2>4 DEF AheadOf, Ahead, g, m
<1>4. events = 0
  BY DEF Init, InitRecords
<1> QED
  BY <1>1, <1>2, <1>3, <1>4 DEF Inv, Budgeted

LEMMA NextInv == Inv /\ [Next]_vars => Inv'
<1> SUFFICES ASSUME Inv, [Next]_vars PROVE Inv'
  OBVIOUS
<1>1. Typed /\ Fits /\ \A c \in Records : Budgeted(c)
  BY DEF Inv
<1>2. Typed' /\ Fits'
  BY <1>1, StepFits
<1>3. CASE UNCHANGED vars
  <2>1. \A c \in Records : Budgeted(c)'
    BY <1>1, <1>3 DEF Budgeted, AheadOf, Kind, Alone, NamesOf, vars, records
  <2> QED
    BY <1>2, <2>1 DEF Inv
<1>4. CASE Next
  <2>1. plan' = plan
    BY <1>1, <1>4, NextCounts
  <2>2. ASSUME NEW c \in Records PROVE Budgeted(c)'
    <3>1. (Kind(c)' <=> Kind(c)) \/ Kind(c)' = Kind(c)
      BY <2>1 DEF Kind
    <3>2. Kind(c)' = Kind(c)
      BY <2>1 DEF Kind
    <3>3. Alone(c)' <=> Alone(c)
      BY <2>1 DEF Alone, NamesOf, Kind
    <3>4. CASE Kind(c) = "image"
      <4> SUFFICES ASSUME Alone(c) PROVE imports'[c] + AheadOf(c)' <= 4 * events'
        BY <3>2, <3>3, <3>4 DEF Budgeted
      <4>1. Paid(c)
        BY <1>1, <1>4, <3>4, NextPaid
      <4>2. imports[c] + AheadOf(c) <= 4 * events
        BY <1>1, <3>4 DEF Budgeted
      <4>3. /\ imports[c] \in Nat /\ events \in Nat /\ imports'[c] \in Nat /\ events' \in Nat
            /\ AheadOf(c) \in Nat
        BY <1>1, <1>2, SoundFits, AheadIs DEF Typed, Fits, AheadOf
      <4>4. AheadOf(c)' \in Nat
        <5>1. Sound(cr'[c], task'[<<c, "poll">>])
          BY <1>2, SoundFits DEF Fits
        <5> QED
          BY <5>1, AheadIs DEF AheadOf
      <4> QED
        BY <4>1, <4>2, <4>3, <4>4 DEF Paid
    <3>5. CASE Kind(c) # "image"
      BY <1>1, <1>4, <3>2, <3>5, NextCounts DEF Budgeted
    <3> QED
      BY <3>4, <3>5
  <2> QED
    BY <1>2, <2>2 DEF Inv
<1> QED
  BY <1>3, <1>4

\* Whatever happens, renames included, ids stay unique; records, threads and the
\* registry name resources of their own kind and of a name that the record may have;
\* and the images made for a record that keeps its name and shares it with no other,
\* together with those that may yet be made, are paid for by the changes and faults.
THEOREM Invariant == Spec => []Inv
<1> QED
  BY InitInv, NextInv, PTL DEF Spec

\* create_image, reconcile_image and poll_image_status make the image of a record that
\* keeps its name and shares it with no other at most four times for every change of
\* the record and every fault, whatever the order of their patches.
THEOREM ImportsAreBounded == Spec => []ImportsBounded
<1>1. Inv => ImportsBounded
  <2> SUFFICES ASSUME Inv, NEW c \in Records, Alone(c) PROVE imports[c] <= 4 * events
    BY DEF ImportsBounded
  <2>1. Typed /\ Fits /\ Budgeted(c)
    BY DEF Inv
  <2>2. imports[c] \in Nat /\ events \in Nat /\ AheadOf(c) \in Nat
    BY <2>1, SoundFits, AheadIs DEF Typed, Fits, AheadOf
  <2>3. CASE Kind(c) = "image"
    BY <2>1, <2>2, <2>3 DEF Budgeted
  <2>4. CASE Kind(c) # "image"
    BY <2>1, <2>2, <2>4 DEF Budgeted
  <2> QED
    BY <2>3, <2>4
<1> QED
  BY <1>1, Invariant, PTL
=============================================================================

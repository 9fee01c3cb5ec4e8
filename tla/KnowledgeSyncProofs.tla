-------------------------- MODULE KnowledgeSyncProofs --------------------------
(* One project's wiki and code graph, for any number of assets, runs of setup  *)
(* and kills: however stale the copies of the registry that setup and the      *)
(* flushes write back, no second asset is made for a branch, nothing is called *)
(* ready that never was, and no retry is delivered that had no effect.         *)
EXTENDS KnowledgeSync, FiniteSetTheorems, TLAPS

(* A half of a row that names an asset names one the provider has; when it     *)
(* says "ready", some asset was.                                               *)
HalfReady(half, assets) == half.sync = "ready" => \E i \in Ids : assets[i].ready

HalfOk(half, assets) ==
    /\ DOMAIN half = DOMAIN NoHalf
    /\ half.id = NoId \/ (half.id \in Ids /\ assets[half.id].made)
    /\ HalfReady(half, assets)

RowOk(row, as) ==
    /\ DOMAIN row = DOMAIN NoRegistry
    /\ \A k \in Kinds : HalfOk(row[k], as[k])

(* What DeliveredTookEffect says of one action. *)
Took(action, as, bd) ==
    \E i \in Ids :
        /\ action[2] = "metadata" => as[action[1]][i].meta /\ <<action[1], i>> \in bd
        /\ action[2] = "readiness" => as[action[1]][i].ready
        /\ action[2] \in {"raw", "sync"} => as[action[1]][i].index # "none"

(* What NoDuplicates says, of two assets.  A graph without a branch is one of  *)
(* every branch.                                                               *)
Alike(k, rec, old) ==
    k = "wiki" \/ rec.branch = old.branch \/ rec.branch = NoBranch \/ old.branch = NoBranch

OneMade(as) ==
    \A k \in Kinds : \A i, j \in Ids :
        as[k][i].made /\ as[k][j].made /\ Alike(k, as[k][i], as[k][j]) => i = j

(* The provider names the branch of every graph, or of none.                   *)
AllNamed(as) ==
    \A i \in Ids : as["graph"][i].made => (NamesBranch <=> as["graph"][i].branch # NoBranch)

AssetOk(rec) ==
    /\ DOMAIN rec = DOMAIN Absent
    /\ rec.index = "ready" => rec.ready
    /\ rec.ready \/ rec.index # "none" => rec.made

AssetsOk ==
    /\ asset = [k \in Kinds |-> [i \in Ids |-> asset[k][i]]]
    /\ \A k \in Kinds, i \in Ids : AssetOk(asset[k][i])
    /\ AllNamed(asset)

(* Past Ensure the half that setup works on has an id.                         *)
SetupOk(rec, as) ==
    /\ DOMAIN rec = DOMAIN IdleSetup
    /\ rec.kind \in Kinds
    /\ RowOk(rec.row, as)
    /\ rec.pc \in {"metadata", "raw", "sync", "wait"} => rec.row[rec.kind].id # NoId
    /\ rec.pc = "raw" => rec.kind = "wiki"

(* As long as setup has seen all there was, it knows its branch, and it is     *)
(* about to create an asset only when there is none that matches.              *)
Working == {"ensure", "create", "metadata", "raw", "sync", "wait"}

NoneFound(rec, as) ==
    \A i \in Ids : as[rec.kind][i].made =>
        rec.kind # "wiki" /\ as[rec.kind][i].branch \notin {NoBranch, rec.branch}

SightOk(bl, rec, as) ==
    bl = 0 => /\ OneMade(as)
              /\ rec.pc \in Working => rec.branch # NoBranch
              /\ rec.pc = "create" => NoneFound(rec, as)

FlushOk(rec, as, bd) ==
    /\ DOMAIN rec = DOMAIN IdleFlush
    /\ RowOk(rec.row, as)
    /\ rec.action \in Actions /\ rec.seen \subseteq Actions
    /\ rec.pc \in {"save", "mark"} => Took(rec.action, as, bd)

EntryOk(action, entry, as, bd) ==
    /\ DOMAIN entry = {"status", "id"}
    /\ entry.id = NoId \/ (entry.id \in Ids /\ as[action[1]][entry.id].made)
    /\ entry.status = "delivered" => Took(action, as, bd)

EntriesOk(as, bd) == \A a \in Actions : EntryOk(a, queue[a], as, bd)

KnowledgeInvariant ==
    /\ AssetsOk
    /\ RowOk(registry, asset)
    /\ SetupOk(setup, asset)
    /\ blind \in Nat /\ SightOk(blind, setup, asset)
    /\ FlushOk(flush, asset, bound)
    /\ queue = [a \in Actions |-> queue[a]]
    /\ EntriesOk(asset, bound)

-------------------------------------------------------------------------------
(* The provider forgets nothing: an asset stays made, registered, sent to be   *)
(* indexed and once ready.                                                     *)
Later(rec, old) ==
    /\ old.made => rec.made
    /\ old.meta => rec.meta
    /\ old.ready => rec.ready
    /\ old.index # "none" => rec.index # "none"

Grows(as, bd) ==
    /\ \A k \in Kinds, i \in Ids : Later(as[k][i], asset[k][i])
    /\ bound \subseteq bd

LEMMA ActionIs ==
    ASSUME NEW a \in Actions
    PROVE  a[1] \in Kinds /\ a[2] \in {"metadata", "sync", "readiness", "raw"}
BY DEF Actions, Kinds

LEMMA HalfKept ==
    ASSUME NEW k \in Kinds, NEW half, NEW as, NEW bd, Grows(as, bd), HalfOk(half, asset[k])
    PROVE  HalfOk(half, as[k])
BY KnowledgeConstants DEF Grows, Later, HalfOk, HalfReady

LEMMA RowKept ==
    ASSUME NEW row, NEW as, NEW bd, Grows(as, bd), RowOk(row, asset)
    PROVE  RowOk(row, as)
BY HalfKept DEF RowOk

LEMMA TookKept ==
    ASSUME NEW a \in Actions, NEW as, NEW bd, Grows(as, bd), Took(a, asset, bound)
    PROVE  Took(a, as, bd)
<1>1. a[1] \in Kinds BY ActionIs
<1>2. PICK i \in Ids :
         /\ a[2] = "metadata" => asset[a[1]][i].meta /\ <<a[1], i>> \in bound
         /\ a[2] = "readiness" => asset[a[1]][i].ready
         /\ a[2] \in {"raw", "sync"} => asset[a[1]][i].index # "none"
  BY DEF Took
<1>3. Later(as[a[1]][i], asset[a[1]][i]) /\ bound \subseteq bd BY <1>1 DEF Grows
<1> QED BY <1>2, <1>3 DEF Took, Later

LEMMA FlushKept ==
    ASSUME NEW rec, NEW as, NEW bd, Grows(as, bd), FlushOk(rec, asset, bound)
    PROVE  FlushOk(rec, as, bd)
BY RowKept, TookKept DEF FlushOk

LEMMA EntryKept ==
    ASSUME NEW a \in Actions, NEW entry, NEW as, NEW bd, Grows(as, bd), EntryOk(a, entry, asset, bound)
    PROVE  EntryOk(a, entry, as, bd)
<1>1. a[1] \in Kinds BY ActionIs
<1> QED BY <1>1, TookKept DEF EntryOk, Grows, Later

LEMMA EntriesKept ==
    ASSUME NEW as, NEW bd, Grows(as, bd), EntriesOk(asset, bound)
    PROVE  EntriesOk(as, bd)
BY EntryKept DEF EntriesOk

LEMMA SetupKept ==
    ASSUME NEW rec, NEW as, NEW bd, Grows(as, bd), SetupOk(rec, asset)
    PROVE  SetupOk(rec, as)
BY RowKept DEF SetupOk

LEMMA NoneGrows == Grows(asset, bound)
BY DEF Grows, Later

-------------------------------------------------------------------------------
(* The rows that setup and the handlers write.                                 *)
LEMMA ErrorSet ==
    ASSUME NEW row, NEW as, NEW e, RowOk(row, as)
    PROVE  RowOk([row EXCEPT !.error = e], as)
BY DEF RowOk, NoRegistry, Kinds

LEMMA HalfSet ==
    ASSUME NEW row, NEW as, NEW k \in Kinds, NEW half, RowOk(row, as), HalfOk(half, as[k])
    PROVE  RowOk([row EXCEPT ![k] = half], as) /\ [row EXCEPT ![k] = half][k] = half
<1> DEFINE next == [row EXCEPT ![k] = half]
<1>1. k \in DOMAIN row BY DEF RowOk, NoRegistry, Kinds
<1>2. DOMAIN next = DOMAIN row /\ next[k] = half /\ \A x \in Kinds \ {k} : next[x] = row[x]
  BY <1>1 DEF RowOk, NoRegistry, Kinds
<1> HIDE DEF next
<1>3. \A x \in Kinds : HalfOk(next[x], as[x]) BY <1>2 DEF RowOk
<1>4. RowOk(next, as) BY <1>2, <1>3 DEF RowOk
<1> QED BY <1>2, <1>4 DEF next

LEMMA SyncSet ==
    ASSUME NEW row, NEW as, NEW k \in Kinds, NEW s, RowOk(row, as),
           s = "ready" => HalfReady([row[k] EXCEPT !.sync = s], as[k])
    PROVE  RowOk([row EXCEPT ![k].sync = s], as)
<1> DEFINE half == [row[k] EXCEPT !.sync = s]
<1>1. DOMAIN row[k] = DOMAIN NoHalf BY DEF RowOk, HalfOk
<1>2. DOMAIN half = DOMAIN NoHalf /\ half.id = row[k].id /\ half.sync = s BY <1>1 DEF NoHalf
<1>3. [row EXCEPT ![k].sync = s] = [row EXCEPT ![k] = half] OBVIOUS
<1> HIDE DEF half
<1>4. HalfOk(half, as[k]) BY <1>2 DEF HalfOk, RowOk, HalfReady, half
<1> QED BY <1>3, <1>4, HalfSet

(* Both fields of a half are set: by Wait and by the retry that polls.         *)
Marked(row, k, s, t) == [row EXCEPT ![k].status = s, ![k].sync = t]

LEMMA HalfMarked ==
    ASSUME NEW row, NEW as, NEW k \in Kinds, NEW s, NEW t, RowOk(row, as),
           t = "ready" => \E i \in Ids : as[k][i].ready
    PROVE  RowOk(Marked(row, k, s, t), as)
<1> DEFINE half == [[row[k] EXCEPT !.status = s] EXCEPT !.sync = t]
<1>0. k \in DOMAIN row BY DEF RowOk, NoRegistry, Kinds
<1>1. DOMAIN row[k] = DOMAIN NoHalf BY DEF RowOk, HalfOk
<1>2. DOMAIN half = DOMAIN NoHalf /\ half.id = row[k].id /\ half.sync = t BY <1>1 DEF NoHalf
<1>3. Marked(row, k, s, t) = [row EXCEPT ![k] = half] BY <1>0 DEF Marked
<1> HIDE DEF half
<1>4. HalfOk(half, as[k]) BY <1>2 DEF HalfOk, RowOk, HalfReady
<1>5. RowOk([row EXCEPT ![k] = half], as) BY <1>4, HalfSet
<1> QED BY <1>3, <1>5

LEMMA StatusSet ==
    ASSUME NEW row, NEW as, NEW k \in Kinds, NEW s, RowOk(row, as)
    PROVE  RowOk([row EXCEPT ![k].status = s], as)
<1> DEFINE half == [row[k] EXCEPT !.status = s]
<1>1. DOMAIN row[k] = DOMAIN NoHalf BY DEF RowOk, HalfOk
<1>2. DOMAIN half = DOMAIN NoHalf /\ half.id = row[k].id /\ half.sync = row[k].sync BY <1>1 DEF NoHalf
<1>3. [row EXCEPT ![k].status = s] = [row EXCEPT ![k] = half] OBVIOUS
<1> HIDE DEF half
<1>4. HalfOk(half, as[k]) BY <1>2 DEF HalfOk, RowOk, HalfReady
<1> QED BY <1>3, <1>4, HalfSet

LEMMA NoRegistryOk == ASSUME NEW as PROVE RowOk(NoRegistry, as)
<1>1. NoRegistry["wiki"] = NoHalf /\ NoRegistry["graph"] = NoHalf BY DEF NoRegistry
<1>2. HalfOk(NoHalf, as["wiki"]) /\ HalfOk(NoHalf, as["graph"]) BY DEF NoHalf, HalfOk, HalfReady
<1> QED BY <1>1, <1>2 DEF RowOk, Kinds

(* A write of one asset of the provider.                                       *)
Wrote(k, i, rec) ==
    /\ asset' = [kk \in Kinds |-> [ii \in Ids |-> asset'[kk][ii]]]
    /\ asset'[k][i] = rec
    /\ \A kk \in Kinds, ii \in Ids : kk # k \/ ii # i => asset'[kk][ii] = asset[kk][ii]

LEMMA WriteAsset ==
    ASSUME AssetsOk, NEW k \in Kinds, NEW i \in Ids, NEW rec,
           asset' = [asset EXCEPT ![k] = [asset[k] EXCEPT ![i] = rec]]
    PROVE  Wrote(k, i, rec)
<1>1. /\ DOMAIN asset = Kinds /\ \A kk \in Kinds : DOMAIN asset[kk] = Ids
      /\ asset = [kk \in Kinds |-> asset[kk]]
      /\ asset[k] = [ii \in Ids |-> asset[k][ii]]
      /\ \A kk \in Kinds : asset[kk] = [ii \in Ids |-> asset[kk][ii]]
  BY DEF AssetsOk
<1> DEFINE part == [asset[k] EXCEPT ![i] = rec]
<1>2. part[i] = rec /\ DOMAIN part = Ids /\ \A ii \in Ids \ {i} : part[ii] = asset[k][ii] BY <1>1
<1>3. part = [ii \in Ids |-> part[ii]] BY <1>1
<1> HIDE DEF part
<1>4. asset' = [asset EXCEPT ![k] = part] BY DEF part
<1>5. /\ asset' = [kk \in Kinds |-> asset'[kk]]
      /\ asset'[k] = part /\ \A kk \in Kinds \ {k} : asset'[kk] = asset[kk]
  BY <1>1, <1>4
<1>6. \A kk \in Kinds : asset'[kk] = [ii \in Ids |-> asset'[kk][ii]] BY <1>1, <1>3, <1>5
<1>7. asset' = [kk \in Kinds |-> [ii \in Ids |-> asset'[kk][ii]]] BY <1>5, <1>6
<1> QED BY <1>2, <1>5, <1>7 DEF Wrote

(* The provider made no asset. *)
SameMade ==
    \A kk \in Kinds, ii \in Ids :
        asset'[kk][ii].made = asset[kk][ii].made /\ asset'[kk][ii].branch = asset[kk][ii].branch

LEMMA WriteKeeps ==
    ASSUME AssetsOk, bound \subseteq bound', NEW k \in Kinds, NEW i \in Ids, NEW rec,
           Wrote(k, i, rec), AssetOk(rec), Later(rec, asset[k][i]),
           rec.made = asset[k][i].made, rec.branch = asset[k][i].branch
    PROVE  AssetsOk' /\ Grows(asset', bound') /\ SameMade
<1>1. SameMade BY DEF Wrote, SameMade
<1>2. \A kk \in Kinds, ii \in Ids : AssetOk(asset'[kk][ii]) BY DEF Wrote, AssetsOk
<1>3. AllNamed(asset') BY <1>1 DEF AllNamed, AssetsOk, SameMade, Kinds
<1>4. AssetsOk' BY <1>2, <1>3 DEF Wrote, AssetsOk
<1>5. Grows(asset', bound') BY DEF Grows, Wrote, Later
<1> QED BY <1>1, <1>4, <1>5

(* The assets that the code writes to, one field at a time.                    *)
Written(f) == IF f = "index" THEN "indexing" ELSE TRUE
Fields == {"meta", "raw", "index"}
Names == {"made", "branch", "meta", "raw", "index", "ready"}

WritesField(k, i, f) ==
    asset' = [asset EXCEPT ![k] = [asset[k] EXCEPT ![i] = [asset[k][i] EXCEPT ![f] = Written(f)]]]

(* The provider went on from one asset to the next without making another.     *)
Goes == AssetsOk' /\ Grows(asset', bound') /\ SameMade

LEMMA OneKept == ASSUME SameMade, OneMade(asset) PROVE OneMade(asset')
<1> SUFFICES ASSUME NEW k \in Kinds, NEW i \in Ids, NEW j \in Ids,
                    asset'[k][i].made, asset'[k][j].made, Alike(k, asset'[k][i], asset'[k][j])
             PROVE  i = j
  BY DEF OneMade
<1>1. asset[k][i].made /\ asset[k][j].made /\ Alike(k, asset[k][i], asset[k][j])
  BY DEF SameMade, Alike
<1> QED BY <1>1 DEF OneMade

(* The steps on which setup neither looks for an asset nor makes one.          *)
LEMMA SightKept ==
    ASSUME KnowledgeInvariant, SameMade, UNCHANGED blind,
           \/ UNCHANGED setup
           \/ setup'.pc \notin Working
           \/ setup.pc \in Working /\ setup'.branch = setup.branch /\ setup'.pc # "create"
    PROVE  SightOk(blind', setup', asset')
<1> SUFFICES ASSUME blind = 0
             PROVE  /\ OneMade(asset')
                    /\ setup'.pc \in Working => setup'.branch # NoBranch
                    /\ setup'.pc = "create" => NoneFound(setup', asset')
  BY DEF SightOk
<1>1. /\ OneMade(asset)
      /\ setup.pc \in Working => setup.branch # NoBranch
      /\ setup.pc = "create" => NoneFound(setup, asset)
  BY DEF KnowledgeInvariant, SightOk
<1>2. OneMade(asset') BY <1>1, OneKept
<1>3. CASE UNCHANGED setup
  <2>1. setup.kind \in Kinds BY DEF KnowledgeInvariant, SetupOk
  <2> QED BY <1>1, <1>2, <1>3, <2>1 DEF NoneFound, SameMade
<1>4. "create" \in Working BY DEF Working
<1> QED BY <1>1, <1>2, <1>3, <1>4

LEMMA FieldWrites ==
    ASSUME AssetsOk, NEW k \in Kinds, NEW i \in Ids, NEW f \in Fields,
           WritesField(k, i, f), bound \subseteq bound', f = "index" => asset[k][i].made
    PROVE  Goes /\ asset'[k][i][f] = Written(f)
<1> DEFINE rec == [asset[k][i] EXCEPT ![f] = Written(f)]
<1>1. AssetOk(asset[k][i]) BY DEF AssetsOk
<1>2. DOMAIN asset[k][i] = Names BY <1>1 DEF AssetOk, Absent, Names
<1>3. /\ DOMAIN rec = DOMAIN asset[k][i] /\ rec[f] = Written(f)
      /\ \A g \in Names \ {f} : rec[g] = asset[k][i][g]
  BY <1>2 DEF Fields, Names
<1>4. /\ rec.made = asset[k][i].made /\ rec.branch = asset[k][i].branch /\ rec.ready = asset[k][i].ready
      /\ f # "meta" => rec.meta = asset[k][i].meta
      /\ f = "meta" => rec.meta = TRUE
      /\ f # "index" => rec.index = asset[k][i].index
      /\ f = "index" => rec.index = "indexing"
  BY <1>3 DEF Fields, Written, Names
<1>5. Wrote(k, i, rec) BY WriteAsset DEF WritesField
<1> HIDE DEF rec
<1>6. AssetOk(rec) BY <1>1, <1>3, <1>4 DEF AssetOk
<1>7. Later(rec, asset[k][i]) BY <1>4 DEF Later
<1>8. asset'[k][i][f] = Written(f) BY <1>3, <1>5 DEF Wrote
<1> QED BY <1>4, <1>5, <1>6, <1>7, <1>8, WriteKeeps DEF Goes

LEMMA IndexStarts ==
    ASSUME AssetsOk, NEW k \in Kinds, NEW i \in Ids,
           asset' = [asset EXCEPT ![k][i].index = "indexing"], UNCHANGED bound, asset[k][i].made
    PROVE  Goes /\ asset'[k][i].index # "none"
<1>1. "index" \in Fields /\ Written("index") = "indexing" BY DEF Fields, Written
<1>2. WritesField(k, i, "index") BY <1>1 DEF WritesField
<1>3. bound \subseteq bound' OBVIOUS
<1>4. Goes /\ asset'[k][i]["index"] = Written("index") BY <1>1, <1>2, <1>3, FieldWrites
<1> QED BY <1>1, <1>4

LEMMA RawWritten ==
    ASSUME AssetsOk, NEW i \in Ids, asset' = [asset EXCEPT !["wiki"][i].raw = TRUE], UNCHANGED bound
    PROVE  Goes
<1>1. "raw" \in Fields /\ Written("raw") = TRUE /\ "raw" # "index" /\ "wiki" \in Kinds BY DEF Fields, Written, Kinds
<1>2. WritesField("wiki", i, "raw") BY <1>1 DEF WritesField
<1>3. bound \subseteq bound' OBVIOUS
<1> QED BY <1>1, <1>2, <1>3, FieldWrites

LEMMA Registers ==
    ASSUME AssetsOk, NEW k \in Kinds, NEW i \in Ids, Register(k, i), bound \subseteq bound'
    PROVE  Goes /\ asset'[k][i].meta
<1>1. "meta" \in Fields /\ Written("meta") = TRUE /\ "meta" # "index" BY DEF Fields, Written
<1>2. WritesField(k, i, "meta") BY <1>1 DEF WritesField, Register
<1>3. Goes /\ asset'[k][i]["meta"] = Written("meta") BY <1>1, <1>2, FieldWrites
<1> QED BY <1>1, <1>3

LEMMA NothingWritten == ASSUME AssetsOk, UNCHANGED provider PROVE Goes
BY NoneGrows DEF provider, AssetsOk, Goes, Grows, Later, AllNamed, SameMade

-------------------------------------------------------------------------------
(* Steps of setup: it moves on, or saves its copy with an error, with a retry  *)
(* in the queue or without one.                                                *)
LEMMA SetupMoves ==
    ASSUME KnowledgeInvariant, AssetsOk', Grows(asset', bound'),
           UNCHANGED <<registry, queue, flush>>, SetupOk(setup', asset'),
           blind' \in Nat, SightOk(blind', setup', asset')
    PROVE  KnowledgeInvariant'
<1>1. RowOk(registry, asset') BY RowKept DEF KnowledgeInvariant
<1>2. FlushOk(flush, asset', bound') BY FlushKept DEF KnowledgeInvariant
<1>3. EntriesOk(asset', bound') BY EntriesKept DEF KnowledgeInvariant
<1> QED BY <1>1, <1>2, <1>3 DEF KnowledgeInvariant, EntriesOk

QueueOk == queue = [a \in Actions |-> queue[a]] /\ EntriesOk(asset, bound)

LEMMA EnqueueKeeps ==
    ASSUME KnowledgeInvariant, Grows(asset', bound'), NEW a \in Actions, Enqueue(a)
    PROVE  QueueOk'
<1> DEFINE id == setup.row[a[1]].id
           entry == IF queue[a].status = "absent" THEN [status |-> "pending", id |-> id] ELSE queue[a]
<1>1. EntriesOk(asset', bound') BY EntriesKept DEF KnowledgeInvariant
<1>2. a[1] \in Kinds /\ RowOk(setup.row, asset')
  BY ActionIs, RowKept DEF KnowledgeInvariant, SetupOk
<1>3. id = NoId \/ (id \in Ids /\ asset'[a[1]][id].made) BY <1>2 DEF RowOk, HalfOk
<1>4. EntryOk(a, entry, asset', bound')
  <2>1. CASE queue[a].status = "absent"
    <3>1. entry.status = "pending" /\ entry.id = id /\ DOMAIN entry = {"status", "id"} BY <2>1
    <3> HIDE DEF id, entry
    <3> QED BY <3>1, <1>3 DEF EntryOk
  <2>2. CASE queue[a].status # "absent" BY <2>2, <1>1 DEF EntriesOk
  <2> QED BY <2>1, <2>2
<1>5. queue' = [queue EXCEPT ![a] = entry] BY DEF Enqueue
<1> HIDE DEF id, entry
<1>6. /\ queue' = [x \in Actions |-> queue'[x]] /\ queue'[a] = entry
      /\ \A x \in Actions \ {a} : queue'[x] = queue[x]
  BY <1>5 DEF KnowledgeInvariant
<1>7. \A x \in Actions : EntryOk(x, queue'[x], asset', bound') BY <1>1, <1>4, <1>6 DEF EntriesOk
<1> QED BY <1>6, <1>7 DEF QueueOk, EntriesOk

LEMMA SetupWrites ==
    ASSUME KnowledgeInvariant, AssetsOk', Grows(asset', bound'), UNCHANGED flush,
           UNCHANGED queue \/ \E a \in Actions : Enqueue(a),
           RowOk(registry', asset'), SetupOk(setup', asset'),
           blind' \in Nat, SightOk(blind', setup', asset')
    PROVE  KnowledgeInvariant'
<1>1. FlushOk(flush, asset', bound') BY FlushKept DEF KnowledgeInvariant
<1>2. QueueOk'
  <2>1. ASSUME UNCHANGED queue PROVE QueueOk'
    <3>1. EntriesOk(asset', bound') BY EntriesKept DEF KnowledgeInvariant
    <3> QED BY <2>1, <3>1 DEF KnowledgeInvariant, QueueOk, EntriesOk
  <2> QED BY <2>1, EnqueueKeeps
<1> QED BY <1>1, <1>2 DEF KnowledgeInvariant, QueueOk

LEMMA IdleSetupOk ==
    ASSUME NEW as, NEW pc, pc \in {"idle", "failed", "done"}
    PROVE  SetupOk([IdleSetup EXCEPT !.pc = pc], as) /\ [IdleSetup EXCEPT !.pc = pc].pc \notin Working
<1> DEFINE rec == [IdleSetup EXCEPT !.pc = pc]
<1>1. rec.pc = pc /\ rec.kind = "wiki" /\ rec.row = NoRegistry /\ DOMAIN rec = DOMAIN IdleSetup
  BY DEF IdleSetup
<1> HIDE DEF rec
<1>2. SetupOk(rec, as) BY <1>1, NoRegistryOk DEF SetupOk, Kinds
<1>3. rec.pc \notin Working BY <1>1 DEF Working
<1> QED BY <1>2, <1>3 DEF rec

LEMMA NothingSetUp == ASSUME NEW as PROVE SetupOk(IdleSetup, as) /\ IdleSetup.pc \notin Working
<1>1. IdleSetup.pc = "idle" /\ IdleSetup.kind = "wiki" /\ IdleSetup.row = NoRegistry BY DEF IdleSetup
<1> QED BY <1>1, NoRegistryOk DEF SetupOk, Kinds, Working

LEMMA NothingFlushed == ASSUME NEW as, NEW bd PROVE FlushOk(IdleFlush, as, bd)
<1>1. /\ IdleFlush.pc = "idle" /\ IdleFlush.row = NoRegistry /\ IdleFlush.action = <<"wiki", "sync">>
      /\ IdleFlush.seen = {}
  BY DEF IdleFlush
<1>2. <<"wiki", "sync">> \in Actions BY DEF Actions, Kinds
<1> QED BY <1>1, <1>2, NoRegistryOk DEF FlushOk

LEMMA SetupFails ==
    ASSUME KnowledgeInvariant, AssetsOk', Grows(asset', bound'), UNCHANGED flush,
           UNCHANGED queue \/ \E a \in Actions : Enqueue(a),
           UNCHANGED blind, blind = 0 => OneMade(asset'),
           NEW row, RowOk(row, asset'), RecordError(row)
    PROVE  KnowledgeInvariant'
<1>1. RowOk(registry', asset') BY ErrorSet DEF RecordError, Upsert
<1>2. SetupOk(setup', asset') /\ setup'.pc \notin Working BY IdleSetupOk DEF RecordError
<1>3. SightOk(blind', setup', asset') BY <1>2 DEF SightOk, Working
<1>4. blind' \in Nat BY DEF KnowledgeInvariant
<1> QED BY <1>1, <1>2, <1>3, <1>4, SetupWrites

LEMMA StepFails ==
    ASSUME KnowledgeInvariant, AssetsOk', Grows(asset', bound'), UNCHANGED <<flush, blind>>,
           blind = 0 => OneMade(asset'), FailOnly \/ \E a \in Actions : FailRetry(a)
    PROVE  KnowledgeInvariant'
<1>1. RowOk(setup.row, asset') BY RowKept DEF KnowledgeInvariant, SetupOk
<1> QED BY <1>1, SetupFails DEF FailOnly, FailRetry

LEMMA OneStays ==
    ASSUME KnowledgeInvariant, Goes, UNCHANGED blind PROVE blind' \in Nat /\ (blind = 0 => OneMade(asset'))
BY OneKept DEF KnowledgeInvariant, SightOk, Goes

(* Only the step changes, to one that the half allows.                         *)
LEMMA SetupGoesTo ==
    ASSUME SetupOk(setup, asset), Goes, NEW pc, setup' = [setup EXCEPT !.pc = pc],
           pc \in {"metadata", "raw", "sync", "wait"} => setup.row[setup.kind].id # NoId,
           pc = "raw" => setup.kind = "wiki"
    PROVE  /\ SetupOk(setup', asset')
           /\ setup'.pc = pc /\ setup'.kind = setup.kind /\ setup'.branch = setup.branch
<1>1. /\ setup'.pc = pc /\ setup'.kind = setup.kind /\ setup'.row = setup.row
      /\ setup'.branch = setup.branch /\ DOMAIN setup' = DOMAIN setup
  BY DEF SetupOk, IdleSetup
<1>2. RowOk(setup.row, asset') BY RowKept DEF SetupOk, Goes
<1> QED BY <1>1, <1>2 DEF SetupOk, Goes

LEMMA Adopts ==
    ASSUME DOMAIN setup = DOMAIN IdleSetup, setup.kind \in Kinds, RowOk(setup.row, asset'),
           NEW i \in Ids, Adopt(i), asset'[setup.kind][i].made
    PROVE  SetupOk(setup', asset') /\ setup'.pc = "metadata" /\ setup'.branch = setup.branch
<1> DEFINE k == setup.kind
           half == [id |-> i, status |-> StatusOf(k, i), sync |-> "pending"]
           row == [setup.row EXCEPT ![k] = half]
<1>1. half.id = i /\ half.sync = "pending" /\ DOMAIN half = DOMAIN NoHalf BY DEF NoHalf
<1>2. setup' = [[setup EXCEPT !.pc = "metadata"] EXCEPT !.row = row] BY DEF Adopt, IdleSetup
<1> HIDE DEF half
<1>3. HalfOk(half, asset'[k]) BY <1>1 DEF HalfOk, HalfReady
<1>4. RowOk(row, asset') /\ row[k] = half
  <2> HIDE DEF k
  <2>1. k \in Kinds BY DEF k
  <2> QED BY <1>3, <2>1, HalfSet
<1> HIDE DEF row
<1>5. /\ setup'.pc = "metadata" /\ setup'.kind = k /\ setup'.row = row
      /\ setup'.branch = setup.branch /\ DOMAIN setup' = DOMAIN setup
  BY <1>2 DEF IdleSetup
<1>6. i # NoId
  <2>1. Foreign \subseteq {0} /\ MaxAssets \in Nat BY KnowledgeConstants
  <2>2. i \in Int BY <2>1 DEF Ids
  <2> QED BY <2>2, KnowledgeConstants
<1> QED BY <1>1, <1>4, <1>5, <1>6 DEF SetupOk

-------------------------------------------------------------------------------
LEMMA KnowledgeInit == Init => KnowledgeInvariant
<1> SUFFICES ASSUME Init PROVE KnowledgeInvariant
  OBVIOUS
<1>1. AssetsOk /\ OneMade(asset)
  <2>1. PICK others \in SUBSET Foreign, b \in Branches :
          asset = [k \in Kinds |-> [i \in Ids |->
                     IF k = "graph" /\ i \in others
                     THEN [Absent EXCEPT !.made = TRUE, !.branch = Named(b)] ELSE Absent]]
    BY DEF Init
  <2>2. asset = [k \in Kinds |-> [i \in Ids |-> asset[k][i]]] BY <2>1
  <2>3. ASSUME NEW k \in Kinds, NEW i \in Ids
        PROVE  /\ AssetOk(asset[k][i])
               /\ asset[k][i].made => i = 0 /\ (NamesBranch <=> asset[k][i].branch # NoBranch)
    <3>1. CASE k = "graph" /\ i \in others
      <4>1. asset[k][i] = [Absent EXCEPT !.made = TRUE, !.branch = Named(b)] BY <2>1, <3>1
      <4>2. /\ DOMAIN asset[k][i] = DOMAIN Absent /\ asset[k][i].index = "none"
            /\ asset[k][i].made /\ ~asset[k][i].ready /\ asset[k][i].branch = Named(b)
        BY <4>1 DEF Absent
      <4>3. NamesBranch <=> Named(b) # NoBranch BY KnowledgeConstants DEF Named
      <4> QED BY <3>1, <4>2, <4>3, KnowledgeConstants DEF AssetOk
    <3>2. CASE ~(k = "graph" /\ i \in others)
      <4>1. asset[k][i] = Absent BY <2>1, <3>2
      <4> QED BY <4>1 DEF AssetOk, Absent
    <3> QED BY <3>1, <3>2
  <2>4. AllNamed(asset) BY <2>3 DEF AllNamed, Kinds
  <2>5. OneMade(asset) BY <2>3 DEF OneMade
  <2> QED BY <2>2, <2>3, <2>4, <2>5 DEF AssetsOk
<1>2. RowOk(registry, asset) BY NoRegistryOk DEF Init
<1>3. SetupOk(setup, asset) /\ setup.pc \notin Working
  BY NothingSetUp DEF Init
<1>4. FlushOk(flush, asset, bound)
  BY NothingFlushed DEF Init
<1>5. queue = [a \in Actions |-> queue[a]] /\ EntriesOk(asset, bound)
  <2>1. queue = [a \in Actions |-> [status |-> "absent", id |-> NoId]] BY DEF Init
  <2> QED BY <2>1 DEF EntriesOk, EntryOk
<1>6. SightOk(blind, setup, asset) BY <1>1, <1>3 DEF SightOk, Working
<1>7. blind \in Nat BY DEF Init
<1> QED BY <1>1, <1>2, <1>3, <1>4, <1>5, <1>6, <1>7 DEF KnowledgeInvariant

(* A step that sees all there is leaves the sight as it was.                   *)
LEMMA Looks ==
    ASSUME blind \in Nat, NEW all \in BOOLEAN, Sees(all)
    PROVE  blind' \in Nat /\ (blind' = 0 => blind = 0 /\ all)
BY KnowledgeConstants DEF Sees

LEMMA SetupStartKeeps == ASSUME KnowledgeInvariant, SetupStart PROVE KnowledgeInvariant'
<1>1. PICK remote \in Remotes, branch \in Branches \cup {NoBranch} :
        /\ setup' = [IdleSetup EXCEPT !.pc = "ensure", !.row = registry,
                        !.remote = remote, !.branch = branch]
        /\ Sees(branch # NoBranch)
  BY DEF SetupStart
<1>2. /\ setup'.pc = "ensure" /\ setup'.kind = "wiki" /\ setup'.row = registry
      /\ setup'.branch = branch /\ DOMAIN setup' = DOMAIN IdleSetup
  BY <1>1 DEF IdleSetup
<1>3. Goes BY NothingWritten DEF KnowledgeInvariant, SetupStart
<1>4. RowOk(registry, asset') BY <1>3, RowKept DEF Goes, KnowledgeInvariant
<1>5. SetupOk(setup', asset') BY <1>2, <1>4 DEF SetupOk, Kinds
<1>6. blind' \in Nat /\ (blind' = 0 => blind = 0 /\ branch # NoBranch)
  BY <1>1, Looks DEF KnowledgeInvariant
<1>7. blind = 0 => OneMade(asset') BY <1>3, OneKept DEF KnowledgeInvariant, SightOk, Goes
<1>8. SightOk(blind', setup', asset') BY <1>2, <1>6, <1>7 DEF SightOk
<1> QED BY <1>3, <1>5, <1>6, <1>8, SetupMoves DEF Goes, SetupStart

(* An asset of the kind and branch that setup looks for is one of its matches. *)
LEMMA EnsureKeeps == ASSUME KnowledgeInvariant, Ensure PROVE KnowledgeInvariant'
<1> DEFINE matches == Matches(setup.kind, setup.branch)
<1>0. /\ SetupOk(setup, asset) /\ DOMAIN setup = DOMAIN IdleSetup /\ setup.kind \in Kinds
      /\ RowOk(setup.row, asset) /\ UNCHANGED flush /\ setup.pc \in Working
  BY DEF KnowledgeInvariant, SetupOk, Ensure, At, Working
<1>1. Goes /\ asset' = asset BY NothingWritten DEF KnowledgeInvariant, Ensure, provider
<1>2. ASSUME NEW i \in Made(setup.kind), Adopt(i), UNCHANGED <<registry, queue>>,
             blind' \in Nat, blind' = 0 => blind = 0
      PROVE  KnowledgeInvariant'
  <2>1. i \in Ids /\ asset'[setup.kind][i].made BY <1>1, <1>2 DEF Made
  <2>2. SetupOk(setup', asset') /\ setup'.pc = "metadata" /\ setup'.branch = setup.branch
    BY <1>0, <1>1, <1>2, <2>1, Adopts
  <2>3. SightOk(blind', setup', asset')
    BY <1>0, <1>1, <1>2, <2>2 DEF SightOk, KnowledgeInvariant
  <2> QED BY <1>0, <1>1, <1>2, <2>2, <2>3, SetupMoves DEF Goes
<1>3. ASSUME FailOnly, UNCHANGED blind PROVE KnowledgeInvariant'
  BY <1>0, <1>1, <1>3, OneStays, StepFails DEF Goes
<1>4. ASSUME NEW listed \in SUBSET matches, Sees(listed = matches), UNCHANGED <<registry, queue>>,
             \/ Cardinality(listed) = 1 /\ \E i \in listed : Adopt(i)
             \/ listed = {} /\ setup' = [setup EXCEPT !.pc = "create"]
      PROVE  KnowledgeInvariant'
  <2>1. blind' \in Nat /\ (blind' = 0 => blind = 0 /\ listed = matches)
    BY <1>4, Looks DEF KnowledgeInvariant
  <2>2. ASSUME NEW i \in listed, Adopt(i) PROVE KnowledgeInvariant'
    BY <1>2, <1>4, <2>1, <2>2 DEF Matches
  <2>3. ASSUME listed = {}, setup' = [setup EXCEPT !.pc = "create"] PROVE KnowledgeInvariant'
    <3>1. /\ SetupOk(setup', asset') /\ setup'.pc = "create" /\ setup'.kind = setup.kind
          /\ setup'.branch = setup.branch
      BY <1>0, <1>1, <2>3, SetupGoesTo
    <3>2. ASSUME blind' = 0 PROVE NoneFound(setup', asset')
      BY <1>0, <1>1, <2>1, <2>3, <3>1, <3>2 DEF NoneFound, Matches, Made, OfBranch
    <3>3. SightOk(blind', setup', asset')
      BY <1>0, <1>1, <2>1, <3>1, <3>2 DEF SightOk, KnowledgeInvariant
    <3> QED BY <1>0, <1>1, <1>4, <2>1, <3>1, <3>3, SetupMoves DEF Goes
  <2> QED BY <1>4, <2>2, <2>3
<1> QED BY <1>0, <1>2, <1>3, <1>4 DEF Ensure, Half, KnowledgeInvariant

(* The one step that makes an asset: the setup has found none that matches.    *)
LEMMA CreateKeeps == ASSUME KnowledgeInvariant, Create PROVE KnowledgeInvariant'
<1> DEFINE k == setup.kind
<1>0. /\ SetupOk(setup, asset) /\ DOMAIN setup = DOMAIN IdleSetup /\ k \in Kinds /\ setup.pc = "create"
      /\ blind = 0 => OneMade(asset) /\ setup.branch # NoBranch /\ NoneFound(setup, asset)
      /\ RowOk(setup.row, asset) /\ UNCHANGED <<flush, blind>> /\ bound' = bound /\ AssetsOk
      /\ blind \in Nat
  BY DEF KnowledgeInvariant, SetupOk, SightOk, Working, Create, At
<1>1. ASSUME FailOnly, UNCHANGED asset PROVE KnowledgeInvariant'
  <2>1. Goes BY <1>0, <1>1, NothingWritten DEF provider
  <2> QED BY <1>0, <1>1, <2>1, OneStays, StepFails DEF Goes
<1>2. ASSUME NEW i \in 1..MaxAssets,
             asset' = [asset EXCEPT ![k][i].made = TRUE, ![k][i].branch = CreatedBranch],
             (Adopt(i) /\ UNCHANGED <<registry, queue>>) \/ FailOnly
      PROVE  KnowledgeInvariant'
  <2> DEFINE rec == [[asset[k][i] EXCEPT !.made = TRUE] EXCEPT !.branch = CreatedBranch]
  <2>1. i \in Ids BY DEF Ids
  <2>2. AssetOk(asset[k][i]) /\ DOMAIN asset[k][i] = DOMAIN Absent BY <1>0, <2>1 DEF AssetsOk, AssetOk
  <2>3. /\ rec.made = TRUE /\ rec.branch = CreatedBranch /\ rec.meta = asset[k][i].meta
        /\ rec.ready = asset[k][i].ready
        /\ rec.index = asset[k][i].index /\ DOMAIN rec = DOMAIN asset[k][i]
    BY <2>2 DEF Absent
  <2>4. Wrote(k, i, rec)
    <3>1. DOMAIN asset = Kinds /\ DOMAIN asset[k] = Ids BY <1>0 DEF AssetsOk
    <3>2. asset' = [asset EXCEPT ![k] = [asset[k] EXCEPT ![i] = rec]] BY <1>2, <3>1, <2>1, <1>0
    <3> HIDE DEF rec, k
    <3> QED BY <1>0, <2>1, <3>2, WriteAsset
  <2> HIDE DEF rec
  <2>5. AssetOk(rec) /\ Later(rec, asset[k][i]) BY <2>2, <2>3 DEF AssetOk, Later
  <2>6. \A kk \in Kinds, ii \in Ids : AssetOk(asset'[kk][ii])
    BY <1>0, <2>4, <2>5 DEF AssetsOk, Wrote
  <2>7. k = "graph" => (NamesBranch <=> CreatedBranch # NoBranch)
    BY KnowledgeConstants DEF CreatedBranch, Named
  <2>8. AllNamed(asset')
    <3> SUFFICES ASSUME NEW j \in Ids, asset'["graph"][j].made
                 PROVE  NamesBranch <=> asset'["graph"][j].branch # NoBranch
      BY DEF AllNamed
    <3>1. CASE k = "graph" /\ j = i BY <2>3, <2>4, <2>7, <3>1 DEF Wrote
    <3>2. CASE k # "graph" \/ j # i
      <4>1. asset'["graph"][j] = asset["graph"][j] BY <2>4, <3>2 DEF Wrote, Kinds
      <4> QED BY <1>0, <4>1 DEF AssetsOk, AllNamed
    <3> QED BY <3>1, <3>2
  <2>9. ASSUME blind = 0 PROVE OneMade(asset')
    <3>1. ASSUME NEW j \in Ids, j # i, asset[k][j].made PROVE ~Alike(k, rec, asset[k][j])
      <4>1. k # "wiki" /\ k = "graph" /\ asset[k][j].branch \notin {NoBranch, setup.branch}
        BY <1>0, <2>9, <3>1 DEF NoneFound, Kinds
      <4>2. NamesBranch BY <1>0, <3>1, <4>1 DEF AssetsOk, AllNamed
      <4>3. CreatedBranch = setup.branch BY <1>0, <2>9, <4>1, <4>2 DEF CreatedBranch, Named
      <4> QED BY <1>0, <2>3, <2>9, <4>1, <4>3 DEF Alike
    <3>2. ASSUME NEW kk \in Kinds, NEW a \in Ids, NEW b \in Ids,
                 asset'[kk][a].made, asset'[kk][b].made, Alike(kk, asset'[kk][a], asset'[kk][b])
          PROVE  a = b
      <4>1. CASE kk # k \/ (a # i /\ b # i)
        <5>1. asset'[kk][a] = asset[kk][a] /\ asset'[kk][b] = asset[kk][b] BY <2>4, <4>1 DEF Wrote
        <5> QED BY <1>0, <2>9, <3>2, <5>1 DEF OneMade
      <4>2. CASE kk = k /\ a = i /\ b # i
        <5>1. asset'[k][i] = rec /\ asset'[k][b] = asset[k][b] BY <2>4, <4>2, <1>0 DEF Wrote
        <5> QED BY <3>1, <3>2, <4>2, <5>1
      <4>3. CASE kk = k /\ b = i /\ a # i
        <5>1. asset'[k][i] = rec /\ asset'[k][a] = asset[k][a] BY <2>4, <4>3, <1>0 DEF Wrote
        <5>2. Alike(k, rec, asset[k][a]) BY <3>2, <4>3, <5>1 DEF Alike
        <5> QED BY <3>1, <3>2, <4>3, <5>1, <5>2
      <4> QED BY <4>1, <4>2, <4>3
    <3> QED BY <3>2 DEF OneMade
  <2>10. AssetsOk' BY <2>4, <2>6, <2>8 DEF AssetsOk, Wrote
  <2>11. Grows(asset', bound') BY <1>0, <2>4, <2>5 DEF Grows, Wrote, Later
  <2>12. asset'[k][i].made BY <2>3, <2>4 DEF Wrote
  <2>13. ASSUME Adopt(i), UNCHANGED <<registry, queue>> PROVE KnowledgeInvariant'
    <3>1. RowOk(setup.row, asset') BY <1>0, <2>11, RowKept
    <3>2. SetupOk(setup', asset') /\ setup'.pc = "metadata" /\ setup'.branch = setup.branch
      BY <1>0, <2>1, <2>12, <2>13, <3>1, Adopts
    <3>3. SightOk(blind', setup', asset') BY <1>0, <2>9, <3>2 DEF SightOk
    <3> QED BY <1>0, <2>10, <2>11, <2>13, <3>2, <3>3, SetupMoves
  <2>14. ASSUME FailOnly PROVE KnowledgeInvariant' BY <1>0, <2>9, <2>10, <2>11, <2>14, StepFails
  <2> QED BY <1>2, <2>13, <2>14
<1> QED BY <1>1, <1>2 DEF Create

LEMMA CalledSetup ==
    ASSUME KnowledgeInvariant, setup.pc \in {"metadata", "raw", "sync", "wait"}
    PROVE  /\ setup.kind \in Kinds /\ Half(setup.kind).id \in Ids
           /\ asset[setup.kind][Half(setup.kind).id].made
           /\ SetupOk(setup, asset) /\ RowOk(setup.row, asset) /\ AssetsOk
           /\ setup.pc = "raw" => setup.kind = "wiki"
<1>1. SetupOk(setup, asset) /\ AssetsOk BY DEF KnowledgeInvariant
<1>2. setup.kind \in Kinds /\ RowOk(setup.row, asset) /\ setup.row[setup.kind].id # NoId
      /\ (setup.pc = "raw" => setup.kind = "wiki")
  BY <1>1 DEF SetupOk
<1>3. setup.row[setup.kind].id \in Ids /\ asset[setup.kind][setup.row[setup.kind].id].made
  BY <1>2 DEF RowOk, HalfOk
<1> QED BY <1>1, <1>2, <1>3 DEF Half

(* What a call of the provider leads to: the next step, or a retry.            *)
LEMMA CallKeeps ==
    ASSUME KnowledgeInvariant, Goes, UNCHANGED <<flush, blind>>, NEW pc \in {"raw", "sync", "wait"},
           setup.pc \in {"metadata", "raw", "sync", "wait"}, pc = "raw" => setup.kind = "wiki",
           \/ setup' = [setup EXCEPT !.pc = pc] /\ UNCHANGED <<registry, queue>>
           \/ FailOnly
           \/ \E a \in Actions : FailRetry(a)
    PROVE  KnowledgeInvariant'
<1>1. SetupOk(setup, asset) /\ setup.row[setup.kind].id # NoId
  BY DEF KnowledgeInvariant, SetupOk
<1>2. ASSUME setup' = [setup EXCEPT !.pc = pc], UNCHANGED <<registry, queue>> PROVE KnowledgeInvariant'
  <2>1. SetupOk(setup', asset') /\ setup'.pc = pc /\ setup'.branch = setup.branch
    BY <1>1, <1>2, SetupGoesTo
  <2>2. SightOk(blind', setup', asset') BY <2>1, SightKept DEF Goes, Working
  <2> QED BY <1>2, <2>1, <2>2, OneStays, SetupMoves DEF Goes
<1>3. ASSUME FailOnly \/ \E a \in Actions : FailRetry(a) PROVE KnowledgeInvariant'
  BY <1>3, OneStays, StepFails DEF Goes
<1> QED BY <1>2, <1>3

LEMMA MetadataKeeps == ASSUME KnowledgeInvariant, Metadata PROVE KnowledgeInvariant'
<1> DEFINE k == setup.kind  i == Half(k).id
           pc == IF k = "wiki" THEN "raw" ELSE "sync"
<1>1. setup.pc = "metadata" /\ UNCHANGED <<flush, blind>> BY DEF Metadata, At
<1>2. k \in Kinds /\ i \in Ids /\ AssetsOk BY <1>1, CalledSetup
<1>3. Goes
  <2>1. CASE Register(k, i) /\ (BindAsset(k, i) \/ UNCHANGED bound)
    <3>1. bound \subseteq bound' BY <2>1 DEF BindAsset
    <3> QED BY <1>2, <2>1, <3>1, Registers
  <2>2. CASE UNCHANGED provider BY <1>2, <2>2, NothingWritten
  <2> QED BY <2>1, <2>2 DEF Metadata, Call
<1>4. <<k, "metadata">> \in Actions BY <1>2 DEF Actions
<1>5. \/ setup' = [setup EXCEPT !.pc = pc] /\ UNCHANGED <<registry, queue>>
      \/ FailRetry(<<k, "metadata">>)
  BY DEF Metadata, Call
<1>6. pc \in {"raw", "sync", "wait"} /\ (pc = "raw" => k = "wiki") OBVIOUS
<1> HIDE DEF pc
<1> QED BY <1>1, <1>3, <1>4, <1>5, <1>6, CallKeeps

LEMMA WriteRawKeeps == ASSUME KnowledgeInvariant, WriteRaw PROVE KnowledgeInvariant'
<1>1. setup.pc = "raw" /\ UNCHANGED <<flush, blind, bound>> BY DEF WriteRaw, At
<1>2. setup.kind = "wiki" /\ Half("wiki").id \in Ids /\ AssetsOk BY <1>1, CalledSetup
<1>3. Goes
  <2>1. CASE asset' = [asset EXCEPT !["wiki"][Half("wiki").id].raw = TRUE]
    BY <1>1, <1>2, <2>1, RawWritten
  <2>2. CASE UNCHANGED asset BY <1>1, <1>2, <2>2, NothingWritten DEF provider
  <2> QED BY <2>1, <2>2 DEF WriteRaw, Call, CollectSeedFiles
<1>4. <<"wiki", "raw">> \in Actions BY DEF Actions
<1>5. \/ setup' = [setup EXCEPT !.pc = "sync"] /\ UNCHANGED <<registry, queue>>
      \/ FailOnly
      \/ FailRetry(<<"wiki", "raw">>)
  BY DEF WriteRaw, Call, CollectSeedFiles
<1> QED BY <1>1, <1>3, <1>4, <1>5, CallKeeps

LEMMA SyncKeeps == ASSUME KnowledgeInvariant, Sync PROVE KnowledgeInvariant'
<1> DEFINE k == setup.kind
<1>1. setup.pc = "sync" /\ UNCHANGED <<flush, blind, bound>> BY DEF Sync, At
<1>2. k \in Kinds /\ Half(k).id \in Ids /\ AssetsOk /\ asset[k][Half(k).id].made
  BY <1>1, CalledSetup
<1>3. Goes
  <2>1. CASE asset' = [asset EXCEPT ![k][Half(k).id].index = "indexing"]
    BY <1>1, <1>2, <2>1, IndexStarts
  <2>2. CASE UNCHANGED asset BY <1>1, <1>2, <2>2, NothingWritten DEF provider
  <2> QED BY <2>1, <2>2 DEF Sync, Call
<1>4. <<k, "sync">> \in Actions BY <1>2 DEF Actions
<1>5. \/ setup' = [setup EXCEPT !.pc = "wait"] /\ UNCHANGED <<registry, queue>>
      \/ FailRetry(<<k, "sync">>)
  BY DEF Sync, Call
<1> QED BY <1>1, <1>3, <1>4, <1>5, CallKeeps

(* Wait marks the half ready only on an answer that says so.                   *)
LEMMA AfterWaitKeeps ==
    ASSUME KnowledgeInvariant, Goes, UNCHANGED <<flush, blind>>, DOMAIN setup = DOMAIN IdleSetup,
           setup.pc \in Working,
           UNCHANGED queue \/ \E a \in Actions : Enqueue(a),
           NEW row, RowOk(row, asset'), NEW late, AfterWait(row, late)
    PROVE  KnowledgeInvariant'
<1>1. CASE setup.kind = "wiki" /\ setup.remote
  <2> DEFINE kept == [row EXCEPT !.error = ""]
  <2>1. /\ registry' = kept
        /\ setup' = [setup EXCEPT !.pc = "ensure", !.kind = "graph", !.row = kept, !.late = late]
    BY <1>1 DEF AfterWait, Upsert
  <2>2. RowOk(kept, asset') BY ErrorSet
  <2> HIDE DEF kept
  <2>3. /\ setup'.pc = "ensure" /\ setup'.kind = "graph" /\ setup'.row = kept
        /\ setup'.branch = setup.branch /\ DOMAIN setup' = DOMAIN IdleSetup
    BY <2>1 DEF IdleSetup
  <2>4. SetupOk(setup', asset') BY <2>2, <2>3 DEF SetupOk, Kinds
  <2>5. SightOk(blind', setup', asset') BY <2>3, SightKept DEF Goes
  <2> QED BY <2>1, <2>2, <2>4, <2>5, OneStays, SetupWrites DEF Goes
<1>2. CASE ~(setup.kind = "wiki" /\ setup.remote)
  <2>1. PICK e : registry' = [row EXCEPT !.error = e]
    BY <1>2 DEF AfterWait, Upsert
  <2>2. setup' = [IdleSetup EXCEPT !.pc = "done"] BY <1>2 DEF AfterWait
  <2>3. RowOk(registry', asset') BY <2>1, ErrorSet
  <2>4. SetupOk(setup', asset') /\ setup'.pc \notin Working BY <2>2, IdleSetupOk
  <2>5. SightOk(blind', setup', asset') BY <2>4, SightKept DEF Goes
  <2> QED BY <2>3, <2>4, <2>5, OneStays, SetupWrites DEF Goes
<1> QED BY <1>1, <1>2

LEMMA WaitKeeps == ASSUME KnowledgeInvariant, Wait PROVE KnowledgeInvariant'
<1> DEFINE k == setup.kind  i == Half(k).id
<1>1. /\ setup.pc = "wait" /\ setup.pc \in Working
      /\ UNCHANGED <<flush, blind>> /\ UNCHANGED provider
  BY DEF Wait, At, Working
<1>2. /\ k \in Kinds /\ i \in Ids /\ AssetsOk /\ RowOk(setup.row, asset)
      /\ DOMAIN setup = DOMAIN IdleSetup
  BY <1>1, CalledSetup DEF SetupOk
<1>3. Goes /\ asset' = asset BY <1>1, <1>2, NothingWritten DEF provider
<1>4. <<k, "readiness">> \in Actions BY <1>2 DEF Actions
<1>5. PICK answer \in Answers(asset[k][i].index) :
        \/ /\ answer = "ready"
           /\ AfterWait([setup.row EXCEPT ![k].status = "ready", ![k].sync = "ready"], setup.late)
           /\ UNCHANGED queue
        \/ /\ answer = "pending"
           /\ Enqueue(<<k, "readiness">>)
           /\ AfterWait([setup.row EXCEPT ![k].status = "pending"], TRUE)
        \/ /\ answer = "failed"
           /\ Enqueue(<<k, "readiness">>)
           /\ RecordError([setup.row EXCEPT ![k].status = "failed", ![k].sync = "failed"])
  BY <1>2 DEF Wait, WaitWikiReady, WaitCodeGraphReady, Kinds
<1>6. CASE answer = "ready"
  <2> DEFINE row == Marked(setup.row, k, "ready", "ready")
  <2>1. asset[k][i].index = "ready" BY <1>6 DEF Answers
  <2>2. asset'[k][setup.row[k].id].ready /\ setup.row[k].id \in Ids
    BY <1>2, <1>3, <2>1 DEF AssetsOk, AssetOk, Half
  <2>3. \E x \in Ids : asset'[k][x].ready BY <2>2
  <2>4. RowOk(row, asset')
    <3> HIDE DEF k
    <3> QED BY <1>2, <1>3, <2>3, HalfMarked
  <2>5. AfterWait(row, setup.late) /\ UNCHANGED queue BY <1>5, <1>6 DEF Marked
  <2> HIDE DEF row
  <2> QED BY <1>1, <1>2, <1>3, <2>4, <2>5, AfterWaitKeeps
<1>7. CASE answer = "pending"
  <2> DEFINE row == [setup.row EXCEPT ![k].status = "pending"]
  <2>1. RowOk(row, asset') BY <1>2, <1>3, StatusSet
  <2>2. AfterWait(row, TRUE) /\ Enqueue(<<k, "readiness">>) BY <1>5, <1>7
  <2> HIDE DEF row
  <2> QED BY <1>1, <1>2, <1>3, <1>4, <2>1, <2>2, AfterWaitKeeps
<1>8. CASE answer = "failed"
  <2> DEFINE row == Marked(setup.row, k, "failed", "failed")
  <2>1. RowOk(row, asset')
    <3> HIDE DEF k
    <3>1. "failed" # "ready" OBVIOUS
    <3> QED BY <1>2, <1>3, <3>1, HalfMarked
  <2>2. RecordError(row) /\ Enqueue(<<k, "readiness">>) BY <1>5, <1>8 DEF Marked
  <2> HIDE DEF row
  <2> QED BY <1>1, <1>3, <1>4, <2>1, <2>2, OneStays, SetupFails DEF Goes
<1> QED BY <1>5, <1>6, <1>7, <1>8

-------------------------------------------------------------------------------
(* Steps of a flush. *)
LEMMA FlushMoves ==
    ASSUME KnowledgeInvariant, Goes, UNCHANGED <<registry, setup, blind>>,
           FlushOk(flush', asset', bound'), QueueOk'
    PROVE  KnowledgeInvariant'
<1>1. RowOk(registry, asset') BY RowKept DEF KnowledgeInvariant, Goes
<1>2. SetupOk(setup, asset') BY SetupKept DEF KnowledgeInvariant, Goes
<1>3. SightOk(blind', setup', asset') BY SightKept DEF Goes
<1> QED BY <1>1, <1>2, <1>3, OneStays DEF KnowledgeInvariant, QueueOk, Goes

LEMMA QueueKept ==
    ASSUME KnowledgeInvariant, Goes, UNCHANGED queue
    PROVE  QueueOk'
<1>1. EntriesOk(asset', bound') BY EntriesKept DEF KnowledgeInvariant, Goes
<1> QED BY <1>1 DEF KnowledgeInvariant, QueueOk, EntriesOk

(* A row of the queue gets another status; it is delivered only with effect.   *)
LEMMA QueueMarked ==
    ASSUME KnowledgeInvariant, Goes, NEW a \in Actions, NEW s,
           queue' = [queue EXCEPT ![a].status = s], s = "delivered" => Took(a, asset', bound')
    PROVE  QueueOk'
<1> DEFINE entry == [queue[a] EXCEPT !.status = s]
<1>1. EntriesOk(asset', bound') BY EntriesKept DEF KnowledgeInvariant, Goes
<1>2. DOMAIN queue[a] = {"status", "id"} BY DEF KnowledgeInvariant, EntriesOk, EntryOk
<1>3. DOMAIN entry = {"status", "id"} /\ entry.status = s /\ entry.id = queue[a].id BY <1>2
<1>4. queue' = [queue EXCEPT ![a] = entry] OBVIOUS
<1> HIDE DEF entry
<1>5. EntryOk(a, entry, asset', bound') BY <1>1, <1>3 DEF EntryOk, EntriesOk
<1>6. /\ queue' = [x \in Actions |-> queue'[x]] /\ queue'[a] = entry
      /\ \A x \in Actions \ {a} : queue'[x] = queue[x]
  BY <1>4 DEF KnowledgeInvariant
<1>7. \A x \in Actions : EntryOk(x, queue'[x], asset', bound') BY <1>1, <1>5, <1>6 DEF EntriesOk
<1> QED BY <1>6, <1>7 DEF QueueOk, EntriesOk

LEMMA FlushStartKeeps == ASSUME KnowledgeInvariant, FlushStart PROVE KnowledgeInvariant'
<1>1. Goes BY NothingWritten DEF KnowledgeInvariant, FlushStart
<1>2. /\ flush'.pc = "pick" /\ flush'.row = registry /\ flush'.action = IdleFlush.action
      /\ flush'.seen \subseteq Actions /\ DOMAIN flush' = DOMAIN IdleFlush
  BY DEF FlushStart, IdleFlush
<1>3. RowOk(registry, asset') BY <1>1, RowKept DEF KnowledgeInvariant, Goes
<1>4. IdleFlush.action \in Actions BY NothingFlushed DEF FlushOk
<1>5. FlushOk(flush', asset', bound') BY <1>2, <1>3, <1>4 DEF FlushOk
<1> QED BY <1>1, <1>5, FlushMoves, QueueKept DEF FlushStart

LEMMA FlushEndKeeps == ASSUME KnowledgeInvariant, FlushEnd PROVE KnowledgeInvariant'
<1>1. Goes BY NothingWritten DEF KnowledgeInvariant, FlushEnd
<1>2. FlushOk(flush', asset', bound') BY NothingFlushed DEF FlushEnd
<1> QED BY <1>1, <1>2, FlushMoves, QueueKept DEF FlushEnd

LEMMA RetryKeeps ==
    ASSUME KnowledgeInvariant, Goes, UNCHANGED <<registry, setup, blind>>, NEW a \in Actions,
           flush.pc = "pick", Retry(a)
    PROVE  KnowledgeInvariant'
<1>1. FlushOk(flush, asset', bound') BY FlushKept DEF KnowledgeInvariant, Goes
<1>2. /\ flush'.pc = flush.pc /\ flush'.row = flush.row /\ flush'.action = flush.action
      /\ flush'.seen = flush.seen \ {a} /\ DOMAIN flush' = DOMAIN flush
  BY DEF Retry, KnowledgeInvariant, FlushOk, IdleFlush
<1>3. FlushOk(flush', asset', bound') BY <1>1, <1>2 DEF FlushOk
<1>4. QueueOk'
  <2>1. CASE queue' = queue BY <2>1, QueueKept
  <2>2. CASE queue' = [queue EXCEPT ![a].status = "dead"]
    <3>1. "dead" # "delivered" OBVIOUS
    <3> QED BY <2>2, <3>1, QueueMarked
  <2> QED BY <2>1, <2>2 DEF Retry
<1> QED BY <1>3, <1>4, FlushMoves

LEMMA HandledKeeps ==
    ASSUME KnowledgeInvariant, Goes, UNCHANGED <<registry, setup, blind, queue>>, NEW a \in Actions,
           NEW row, RowOk(row, asset'), Handled(a, row), Took(a, asset', bound')
    PROVE  KnowledgeInvariant'
<1> DEFINE kept == [row EXCEPT !.error = ""]
<1>1. RowOk(kept, asset') BY ErrorSet
<1>2. flush' = [flush EXCEPT !.pc = "save", !.action = a, !.row = kept] BY DEF Handled
<1> HIDE DEF kept
<1>3. /\ flush'.pc = "save" /\ flush'.row = kept /\ flush'.action = a
      /\ flush'.seen = flush.seen /\ DOMAIN flush' = DOMAIN flush
  BY <1>2 DEF KnowledgeInvariant, FlushOk, IdleFlush
<1>4. FlushOk(flush', asset', bound') BY <1>1, <1>3 DEF FlushOk, KnowledgeInvariant
<1> QED BY <1>4, FlushMoves, QueueKept

LEMMA TargetMade ==
    ASSUME KnowledgeInvariant, NEW a \in Actions, Target(a) # NoId
    PROVE  Target(a) \in Ids /\ asset[a[1]][Target(a)].made
<1>1. a[1] \in Kinds BY ActionIs
<1>2. RowOk(flush.row, asset) /\ EntryOk(a, queue[a], asset, bound)
  BY DEF KnowledgeInvariant, FlushOk, EntriesOk
<1> QED BY <1>1, <1>2 DEF Target, RowOk, HalfOk, EntryOk

(* A handler that succeeds had the effect its retry stands for.                *)
LEMMA HandleKeeps ==
    ASSUME KnowledgeInvariant, NEW a \in Actions, Handle(a)
    PROVE  KnowledgeInvariant'
<1> DEFINE k == a[1]  i == Target(a)
<1>1. /\ flush.pc = "pick" /\ UNCHANGED <<registry, setup, blind>> /\ k \in Kinds /\ AssetsOk
      /\ RowOk(flush.row, asset)
  BY ActionIs DEF Handle, KnowledgeInvariant, FlushOk
<1>2. ASSUME i # NoId, a[2] \in {"raw", "sync"},
             asset' = [asset EXCEPT ![k][i].index = "indexing"], UNCHANGED bound,
             \/ Handled(a, [flush.row EXCEPT ![k].sync = "pending"]) /\ UNCHANGED queue
             \/ Retry(a)
      PROVE  KnowledgeInvariant'
  <2>1. i \in Ids /\ asset[k][i].made BY <1>2, TargetMade
  <2>2. Goes /\ asset'[k][i].index # "none" BY <1>1, <1>2, <2>1, IndexStarts
  <2>3. Took(a, asset', bound') BY <1>2, <2>1, <2>2 DEF Took
  <2>4. RowOk(flush.row, asset') BY <1>1, <2>2, RowKept DEF Goes
  <2>5. RowOk([flush.row EXCEPT ![k].sync = "pending"], asset')
    <3> HIDE DEF k
    <3>1. "pending" # "ready" OBVIOUS
    <3> QED BY <1>1, <2>4, <3>1, SyncSet
  <2> QED BY <1>1, <1>2, <2>2, <2>3, <2>5, HandledKeeps, RetryKeeps
<1>3. ASSUME i # NoId, a[2] = "metadata", Register(k, i),
             \/ BindAsset(k, i) /\ Handled(a, flush.row) /\ UNCHANGED queue
             \/ UNCHANGED bound /\ Retry(a)
      PROVE  KnowledgeInvariant'
  <2>1. i \in Ids BY <1>3, TargetMade
  <2>2. bound \subseteq bound' BY <1>3 DEF BindAsset
  <2>3. Goes /\ asset'[k][i].meta BY <1>1, <1>3, <2>1, <2>2, Registers
  <2>4. RowOk(flush.row, asset') BY <1>1, <2>3, RowKept DEF Goes
  <2>5. CASE BindAsset(k, i) /\ Handled(a, flush.row) /\ UNCHANGED queue
    <3>1. <<k, i>> \in bound' BY <2>5 DEF BindAsset
    <3>2. Took(a, asset', bound') BY <1>3, <2>1, <2>3, <3>1 DEF Took
    <3> QED BY <1>1, <2>3, <2>4, <2>5, <3>2, HandledKeeps
  <2>6. CASE Retry(a) BY <1>1, <2>3, <2>6, RetryKeeps
  <2> QED BY <1>3, <2>5, <2>6
<1>4. ASSUME i # NoId, a[2] = "readiness", asset[k][i].index = "ready",
             Handled(a, [flush.row EXCEPT ![k].status = "ready", ![k].sync = "ready"]),
             UNCHANGED <<queue, provider>>
      PROVE  KnowledgeInvariant'
  <2> DEFINE row == Marked(flush.row, k, "ready", "ready")
  <2>1. i \in Ids BY <1>4, TargetMade
  <2>2. Goes /\ asset' = asset BY <1>1, <1>4, NothingWritten DEF provider
  <2>3. asset'[k][i].ready BY <1>1, <1>4, <2>1, <2>2 DEF AssetsOk, AssetOk
  <2>4. Took(a, asset', bound') BY <1>4, <2>1, <2>3 DEF Took
  <2>5. Handled(a, row) BY <1>4 DEF Marked
  <2>6. \E x \in Ids : asset'[k][x].ready BY <2>1, <2>3
  <2>7. RowOk(row, asset')
    <3> HIDE DEF k
    <3> QED BY <1>1, <2>2, <2>6, HalfMarked
  <2> HIDE DEF row
  <2> QED BY <1>1, <1>4, <2>2, <2>4, <2>5, <2>7, HandledKeeps
<1>5. ASSUME Retry(a), UNCHANGED provider PROVE KnowledgeInvariant'
  <2>1. Goes BY <1>1, <1>5, NothingWritten
  <2> QED BY <1>1, <1>5, <2>1, RetryKeeps
<1> QED BY <1>2, <1>3, <1>4, <1>5 DEF Handle

(* The row goes back as the handler had it, and the retry is marked.           *)
LEMMA FlushSaveKeeps == ASSUME KnowledgeInvariant, FlushSave PROVE KnowledgeInvariant'
<1>1. Goes BY NothingWritten DEF KnowledgeInvariant, FlushSave
<1>2. FlushOk(flush, asset', bound') BY <1>1, FlushKept DEF KnowledgeInvariant, Goes
<1>3. CASE /\ flush.pc = "save"
           /\ Upsert(flush.row)
           /\ flush' = [flush EXCEPT !.pc = "mark"]
           /\ UNCHANGED <<queue, provider, setup, blind, setups, crashes>>
  <2>1. /\ flush'.pc = "mark" /\ flush'.row = flush.row /\ flush'.action = flush.action
        /\ flush'.seen = flush.seen /\ DOMAIN flush' = DOMAIN flush
    BY <1>2, <1>3 DEF FlushOk, IdleFlush
  <2>2. FlushOk(flush', asset', bound') BY <1>2, <1>3, <2>1 DEF FlushOk
  <2>3. RowOk(registry', asset') BY <1>2, <1>3 DEF FlushOk, Upsert
  <2>4. SetupOk(setup', asset') BY <1>1, <1>3, SetupKept DEF KnowledgeInvariant, Goes
  <2>5. SightOk(blind', setup', asset') BY <1>1, <1>3, SightKept DEF Goes
  <2>6. QueueOk' BY <1>1, <1>3, QueueKept
  <2> QED BY <1>1, <1>3, <2>2, <2>3, <2>4, <2>5, <2>6, OneStays DEF KnowledgeInvariant, QueueOk, Goes
<1>4. CASE /\ flush.pc = "mark"
           /\ queue' = [queue EXCEPT ![flush.action].status = "delivered"]
           /\ flush' = [flush EXCEPT !.pc = "pick", !.seen = @ \ {flush.action}]
           /\ UNCHANGED <<registry, provider, setup, blind, setups, crashes>>
  <2>1. /\ flush'.pc = "pick" /\ flush'.row = flush.row /\ flush'.action = flush.action
        /\ flush'.seen \subseteq flush.seen /\ DOMAIN flush' = DOMAIN flush
    BY <1>2, <1>4 DEF FlushOk, IdleFlush
  <2>2. FlushOk(flush', asset', bound') BY <1>2, <2>1 DEF FlushOk
  <2>3. flush.action \in Actions /\ Took(flush.action, asset', bound') BY <1>2, <1>4 DEF FlushOk
  <2>4. QueueOk' BY <1>1, <1>4, <2>3, QueueMarked
  <2> QED BY <1>1, <1>4, <2>2, <2>4, FlushMoves
<1> QED BY <1>3, <1>4 DEF FlushSave

-------------------------------------------------------------------------------
(* The provider's own steps: an asset is called ready when it becomes so.      *)
LEMMA IndexKeeps ==
    ASSUME KnowledgeInvariant, NEW k \in Kinds, NEW i \in Ids, Index(k, i)
    PROVE  KnowledgeInvariant'
<1> DEFINE ready == [[asset[k][i] EXCEPT !.index = "ready"] EXCEPT !.ready = TRUE]
           failed == [asset[k][i] EXCEPT !.index = "failed"]
<1>1. AssetsOk /\ AssetOk(asset[k][i]) BY DEF KnowledgeInvariant, AssetsOk
<1>2. /\ DOMAIN asset = Kinds /\ DOMAIN asset[k] = Ids /\ DOMAIN asset[k][i] = DOMAIN Absent
  BY <1>1 DEF AssetsOk, AssetOk
<1>3. \/ asset' = [asset EXCEPT ![k] = [asset[k] EXCEPT ![i] = ready]]
      \/ asset' = [asset EXCEPT ![k] = [asset[k] EXCEPT ![i] = failed]]
  BY <1>2 DEF Index
<1>4. /\ ready.made = asset[k][i].made /\ ready.branch = asset[k][i].branch
      /\ ready.meta = asset[k][i].meta /\ ready.ready = TRUE
      /\ ready.index = "ready" /\ DOMAIN ready = DOMAIN asset[k][i]
      /\ failed.made = asset[k][i].made /\ failed.branch = asset[k][i].branch
      /\ failed.meta = asset[k][i].meta
      /\ failed.ready = asset[k][i].ready
      /\ failed.index = "failed" /\ DOMAIN failed = DOMAIN asset[k][i]
  BY <1>2 DEF Absent
<1> HIDE DEF ready, failed
<1>5. PICK rec : /\ asset' = [asset EXCEPT ![k] = [asset[k] EXCEPT ![i] = rec]]
                 /\ AssetOk(rec) /\ Later(rec, asset[k][i])
                 /\ rec.made = asset[k][i].made /\ rec.branch = asset[k][i].branch
  <2>0. asset[k][i].made BY <1>1 DEF AssetOk, Index
  <2>1. AssetOk(ready) /\ Later(ready, asset[k][i]) BY <1>1, <1>4, <2>0 DEF AssetOk, Later
  <2>2. AssetOk(failed) /\ Later(failed, asset[k][i]) BY <1>1, <1>4, <2>0 DEF AssetOk, Later
  <2>3. CASE asset' = [asset EXCEPT ![k] = [asset[k] EXCEPT ![i] = ready]] BY <1>4, <2>1, <2>3
  <2>4. CASE asset' = [asset EXCEPT ![k] = [asset[k] EXCEPT ![i] = failed]] BY <1>4, <2>2, <2>4
  <2> QED BY <1>3, <2>3, <2>4
<1>6. Wrote(k, i, rec) BY <1>1, <1>5, WriteAsset
<1>7. UNCHANGED <<registry, bound, queue, setup, flush, blind>> BY DEF Index
<1>8. Goes BY <1>1, <1>5, <1>6, <1>7, WriteKeeps DEF Goes
<1>9. FlushOk(flush', asset', bound') BY <1>7, <1>8, FlushKept DEF KnowledgeInvariant, Goes
<1>10. QueueOk' BY <1>7, <1>8, QueueKept
<1> QED BY <1>7, <1>8, <1>9, <1>10, FlushMoves

(* Killed, a process leaves nothing but what it had written.                   *)
LEMMA CrashKeeps == ASSUME KnowledgeInvariant, Crash PROVE KnowledgeInvariant'
<1>1. Goes /\ UNCHANGED <<registry, queue, blind>> BY NothingWritten DEF KnowledgeInvariant, Crash
<1>2. CASE setup' = IdleSetup /\ UNCHANGED flush
  <2>1. SetupOk(setup', asset') /\ setup'.pc \notin Working BY <1>2, NothingSetUp
  <2>2. SightOk(blind', setup', asset') BY <1>1, <2>1, SightKept DEF Goes
  <2> QED BY <1>1, <1>2, <2>1, <2>2, OneStays, SetupMoves DEF Goes
<1>3. CASE flush' = IdleFlush /\ UNCHANGED setup
  <2>1. FlushOk(flush', asset', bound') BY <1>3, NothingFlushed
  <2> QED BY <1>1, <1>3, <2>1, FlushMoves, QueueKept
<1> QED BY <1>2, <1>3 DEF Crash

LEMMA KnowledgeStep == KnowledgeInvariant /\ [Next]_vars => KnowledgeInvariant'
<1> SUFFICES ASSUME KnowledgeInvariant, [Next]_vars PROVE KnowledgeInvariant'
  OBVIOUS
<1>1. CASE UNCHANGED vars
  BY <1>1 DEF vars, KnowledgeInvariant, AssetsOk, AllNamed, EntriesOk
<1>2. CASE SetupStart \/ Ensure \/ Create \/ Metadata \/ WriteRaw \/ Sync \/ Wait
  BY <1>2, SetupStartKeeps, EnsureKeeps, CreateKeeps, MetadataKeeps, WriteRawKeeps, SyncKeeps, WaitKeeps
<1>3. CASE FlushStart \/ FlushSave \/ FlushEnd \/ Crash
  BY <1>3, FlushStartKeeps, FlushSaveKeeps, FlushEndKeeps, CrashKeeps
<1>4. CASE \E a \in Actions : Handle(a) BY <1>4, HandleKeeps
<1>5. CASE \E k \in Kinds, i \in Ids : Index(k, i) BY <1>5, IndexKeeps
<1> QED BY <1>1, <1>2, <1>3, <1>4, <1>5 DEF Next

LEMMA KnowledgeHolds == Spec => []KnowledgeInvariant
BY KnowledgeInit, KnowledgeStep, PTL DEF Spec

(* ensureWiki and ensureCodeGraph make no second asset of a branch, however    *)
(* often setup is run, killed or left without an answer, unless git did not    *)
(* tell the branch or the list of assets was cut before theirs.                *)
THEOREM NoDuplicatesHolds == Spec => []NoDuplicates
<1>1. ASSUME KnowledgeInvariant PROVE NoDuplicates
  <2> SUFFICES ASSUME blind = 0, NEW k \in Kinds, NEW b \in Branches
               PROVE  Cardinality(Matches(k, b)) <= 1
    BY DEF NoDuplicates
  <2>1. OneMade(asset) BY <1>1 DEF KnowledgeInvariant, SightOk
  <2>2. ASSUME NEW i \in Matches(k, b), NEW j \in Matches(k, b) PROVE i = j
    <3>1. /\ i \in Ids /\ j \in Ids /\ asset[k][i].made /\ asset[k][j].made
          /\ Alike(k, asset[k][i], asset[k][j])
      BY DEF Matches, Made, OfBranch, Alike
    <3> QED BY <2>1, <3>1 DEF OneMade
  <2>3. CASE Matches(k, b) = {} BY <2>3, FS_EmptySet
  <2>4. CASE Matches(k, b) # {}
    <3>1. PICK i : Matches(k, b) = {i} BY <2>2, <2>4
    <3>2. Cardinality({i}) = 1 BY FS_Singleton
    <3> QED BY <3>1, <3>2
  <2> QED BY <2>3, <2>4
<1> QED BY <1>1, KnowledgeHolds, PTL

(* The registry calls no half ready that was not, whichever copy of the row a  *)
(* setup or a flush wrote back last, unless there is a second asset.           *)
THEOREM ReadyWasReadyHolds == Spec => []ReadyWasReady
<1>1. ASSUME KnowledgeInvariant PROVE ReadyWasReady
  <2> SUFFICES ASSUME NEW k \in Kinds, registry[k].sync = "ready"
               PROVE  \E i \in Ids : /\ asset[k][i].ready
                                     /\ registry[k].id \in {NoId, i} \/ Made(k) # {i}
    BY DEF ReadyWasReady
  <2>1. HalfOk(registry[k], asset[k]) BY <1>1 DEF KnowledgeInvariant, RowOk
  <2>2. PICK i \in Ids : asset[k][i].ready BY <2>1 DEF HalfOk, HalfReady
  <2>3. registry[k].id # NoId => registry[k].id \in Made(k) BY <2>1 DEF HalfOk, Made
  <2> QED BY <2>2, <2>3
<1> QED BY <1>1, KnowledgeHolds, PTL

(* QueueHandler.Handle before MarkDelivered: a delivered retry took effect.    *)
THEOREM DeliveredTookEffectHolds == Spec => []DeliveredTookEffect
<1>1. ASSUME KnowledgeInvariant PROVE DeliveredTookEffect
  <2> SUFFICES ASSUME NEW a \in Actions, queue[a].status = "delivered"
               PROVE  \E i \in Ids :
                        CASE a[2] = "metadata"  -> asset[a[1]][i].meta /\ <<a[1], i>> \in bound
                          [] a[2] = "readiness" -> asset[a[1]][i].ready
                          [] OTHER              -> asset[a[1]][i].index # "none"
    BY DEF DeliveredTookEffect
  <2>1. Took(a, asset, bound) BY <1>1 DEF KnowledgeInvariant, EntriesOk, EntryOk
  <2> QED BY <2>1, ActionIs DEF Took
<1> QED BY <1>1, KnowledgeHolds, PTL

===============================================================================

----------------------------- MODULE GatewaysProofs -----------------------------
(***************************************************************************)
(* Theorems about Gateways, for any providers, clients, channels, page     *)
(* size and surroundings.                                                  *)
(***************************************************************************)
EXTENDS Gateways, PageLemmas

(* The plan, rows and times. *)

Kinds == {"clients", "gateways", "vias"}

LEMMA PlanFacts ==
    /\ \A i \in 1..3 : i = 1 \/ i = 2 \/ i = 3
    /\ Plan("migration")[1] = "clients" /\ Plan("sync")[1] = "sync_clients"
    /\ Plan("migration")[2] = "gateways" /\ Plan("sync")[2] = "sync_gateways"
    /\ Plan("migration")[3] = "vias" /\ Plan("sync")[3] = "sync_vias"
<1>1. /\ Plan("migration") = <<"clients", "gateways", "vias">>
      /\ Plan("sync") = <<"sync_clients", "sync_gateways", "sync_vias">>
  BY DEF Plan
<1> QED
  BY <1>1

LEMMA NameFacts ==
    /\ StepNames = {"clients", "gateways", "vias", "sync_clients", "sync_gateways", "sync_vias"}
    /\ NamesIn("sync") = {"sync_clients", "sync_gateways", "sync_vias"}
    /\ Migrated <=> \A s \in Kinds : IsCompleted(rows[s])
<1>1. 1..3 = {1, 2, 3}
  OBVIOUS
<1>2. /\ NamesIn("migration") = {"clients", "gateways", "vias"}
      /\ NamesIn("sync") = {"sync_clients", "sync_gateways", "sync_vias"}
  BY <1>1, PlanFacts DEF NamesIn
<1>3. Migrated <=> \A s \in Kinds : IsCompleted(rows[s])
  BY <1>1, PlanFacts DEF Migrated, Kinds
<1> QED
  BY <1>2, <1>3 DEF StepNames

LEMMA CurrentFacts ==
    ASSUME TypeOK
    PROVE  /\ index = 1 => Current = IF mode = "sync" THEN "sync_clients" ELSE "clients"
           /\ index = 2 => Current = IF mode = "sync" THEN "sync_gateways" ELSE "gateways"
           /\ index = 3 => Current = IF mode = "sync" THEN "sync_vias" ELSE "vias"
           /\ Current \in StepNames /\ (index = 1 \/ index = 2 \/ index = 3)
           /\ rows[Current] \in StepRow({})
<1>1. (index = 1 \/ index = 2 \/ index = 3) /\ (mode = "sync" \/ mode = "migration")
  BY PlanFacts DEF TypeOK
<1>2. /\ index = 1 => Current = IF mode = "sync" THEN "sync_clients" ELSE "clients"
      /\ index = 2 => Current = IF mode = "sync" THEN "sync_gateways" ELSE "gateways"
      /\ index = 3 => Current = IF mode = "sync" THEN "sync_vias" ELSE "vias"
  BY <1>1, PlanFacts DEF Current
<1>3. Current \in StepNames
  BY <1>1, <1>2, NameFacts
<1> QED
  BY <1>1, <1>2, <1>3 DEF TypeOK

LEMMA WatermarkFacts ==
    /\ Watermark("clients") = GetStepCompletedAt(rows["sync_clients"], rows["clients"])
    /\ Watermark("gateways") = GetStepCompletedAt(rows["sync_gateways"], rows["gateways"])
    /\ Watermark("vias") = GetStepCompletedAt(rows["sync_vias"], rows["vias"])
<1>1. SyncOf["clients"] = "sync_clients" /\ SyncOf["gateways"] = "sync_gateways"
      /\ SyncOf["vias"] = "sync_vias"
  BY DEF SyncOf
<1> QED
  BY <1>1 DEF Watermark

LEMMA RowTypes ==
    ASSUME TypeOK
    PROVE  /\ \A s \in StepNames : /\ rows[s] \in StepRow({}) /\ rows[s].completedAt \in Nat
                                   /\ Progress(s) \in Nat
           /\ \A k \in Kinds : Watermark(k) \in Nat
           /\ \A s : From(s) \in Nat
<1>1. \A s \in StepNames : /\ rows[s] \in StepRow({}) /\ rows[s].completedAt \in Nat
                           /\ Progress(s) \in Nat
  BY OffsetRowFacts DEF TypeOK, Progress
<1>2. \A k \in Kinds : Watermark(k) \in Nat
  BY <1>1, WatermarkFacts, NameFacts DEF Kinds, GetStepCompletedAt
<1>3. \A s : From(s) \in Nat
  BY <1>2 DEF From, Kinds
<1> QED
  BY <1>1, <1>2, <1>3

LEMMA ProviderFacts ==
    /\ \A p \in Providers : p \in Nat /\ p # 0
    /\ \A S \in SUBSET Providers : /\ S \in SUBSET Nat /\ IsFiniteSet(S)
                                   /\ Cardinality(S) \in Nat /\ \A p : Rank(p, S) \in Nat
    /\ PerPage \in Nat \ {0}
<1>1. \A S \in SUBSET Providers : S \in SUBSET Nat /\ IsFiniteSet(S) /\ Cardinality(S) \in Nat
  BY ProvidersAssumption, FS_Subset, FS_CardinalityType
<1>2. \A S \in SUBSET Providers : \A p : Rank(p, S) \in Nat
  BY <1>1, RankGrows
<1> QED
  BY <1>1, <1>2, ProvidersAssumption, SettingsAssumption

LEMMA FoundFacts ==
    \A p, n : /\ Found(n) \in SUBSET Providers
              /\ Before(p, n) = Rank(p, Found(n)) /\ Before(p, n) \in Nat
<1> TAKE p, n
<1>1. Found(n) \in SUBSET Providers
  BY DEF Found, Created
<1>2. Before(p, n) = Rank(p, Found(n))
  BY DEF Before, Rank
<1> QED
  BY <1>1, <1>2, ProviderFacts

LEMMA NowFacts ==
    ASSUME IsFiniteSet(Joined)
    PROVE  /\ Now \in Nat /\ Cardinality(Created) \in Nat /\ Cardinality(Joined) \in Nat
           /\ Now = 2 * (Cardinality(Created) + Cardinality(Joined)) + 1
<1>1. Created \in SUBSET Providers
  BY DEF Created
<1> QED
  BY <1>1, ProviderFacts, FS_CardinalityType DEF Now

LEMMA SameTime ==
    ASSUME UNCHANGED <<born, joined>>
    PROVE  Now' = Now /\ Created' = Created /\ Joined' = Joined
BY DEF Now, Created, Joined

--------------------------------------------------------------------------------

LEMMA InitIsSafe == Init => IInv
<1> SUFFICES ASSUME Init
             PROVE  IInv
  OBVIOUS
<1> DEFINE upTo(p) == {q \in Old : q <= p}
<1>1. \A p : upTo(p) \in SUBSET Old /\ IsFiniteSet(upTo(p)) /\ Cardinality(upTo(p)) \in Nat
  <2>1. \A p : upTo(p) \in SUBSET Providers /\ upTo(p) \in SUBSET Old
    BY ProvidersAssumption
  <2> QED
    BY <2>1, ProviderFacts
<1>2. \A p \in Old : p \in Providers /\ p \in upTo(p) /\ Cardinality(upTo(p)) > 0
  <2> SUFFICES ASSUME NEW p \in Old
               PROVE  p \in Providers /\ p \in upTo(p) /\ Cardinality(upTo(p)) > 0
    OBVIOUS
  <2>1. p \in Providers /\ p \in Nat
    BY ProvidersAssumption, ProviderFacts
  <2>2. p \in upTo(p)
    BY <2>1
  <2> HIDE DEF upTo
  <2> QED
    BY <1>1, <2>1, <2>2, FS_EmptySet
<1>3. \A p \in Providers : born[p] = IF p \in Old THEN 2 * Cardinality(upTo(p)) ELSE 0
  BY DEF Init
<1>4. born \in [Providers -> Nat]
  <2>1. \A p : 2 * Cardinality(upTo(p)) \in Nat
    BY <1>1
  <2> QED
    BY <2>1 DEF Init
<1>5. \A p, q \in Old : p < q => Cardinality(upTo(p)) < Cardinality(upTo(q))
  <2> SUFFICES ASSUME NEW p \in Old, NEW q \in Old, p < q
               PROVE  Cardinality(upTo(p)) < Cardinality(upTo(q))
    OBVIOUS
  <2>1. p \in Nat /\ q \in Nat /\ \A r \in Old : r \in Nat
    BY ProvidersAssumption, ProviderFacts
  <2>2. upTo(p) \in SUBSET upTo(q) /\ q \in upTo(q) /\ q \notin upTo(p)
    <3>1. \A r \in Old : r <= p => r <= q
      BY <2>1
    <3>2. q <= q /\ ~(q <= p)
      BY <2>1
    <3> QED
      BY <3>1, <3>2
  <2> HIDE DEF upTo
  <2>3. /\ Cardinality(upTo(p)) <= Cardinality(upTo(q))
        /\ Cardinality(upTo(p)) # Cardinality(upTo(q))
    BY <1>1, <2>2, FS_Subset
  <2> QED
    BY <1>1, <2>3
<1> HIDE DEF upTo
<1>6. TypeOK
  <2>1. AbsentRow \in StepRow({})
    BY DEF AbsentRow, StepRow, Statuses
  <2>2. rows \in [StepNames -> StepRow({})]
    BY <2>1 DEF Init
  <2>3. joined \in [Clients -> Nat] /\ apps \in [Providers -> Nat]
    BY DEF Init
  <2>4. /\ talks = {} /\ back = {} /\ contactRows = {} /\ gates = {} /\ vias = {} /\ batch = {} /\ numbers = {}
        /\ mode = "migration" /\ index = 1 /\ pc = "off" /\ offset = 0 /\ from = 0 /\ more = FALSE
        /\ env \in Environments
    BY DEF Init
  <2>5. /\ talks \subseteq Channels /\ back \subseteq talks /\ contactRows \subseteq talks
        /\ batch \subseteq Providers /\ numbers \subseteq batch
    BY <2>4
  <2>6. vias \subseteq Clients \X gates
    BY <2>4
  <2>7. gates \subseteq Providers \X {"facebook", "whatsapp"} \X Nat
    BY <2>4
  <2>8. /\ mode \in {"migration", "sync"} /\ index \in 1..3
        /\ pc \in {"off", "start", "fetch", "commit", "done"}
        /\ offset \in Nat /\ from \in Nat
    BY <2>4
  <2>9. more \in BOOLEAN
    BY <2>4
  <2> QED
    BY <1>4, <2>2, <2>3, <2>4, <2>5, <2>6, <2>7, <2>8, <2>9 DEF TypeOK
<1>7. \A s \in StepNames : /\ rows[s] = AbsentRow /\ rows[s].status = "absent"
                           /\ rows[s].offset = 0 /\ rows[s].completedAt = 0
                           /\ ~IsCompleted(rows[s]) /\ Progress(s) = 0
  BY DEF Init, AbsentRow, Progress, GetStepProgress, IsCompleted
<1>8. Created = Old /\ Joined = {} /\ IsFiniteSet(Joined) /\ Cardinality(Joined) = 0
  <2>1. \A p \in Providers : born[p] > 0 <=> p \in Old
    BY <1>1, <1>2, <1>3
  <2>2. Created = Old
    BY <2>1, ProvidersAssumption DEF Created
  <2>3. Joined = {}
    BY DEF Init, Joined
  <2> QED
    BY <2>2, <2>3, FS_EmptySet
<1>9. InTime
  <2>1. \A p \in Providers : born[p] < Now
    <3> SUFFICES ASSUME NEW p \in Providers
                 PROVE  born[p] < Now
      OBVIOUS
    <3>1. upTo(p) \in SUBSET Old /\ IsFiniteSet(Old)
      BY <1>1, ProvidersAssumption, ProviderFacts
    <3>2. Cardinality(upTo(p)) <= Cardinality(Old)
      BY <3>1, FS_Subset
    <3> QED
      BY <1>1, <1>3, <1>8, <3>2, NowFacts
  <2>2. \A p, q \in Providers : p < q /\ born[q] > 0 => born[p] > 0 /\ born[p] < born[q]
    <3> SUFFICES ASSUME NEW p \in Providers, NEW q \in Providers, p < q, born[q] > 0
                 PROVE  born[p] > 0 /\ born[p] < born[q]
      OBVIOUS
    <3>1. q \in Old
      BY <1>3
    <3>2. p \in Old
      <4>1. p \notin Old => q < p
        BY <3>1, ProvidersAssumption
      <4> QED
        BY <4>1, ProviderFacts
    <3> QED
      BY <1>1, <1>2, <1>3, <1>5, <3>1, <3>2
  <2>3. 0 < Now /\ \A s \in StepNames : rows[s].completedAt <= Now
    BY <1>7, <1>8, NowFacts
  <2> QED
    BY <1>8, <2>1, <2>2, <2>3 DEF Init, InTime
<1>10. RowsInOrder
  BY <1>7, <1>8, NameFacts DEF Init, RowsInOrder
<1>11. ServedBehind /\ NotServedAhead
  <2>1. ServedBehind
    BY <1>7, FoundFacts, NameFacts DEF ServedBehind, GatewaySteps
  <2>2. \A p \in Providers : ~(apps[p] > 0)
    BY DEF Init
  <2> QED
    BY <2>1, <2>2, FoundFacts DEF NotServedAhead
<1>12. MigratedOnce /\ NothingBehindWatermark /\ NoViaMissing
  <2>1. MigratedOnce
    BY DEF Init, MigratedOnce, GatesOf
  <2>2. Watermark("gateways") = 0
    BY <1>7, WatermarkFacts, NameFacts DEF GetStepCompletedAt
  <2>3. \A p \in Created : ~(born[p] < Watermark("gateways"))
    BY <1>4, <2>2 DEF Created
  <2>4. talks = {}
    BY DEF Init
  <2> QED
    BY <2>1, <2>3, <2>4 DEF NothingBehindWatermark, NoViaMissing
<1>13. RunInv
  <2>1. ClientsBeforeVias
    BY <1>8 DEF Init, ClientsBeforeVias
  <2> QED
    BY <2>1 DEF Init, RunInv, InStep, OnPage, PageIsNext, GatewaysFirst, ClientsFirst, ViasWritten
<1> QED
  BY <1>6, <1>9, <1>10, <1>11, <1>12, <1>13 DEF IInv, DbInv

--------------------------------------------------------------------------------
(* What a step leaves as it is. *)

\* Nothing of the legacy database, the apps and the gates changes, nor a saved offset or
\* the time of a completion.
LEMMA SameDatabase ==
    ASSUME TypeOK, DbInv, UNCHANGED <<env, legacy, apps, gates>>, vias \subseteq vias',
           \A s \in StepNames : rows'[s].completedAt = rows[s].completedAt,
           \A s \in GatewaySteps : Progress(s)' = Progress(s) /\ Open(s)' = Open(s),
           RowsInOrder'
    PROVE  /\ DbInv'
           /\ \A k \in Kinds : Watermark(k)' = Watermark(k)
           /\ \A s : From(s)' = From(s)
           /\ \A n : Found(n)' = Found(n) /\ \A p : Before(p, n)' = Before(p, n)
           /\ \A p : Served(p)' = Served(p)
<1>1. /\ InTime /\ MigratedOnce /\ NothingBehindWatermark /\ NoViaMissing
      /\ (env.quiet => ServedBehind) /\ (env.answered => NotServedAhead)
      /\ UNCHANGED <<env, born, joined, talks, back, apps, gates>>
  BY DEF DbInv, legacy
<1>2. \A k \in Kinds : Watermark(k)' = Watermark(k)
  BY WatermarkFacts, NameFacts DEF Kinds, Watermark, SyncOf, GetStepCompletedAt
<1>3. \A s : From(s)' = From(s)
  BY <1>2 DEF From, Kinds
<1>4. Now' = Now /\ Created' = Created /\ Joined' = Joined
  BY <1>1, SameTime
<1>5. \A n : Found(n)' = Found(n) /\ \A p : Before(p, n)' = Before(p, n)
  <2> TAKE n
  <2>1. Found(n)' = Found(n)
    BY <1>1, <1>4 DEF Found
  <2> QED
    BY <2>1 DEF Before
<1>6. \A p : Served(p)' = Served(p)
  BY <1>1 DEF Served, HasGate, GatesOf
<1>7. \A s : Found(From(s))' = Found(From(s))
  <2> TAKE s
  <2>1. From(s)' = From(s)
    BY <1>3
  <2> HIDE DEF From
  <2> QED
    BY <1>1, <1>4, <2>1 DEF Found
<1>8. \A s, p : Before(p, From(s))' = Before(p, From(s))
  <2> TAKE s, p
  <2>1. Found(From(s))' = Found(From(s))
    BY <1>7
  <2> HIDE DEF From, Found
  <2> QED
    BY <2>1 DEF Before
<1>9. InTime'
  BY <1>1, <1>4 DEF InTime
<1>10. (env.quiet => ServedBehind)'
  BY <1>1, <1>6, <1>7, <1>8 DEF ServedBehind
<1>11. (env.answered => NotServedAhead)'
  BY <1>1, <1>7, <1>8 DEF NotServedAhead
<1>12. MigratedOnce'
  BY <1>1 DEF MigratedOnce, GatesOf
<1>13. NothingBehindWatermark'
  <2>1. Watermark("gateways")' = Watermark("gateways")
    BY <1>2 DEF Kinds
  <2> HIDE DEF Watermark
  <2> QED
    BY <1>1, <1>4, <1>6, <2>1 DEF NothingBehindWatermark
<1>14. NoViaMissing'
  <2>1. Watermark("vias")' = Watermark("vias")
    BY <1>2 DEF Kinds
  <2> HIDE DEF Watermark
  <2> QED
    BY <1>1, <2>1 DEF NoViaMissing, GatesOf
<1> QED
  BY <1>2, <1>3, <1>5, <1>6, <1>9, <1>10, <1>11, <1>12, <1>13, <1>14 DEF DbInv

LEMMA NothingWritten ==
    ASSUME TypeOK, DbInv, UNCHANGED <<env, legacy, rows, apps, gates>>, vias \subseteq vias'
    PROVE  /\ DbInv'
           /\ \A k \in Kinds : Watermark(k)' = Watermark(k)
           /\ \A s : From(s)' = From(s)
           /\ \A n : Found(n)' = Found(n) /\ \A p : Before(p, n)' = Before(p, n)
           /\ \A p : Served(p)' = Served(p)
           /\ \A s : Progress(s)' = Progress(s)
           /\ (Migrated' <=> Migrated)
<1>1. \A s : Progress(s)' = Progress(s) /\ Open(s)' = Open(s)
  BY DEF Progress, Open
<1>2. (Migrated' <=> Migrated)
  BY DEF Migrated
<1>3. RowsInOrder'
  BY <1>2 DEF DbInv, RowsInOrder, legacy, Joined
<1>4. \A s \in StepNames : rows'[s].completedAt = rows[s].completedAt
  OBVIOUS
<1> QED
  BY <1>1, <1>2, <1>3, <1>4, SameDatabase

\* Which form runs when it is the turn of the gateways.
LEMMA FormFacts ==
    ASSUME TypeOK, RowsInOrder, InStep, pc # "off", index = 2
    PROVE  /\ Current \in GatewaySteps /\ Current \in StepNames /\ Open(Current)
           /\ \A s \in GatewaySteps : s # Current => ~Open(s) /\ Progress(s) = 0
           /\ mode # "sync" => Current = "gateways" /\ ~Migrated /\ env.migrates
           /\ mode = "sync" => Current = "sync_gateways"
<1>1. Current = IF mode = "sync" THEN "sync_gateways" ELSE "gateways"
  BY CurrentFacts
<1>2. Current \in GatewaySteps /\ Current \in StepNames
  BY <1>1, NameFacts DEF GatewaySteps
<1>3. CASE mode = "sync"
  <2>1. env.migrates => IsCompleted(rows["gateways"])
    BY <1>3, NameFacts DEF InStep, Kinds
  <2>2. ~env.migrates => rows["gateways"] = AbsentRow
    BY DEF RowsInOrder
  <2>3. Progress("gateways") = 0
    BY <2>1, <2>2 DEF Progress, GetStepProgress, AbsentRow
  <2> QED
    BY <1>1, <1>2, <1>3, <2>1, <2>3 DEF Open, GatewaySteps
<1>4. CASE mode # "sync"
  <2>1. env.migrates /\ ~IsCompleted(rows["gateways"])
    <3>1. env.migrates /\ (2 < index <=> IsCompleted(rows[Plan("migration")[2]]))
      BY <1>4 DEF InStep
    <3> QED
      BY <3>1, PlanFacts
  <2>2. ~Migrated /\ rows["sync_gateways"] = AbsentRow
    BY <2>1, NameFacts DEF RowsInOrder, Kinds
  <2>3. Progress("sync_gateways") = 0
    BY <2>2 DEF Progress, GetStepProgress, AbsentRow
  <2> QED
    BY <1>1, <1>2, <1>4, <2>1, <2>2, <2>3 DEF Open, GatewaySteps
<1> QED
  BY <1>3, <1>4

\* A write to the row of the gateways step, unless it completes the form.
LEMMA RowWritten ==
    ASSUME TypeOK, RowsInOrder, InStep, pc # "off", index = 2, UNCHANGED <<env, legacy>>,
           NEW r \in StepRow({}), r = rows[Current] \/ r.status \in {"in_progress", "failed"},
           r.completedAt = rows[Current].completedAt, rows' = [rows EXCEPT ![Current] = r]
    PROVE  /\ rows' \in [StepNames -> StepRow({})]
           /\ \A s \in StepNames : rows'[s].completedAt = rows[s].completedAt
           /\ \A s \in GatewaySteps :
                 Progress(s)' = IF s = Current THEN GetStepProgress(r) ELSE Progress(s)
           /\ \A k \in Kinds : IsCompleted(rows[k])' = IsCompleted(rows[k])
           /\ (Migrated' <=> Migrated)
           /\ \A s \in GatewaySteps : Open(s)' = Open(s)
           /\ RowsInOrder'
<1> DEFINE form == Current
<1>1. /\ form \in GatewaySteps /\ form \in StepNames
      /\ mode # "sync" => form = "gateways" /\ ~Migrated /\ env.migrates /\ ~IsCompleted(rows["gateways"])
      /\ mode = "sync" => form = "sync_gateways" /\ (env.migrates => Migrated)
      /\ rows' = [rows EXCEPT ![form] = r] /\ r.completedAt = rows[form].completedAt
      /\ r = rows[form] \/ r.status \in {"in_progress", "failed"}
  BY FormFacts DEF InStep, Open
<1> HIDE DEF form
<1>2. /\ rows' \in [StepNames -> StepRow({})]
      /\ \A s \in StepNames : rows'[s] = IF s = form THEN r ELSE rows[s]
  BY <1>1 DEF TypeOK
<1>3. \A s \in StepNames : rows'[s].completedAt = rows[s].completedAt
  BY <1>1, <1>2
<1>4. \A s \in GatewaySteps : Progress(s)' = IF s = form THEN GetStepProgress(r) ELSE Progress(s)
  BY <1>2, NameFacts DEF Progress, GatewaySteps
<1>5. \A k \in Kinds : IsCompleted(rows[k])' = IsCompleted(rows[k])
  <2>1. form = "gateways" => ~IsCompleted(rows["gateways"]) /\ ~IsCompleted(r)
    BY <1>1 DEF IsCompleted
  <2> QED
    BY <1>1, <1>2, <2>1, NameFacts DEF Kinds, IsCompleted, GatewaySteps
<1>6. (Migrated' <=> Migrated)
  <2>1. Migrated' <=> \A k \in Kinds : IsCompleted(rows[k])'
    BY NameFacts, PlanFacts DEF Migrated, Kinds
  <2> QED
    BY <1>5, <2>1, NameFacts
<1>7. \A s \in GatewaySteps : Open(s)' = Open(s)
  BY <1>5 DEF Open, Kinds
<1>8. RowsInOrder'
  <2>1. \A s \in StepNames : rows'[s].status \in {"absent", "completed"} => rows'[s].offset = 0
    <3> SUFFICES ASSUME NEW s \in StepNames, rows'[s].status \in {"absent", "completed"}
                 PROVE  rows'[s].offset = 0
      OBVIOUS
    <3>1. rows'[s] = rows[s]
      BY <1>1, <1>2
    <3> QED
      BY <3>1 DEF RowsInOrder
  <2>2. /\ IsCompleted(rows'["gateways"]) => IsCompleted(rows'["clients"])
        /\ IsCompleted(rows'["vias"]) => IsCompleted(rows'["gateways"])
    BY <1>5 DEF RowsInOrder, Kinds
  <2>3. ~env.migrates => rows'["gateways"] = AbsentRow
    BY <1>1, <1>2, NameFacts DEF RowsInOrder
  <2>4. env.migrates /\ ~Migrated =>
            talks = {} /\ Joined = {} /\ rows'["sync_gateways"] = AbsentRow
    BY <1>1, <1>2, NameFacts DEF RowsInOrder
  <2> QED
    BY <1>6, <2>1, <2>2, <2>3, <2>4 DEF RowsInOrder, legacy, Joined
<1> QED
  BY <1>2, <1>3, <1>4, <1>5, <1>6, <1>7, <1>8 DEF form

LEMMA WatermarksKept ==
    ASSUME \A s \in StepNames : rows'[s].completedAt = rows[s].completedAt
    PROVE  \A k \in Kinds : Watermark(k)' = Watermark(k)
BY NameFacts DEF Kinds, Watermark, SyncOf, GetStepCompletedAt

\* Between runs nothing is asked of where a run is.
LEMMA AtRest ==
    ASSUME TypeOK, RunInv, Die, UNCHANGED <<env, legacy, contactRows>>,
           \A s \in StepNames : rows'[s].completedAt = rows[s].completedAt
    PROVE  /\ RunInv'
           /\ mode' \in {"migration", "sync"} /\ index' \in 1..3
           /\ pc' \in {"off", "start", "fetch", "commit", "done"}
           /\ offset' \in Nat /\ from' \in Nat
           /\ batch' \subseteq Providers /\ numbers' \subseteq batch' /\ more' \in BOOLEAN
<1>1. /\ pc' = "off" /\ index' = 1 /\ mode' = mode /\ offset' = 0 /\ from' = 0
      /\ batch' = {} /\ numbers' = {} /\ UNCHANGED <<env, born, joined, talks, back, contactRows>>
  BY DEF Die, ClearPage, legacy
<1>2. more' \in BOOLEAN
  BY DEF Die, ClearPage
<1>3. /\ Watermark("clients")' = Watermark("clients") /\ Watermark("vias")' = Watermark("vias")
      /\ Watermark("gateways")' = Watermark("gateways")
  BY WatermarksKept DEF Kinds
<1>4. InStep' /\ PageIsNext' /\ ViasWritten'
  BY <1>1 DEF InStep, OnPage, PageIsNext, ViasWritten
<1>5. ClientsFirst' /\ ClientsBeforeVias' /\ (env.quiet => GatewaysFirst)'
  <2> HIDE DEF Watermark
  <2>1. ClientsBeforeVias'
    BY <1>1, <1>3 DEF RunInv, ClientsBeforeVias, Joined
  <2> QED
    BY <1>1, <1>3, <2>1 DEF RunInv, ClientsFirst, GatewaysFirst
<1>6. /\ mode' \in {"migration", "sync"} /\ index' \in 1..3
      /\ pc' \in {"off", "start", "fetch", "commit", "done"}
      /\ offset' \in Nat /\ from' \in Nat
      /\ batch' \subseteq Providers /\ numbers' \subseteq batch'
  BY <1>1 DEF TypeOK
<1> QED
  BY <1>2, <1>4, <1>5, <1>6 DEF RunInv

\* A run that stops, or fails, without a page leaves the database in order.
LEMMA StopIsSafe ==
    ASSUME IInv, pc # "off", UNCHANGED <<env, legacy, target>>,
           \/ pc \in {"fetch", "commit"} /\ Fail(rows[Current])
           \/ Die /\ UNCHANGED rows
    PROVE  IInv'
<1>1. TypeOK /\ DbInv /\ RunInv /\ InStep /\ RowsInOrder
      /\ UNCHANGED <<contactRows, apps, gates, vias>> /\ Die
  BY DEF IInv, DbInv, RunInv, target, Fail
<1>2. /\ DbInv' /\ rows' \in [StepNames -> StepRow({})]
      /\ \A s \in StepNames : rows'[s].completedAt = rows[s].completedAt
  <2>1. CASE UNCHANGED rows
    BY <1>1, <2>1, NothingWritten DEF TypeOK
  <2>2. CASE pc \in {"fetch", "commit"} /\ Fail(rows[Current])
    <3> DEFINE old == rows[Current]
               r == IF rows' = [rows EXCEPT ![Current] = old] THEN old ELSE MarkStepFailed(old, offset)
    <3>1. /\ index = 2 /\ offset = Progress(Current) /\ offset \in Nat
          /\ Current \in GatewaySteps /\ old \in StepRow({})
      BY <1>1, <2>2, FormFacts, CurrentFacts DEF InStep, OnPage, TypeOK
    <3>2. rows' = [rows EXCEPT ![Current] = r]
      BY <2>2 DEF Fail
    <3>3. /\ r \in StepRow({}) /\ r.completedAt = old.completedAt
          /\ r = old \/ r.status \in {"in_progress", "failed"}
          /\ GetStepProgress(r) = Progress(Current)
      <4> HIDE DEF old
      <4>1. /\ MarkStepFailed(old, offset) \in StepRow({})
            /\ MarkStepFailed(old, offset).completedAt = old.completedAt
            /\ MarkStepFailed(old, offset).status = "failed"
            /\ GetStepProgress(MarkStepFailed(old, offset)) = offset
        BY <3>1, OffsetRowFacts, OffsetRowValues
      <4>2. GetStepProgress(old) = Progress(Current)
        BY DEF Progress, old
      <4> QED
        BY <3>1, <4>1, <4>2
    <3> HIDE DEF r
    <3>4. /\ rows' \in [StepNames -> StepRow({})]
          /\ \A s \in StepNames : rows'[s].completedAt = rows[s].completedAt
          /\ \A s \in GatewaySteps :
                Progress(s)' = IF s = Current THEN GetStepProgress(r) ELSE Progress(s)
          /\ \A s \in GatewaySteps : Open(s)' = Open(s)
          /\ RowsInOrder'
      BY <1>1, <3>1, <3>2, <3>3, RowWritten
    <3>5. \A s \in GatewaySteps : Progress(s)' = Progress(s)
      BY <3>3, <3>4
    <3>6. vias \subseteq vias' /\ UNCHANGED <<env, legacy, apps, gates>>
      BY <1>1
    <3>7. DbInv'
      BY <1>1, <3>4, <3>5, <3>6, SameDatabase
    <3> QED
      BY <3>4, <3>7
  <2> QED
    BY <2>1, <2>2
<1>3. RunInv' /\ TypeOK'
  BY <1>1, <1>2, AtRest DEF TypeOK, legacy
<1> QED
  BY <1>2, <1>3 DEF IInv

\* A run that neither begins nor changes the step leaves the clients as they are.
LEMMA ClientsStay ==
    ASSUME ClientsBeforeVias, UNCHANGED joined,
           \A k \in Kinds : Watermark(k)' = Watermark(k),
           pc' # "off" /\ index' > 1 => pc # "off" /\ index > 1
    PROVE  ClientsBeforeVias'
<1>1. Watermark("clients")' = Watermark("clients") /\ Watermark("vias")' = Watermark("vias")
  BY DEF Kinds
<1> HIDE DEF Watermark
<1> QED
  BY <1>1 DEF ClientsBeforeVias, Joined

--------------------------------------------------------------------------------
(* The pages of the gateways step. *)

LEMMA StartGatewaysIsSafe ==
    ASSUME IInv, StartGateways
    PROVE  IInv'
<1>1. /\ TypeOK /\ DbInv /\ RunInv /\ InStep /\ ClientsFirst /\ ClientsBeforeVias
      /\ (env.quiet => GatewaysFirst)
  BY DEF IInv, RunInv
<1>2. /\ UNCHANGED <<env, legacy, rows, contactRows, apps, gates, vias, mode, index, batch, numbers, more>>
      /\ pc = "start" /\ pc' = "fetch" /\ Current \in {"gateways", "sync_gateways"}
      /\ offset' = Progress(Current) /\ from' = Since("gateways")
  BY DEF StartGateways, Progress, target
<1>3. index = 2 /\ Current \in StepNames
  BY <1>1, <1>2, CurrentFacts
<1>4. from' = From(Current)
  BY <1>1, <1>2, <1>3, CurrentFacts DEF Since, From
<1>5. /\ DbInv'
      /\ \A k \in Kinds : Watermark(k)' = Watermark(k)
      /\ \A s : From(s)' = From(s)
      /\ \A s : Progress(s)' = Progress(s)
      /\ Migrated' <=> Migrated
  BY <1>1, <1>2, NothingWritten
<1>6. TypeOK'
  <2>1. offset' \in Nat /\ from' \in Nat
    BY <1>1, <1>2, <1>3, <1>4, RowTypes
  <2> QED
    BY <1>1, <1>2, <2>1 DEF TypeOK, legacy
<1>7. InStep'
  <2>1. (offset = Progress(Current))' /\ (from = From(Current))'
    <3>1. Current' = Current
      BY <1>2 DEF Current
    <3>2. Progress(Current)' = Progress(Current) /\ From(Current)' = From(Current)
      BY <1>2, <3>1 DEF Progress, From, Watermark
    <3> QED
      BY <1>2, <1>4, <3>2
  <2> QED
    BY <1>1, <1>2, <1>3, <1>5, <2>1 DEF InStep
<1>8. PageIsNext' /\ ViasWritten'
  BY <1>2, <1>3 DEF PageIsNext, ViasWritten, OnPage
<1>9. ClientsFirst' /\ (env.quiet => GatewaysFirst)'
  <2>1. /\ Watermark("clients")' = Watermark("clients") /\ Watermark("vias")' = Watermark("vias")
        /\ Watermark("gateways")' = Watermark("gateways")
    BY <1>5 DEF Kinds
  <2> HIDE DEF Watermark
  <2> QED
    BY <1>1, <1>2, <1>3, <2>1 DEF ClientsFirst, GatewaysFirst, legacy
<1>10. ClientsBeforeVias'
  BY <1>1, <1>2, <1>5, ClientsStay DEF legacy
<1> QED
  BY <1>5, <1>6, <1>7, <1>8, <1>9, <1>10 DEF IInv, RunInv

\* What lies before the offset has what it should: what does not is on the page, or comes
\* after a full one; so an empty page is the end.
LEMMA FetchIsSafe ==
    ASSUME IInv, Fetch
    PROVE  IInv'
<1>1. /\ TypeOK /\ DbInv /\ RunInv /\ InStep /\ ClientsFirst /\ ClientsBeforeVias /\ RowsInOrder
      /\ (env.quiet => GatewaysFirst /\ PageIsNext /\ ServedBehind)
  BY DEF IInv, RunInv, DbInv
<1>2. /\ UNCHANGED <<env, legacy, rows, contactRows, apps, gates, vias, mode, index, offset, from>>
      /\ pc = "fetch" /\ pc' = (IF EndsEmpty(Page) THEN "done" ELSE "commit")
      /\ batch' = Page /\ more' = FullPage(Page)
      /\ numbers' \in SUBSET (Page \cap WhatsApp)
      /\ env.graph => numbers' = Page \cap WhatsApp
  BY DEF Fetch, target
<1>3. /\ index = 2 /\ Current \in GatewaySteps /\ Current \in StepNames
      /\ offset = Progress(Current) /\ from = From(Current) /\ offset \in Nat
  BY <1>1, <1>2, FormFacts DEF InStep, OnPage, TypeOK
<1>4. /\ DbInv'
      /\ \A k \in Kinds : Watermark(k)' = Watermark(k)
      /\ \A n : Found(n)' = Found(n) /\ \A p : Before(p, n)' = Before(p, n)
      /\ \A p : Served(p)' = Served(p)
      /\ Migrated' <=> Migrated
  BY <1>1, <1>2, NothingWritten
<1>5. /\ Found(from)' = Found(from) /\ \A p : Before(p, from)' = Before(p, from)
  <2>1. Found(from)' = Found(from)
    BY <1>2 DEF Found, Created, legacy
  <2> QED
    BY <1>2, <2>1 DEF Before
<1>6. Page \in SUBSET Found(from) /\ Page \in SUBSET Providers
  BY FoundFacts DEF Page
<1>7. TypeOK'
  <2>1. more' \in BOOLEAN
    BY <1>2 DEF FullPage
  <2>2. batch' \subseteq Providers /\ numbers' \subseteq batch'
    BY <1>2, <1>6
  <2>3. pc' \in {"off", "start", "fetch", "commit", "done"}
    BY <1>2
  <2> QED
    BY <1>1, <1>2, <2>1, <2>2, <2>3 DEF TypeOK, legacy
<1>8. InStep'
  <2>1. (offset = Progress(Current))' /\ (from = From(Current))'
    <3>1. Current' = Current
      BY <1>2 DEF Current
    <3>2. Progress(Current)' = Progress(Current) /\ From(Current)' = From(Current)
      BY <1>2, <3>1 DEF Progress, From, Watermark
    <3> QED
      BY <1>2, <1>3, <3>2
  <2>2. \A p \in batch' : p \in Found(from)' /\ offset' <= Before(p, from)'
                          /\ Before(p, from)' < offset' + PerPage
    BY <1>2, <1>5 DEF Page
  <2>3. env.graph => numbers' = batch' \cap WhatsApp
    BY <1>2
  <2> QED
    BY <1>1, <1>2, <1>3, <1>4, <2>1, <2>2, <2>3 DEF InStep
<1>9. (env.quiet => PageIsNext)'
  <2> SUFFICES ASSUME env.quiet, NEW p \in Found(from), ~Served(p)
               PROVE  /\ pc' # "done"
                      /\ p \notin Page => FullPage(Page) /\ offset + PerPage <= Before(p, from)
    BY <1>2, <1>4, <1>5 DEF PageIsNext
  <2>1. /\ Found(from) \in SUBSET Nat /\ IsFiniteSet(Found(from))
        /\ \A q : Before(q, from) = Rank(q, Found(from)) /\ Before(q, from) \in Nat
        /\ PerPage \in Nat \ {0}
    BY FoundFacts, ProviderFacts
  <2>2. ~(Before(p, from) < offset)
    BY <1>1, <1>3 DEF ServedBehind
  <2>3. p \notin Page => offset + PerPage <= Before(p, from)
    <3>1. p \notin Page => ~(Before(p, from) < offset + PerPage)
      BY <1>3, <2>1, <2>2 DEF Page
    <3> QED
      BY <1>3, <2>1, <3>1
  <2>4. Page = {x \in Found(from) : /\ offset <= Rank(x, Found(from))
                                    /\ Rank(x, Found(from)) < offset + PerPage}
    BY <2>1 DEF Page
  <2>5. p \notin Page => Cardinality(Page) >= PerPage
    BY <1>3, <2>1, <2>3, <2>4, OffsetPage
  <2>6. Page # {}
    <3>1. Page = {} => ~(Cardinality(Page) >= PerPage)
      BY <2>1, FS_EmptySet
    <3> QED
      BY <2>5, <3>1
  <2> QED
    BY <1>2, <2>3, <2>5, <2>6 DEF EndsEmpty, FullPage
<1>10. ClientsFirst' /\ (env.quiet => GatewaysFirst)' /\ ViasWritten'
  <2>1. /\ Watermark("clients")' = Watermark("clients") /\ Watermark("vias")' = Watermark("vias")
        /\ Watermark("gateways")' = Watermark("gateways")
    BY <1>4 DEF Kinds
  <2> HIDE DEF Watermark
  <2> QED
    BY <1>1, <1>2, <1>3, <2>1 DEF ClientsFirst, GatewaysFirst, ViasWritten, legacy
<1>11. ClientsBeforeVias'
  BY <1>1, <1>2, <1>4, ClientsStay DEF legacy
<1> QED
  BY <1>4, <1>7, <1>8, <1>9, <1>10, <1>11 DEF IInv, RunInv

LEMMA PageWritten ==
    ASSUME TypeOK, WritePage, UNCHANGED env
    PROVE  /\ apps' \in [Providers -> Nat]
           /\ \A p \in Providers : apps'[p] = IF p \in Kept THEN apps[p] + 1 ELSE apps[p]
           /\ gates' \subseteq Providers \X {"facebook", "whatsapp"} \X Nat
           /\ gates' = gates \cup NewGates /\ gates \subseteq gates'
           /\ \A g \in NewGates : g[1] \in batch /\ g[3] = apps[g[1]] + 1
           /\ \A p \in Providers : Served(p) => Served(p)'
           /\ (env.graph => numbers = batch \cap WhatsApp) => \A p \in batch : Served(p)'
           /\ Kept \subseteq batch
<1>1. /\ apps \in [Providers -> Nat] /\ batch \subseteq Providers /\ numbers \subseteq batch
      /\ gates \subseteq Providers \X {"facebook", "whatsapp"} \X Nat
  BY DEF TypeOK
<1>2. /\ apps' \in [Providers -> Nat]
      /\ \A p \in Providers : apps'[p] = IF p \in Kept THEN apps[p] + 1 ELSE apps[p]
  BY <1>1 DEF WritePage
<1>3. gates' = gates \cup NewGates /\ gates \subseteq gates'
  BY DEF WritePage
<1>4. /\ \A g \in NewGates : \E p \in batch, k \in {"facebook", "whatsapp"} :
                                g = <<p, k, apps[p] + 1>>
      /\ \A p \in batch : apps[p] + 1 \in Nat
  BY <1>1 DEF NewGates
<1>5. NewGates \subseteq Providers \X {"facebook", "whatsapp"} \X Nat
  BY <1>1, <1>4
<1>6. \A g \in NewGates : g[1] \in batch /\ g[3] = apps[g[1]] + 1
  BY <1>4
<1>7. Kept \subseteq batch
  BY DEF Kept
<1>8. \A p, k : HasGate(p, k) => HasGate(p, k)'
  BY <1>3 DEF HasGate, GatesOf
<1>9. \A p \in Providers : apps[p] > 0 => apps'[p] > 0
  BY <1>1, <1>2
<1>10. \A p \in Providers : Served(p) => Served(p)'
  BY <1>8, <1>9 DEF Served
<1>11. ASSUME env.graph => numbers = batch \cap WhatsApp, NEW p \in batch
       PROVE  Served(p)'
  <2>1. p \in Facebook \cup WhatsApp \cup AppOnly => apps'[p] > 0
    BY <1>1, <1>2 DEF Kept
  <2>2. p \in Facebook => HasGate(p, "facebook")'
    <3> SUFFICES ASSUME p \in Facebook
                 PROVE  HasGate(p, "facebook")'
      OBVIOUS
    <3> DEFINE g == <<p, "facebook", apps[p] + 1>>
    <3>1. g \in gates' /\ g[1] = p /\ g[2] = "facebook"
      BY <1>3 DEF NewGates
    <3> QED
      BY <3>1 DEF HasGate, GatesOf
  <2>3. p \in WhatsApp /\ env.graph => HasGate(p, "whatsapp")'
    <3> SUFFICES ASSUME p \in WhatsApp, env.graph
                 PROVE  HasGate(p, "whatsapp")'
      OBVIOUS
    <3> DEFINE g == <<p, "whatsapp", apps[p] + 1>>
    <3>1. g \in gates' /\ g[1] = p /\ g[2] = "whatsapp"
      BY <1>3, <1>11 DEF NewGates
    <3> QED
      BY <3>1 DEF HasGate, GatesOf
  <2> QED
    BY <2>1, <2>2, <2>3 DEF Served
<1>12. gates' \subseteq Providers \X {"facebook", "whatsapp"} \X Nat
  BY <1>1, <1>3, <1>5
<1> QED
  BY <1>2, <1>3, <1>6, <1>7, <1>10, <1>11, <1>12

\* A committed page leaves the database in order, with the offset after it or, when the
\* answer is lost, the one before it.
LEMMA PageIsSafe ==
    ASSUME IInv, pc = "commit", WritePage, UNCHANGED <<env, legacy>>,
           NEW r \in StepRow({}), r.status \in {"in_progress", "failed"},
           r.completedAt = rows[Current].completedAt,
           \/ GetStepProgress(r) = offset + PerPage
           \/ ~env.answered /\ GetStepProgress(r) = offset,
           rows' = [rows EXCEPT ![Current] = r]
    PROVE  DbInv' /\ rows' \in [StepNames -> StepRow({})]
<1> DEFINE form == Current
<1>1. /\ TypeOK /\ InTime /\ RowsInOrder /\ InStep /\ MigratedOnce /\ NothingBehindWatermark
      /\ NoViaMissing /\ index = 2
      /\ (env.quiet => ServedBehind /\ PageIsNext /\ GatewaysFirst)
      /\ (env.answered => NotServedAhead)
      /\ UNCHANGED <<env, born, joined, talks, back, vias>>
  BY DEF IInv, DbInv, RunInv, InStep, legacy, WritePage
<1>2. /\ form \in GatewaySteps /\ Open(form)
      /\ \A s \in GatewaySteps : s # form => ~Open(s) /\ Progress(s) = 0
      /\ mode # "sync" => env.migrates /\ ~Migrated
      /\ mode = "sync" => form = "sync_gateways"
  BY <1>1, FormFacts
<1>3. /\ offset = Progress(form) /\ from = From(form) /\ offset \in Nat /\ PerPage \in Nat \ {0}
      /\ \A p \in batch : p \in Found(from) /\ offset <= Before(p, from)
                          /\ Before(p, from) < offset + PerPage
      /\ env.graph => numbers = batch \cap WhatsApp
  BY <1>1, ProviderFacts DEF InStep, OnPage, TypeOK
<1>4. /\ rows' \in [StepNames -> StepRow({})]
      /\ \A s \in StepNames : rows'[s].completedAt = rows[s].completedAt
      /\ \A s \in GatewaySteps : Progress(s)' = IF s = form THEN GetStepProgress(r) ELSE Progress(s)
      /\ \A s \in GatewaySteps : Open(s)' = Open(s)
      /\ RowsInOrder'
  BY <1>1, RowWritten
<1> HIDE DEF form
<1>5. /\ \A p \in Providers : apps'[p] = IF p \in Kept THEN apps[p] + 1 ELSE apps[p]
      /\ gates' = gates \cup NewGates
      /\ \A g \in NewGates : g[1] \in batch /\ g[3] = apps[g[1]] + 1
      /\ \A p \in Providers : Served(p) => Served(p)'
      /\ \A p \in batch : Served(p)'
      /\ Kept \subseteq batch /\ batch \subseteq Providers /\ apps \in [Providers -> Nat]
  BY <1>1, <1>3, PageWritten DEF TypeOK
<1>6. \A k \in Kinds : Watermark(k)' = Watermark(k)
  BY <1>4, WatermarksKept
<1>7. \A s : From(s)' = From(s)
  BY <1>6 DEF From, Kinds
<1>8. Now' = Now /\ Created' = Created /\ Joined' = Joined
  BY <1>1, SameTime
<1>9. \A s : Found(From(s))' = Found(From(s)) /\ \A p : Before(p, From(s))' = Before(p, From(s))
  <2> TAKE s
  <2>1. From(s)' = From(s)
    BY <1>7
  <2> HIDE DEF From
  <2>2. Found(From(s))' = Found(From(s))
    BY <1>1, <1>8, <2>1 DEF Found
  <2> HIDE DEF Found
  <2> QED
    BY <2>2 DEF Before
<1>10. \A p, n : Before(p, n) \in Nat /\ Found(n) \in SUBSET Providers
  BY FoundFacts
<1>11. InTime'
  <2>1. \A p \in Providers : born[p] = 0 => p \notin batch
    BY <1>3 DEF Found, Created
  <2>2. \A p \in Providers : born[p] = 0 => apps'[p] = 0
    BY <1>1, <1>5, <2>1 DEF InTime
  <2> QED
    BY <1>1, <1>4, <1>8, <2>2 DEF InTime
<1>12. (env.quiet => ServedBehind)'
  <2> SUFFICES ASSUME env.quiet, NEW s \in GatewaySteps, NEW p \in Found(From(s)),
                      Before(p, From(s)) < Progress(s)', ~Served(p)'
               PROVE  FALSE
    BY <1>1, <1>9 DEF ServedBehind
  <2>1. p \in Providers /\ ~Served(p) /\ p \notin batch /\ Before(p, From(s)) \in Nat
    BY <1>5, <1>10
  <2>2. CASE s # form
    BY <1>1, <1>4, <2>1, <2>2 DEF ServedBehind
  <2>3. CASE s = form
    <3>1. offset + PerPage <= Before(p, from)
      BY <1>1, <1>3, <2>1, <2>3 DEF PageIsNext, OnPage
    <3>2. Progress(s)' = offset + PerPage \/ Progress(s)' = offset
      BY <1>4, <2>3
    <3> QED
      BY <1>3, <2>1, <2>3, <3>1, <3>2
  <2> QED
    BY <2>2, <2>3
<1>13. (env.answered => NotServedAhead)'
  <2> SUFFICES ASSUME env.answered, NEW s \in GatewaySteps, Open(s), NEW p \in Found(From(s)),
                      apps'[p] > 0
               PROVE  Before(p, From(s)) < Progress(s)'
    BY <1>1, <1>4, <1>9 DEF NotServedAhead
  <2>1. s = form
    BY <1>2
  <2>2. Progress(s)' = offset + PerPage
    BY <1>4, <2>1
  <2>3. p \in Providers /\ Before(p, from) \in Nat /\ From(s) = from
    BY <1>3, <1>10, <2>1
  <2>4. CASE p \in batch
    BY <1>3, <2>2, <2>3, <2>4
  <2>5. CASE p \notin batch
    <3>1. Before(p, from) < offset
      BY <1>1, <1>2, <1>3, <1>5, <2>1, <2>3, <2>5 DEF NotServedAhead
    <3> QED
      BY <1>3, <2>2, <2>3, <3>1
  <2> QED
    BY <2>4, <2>5
<1>14. env.answered => \A p \in batch : apps[p] = 0
  <2> SUFFICES ASSUME env.answered, NEW p \in batch
               PROVE  apps[p] = 0
    OBVIOUS
  <2>1. ~(Before(p, from) < offset)
    BY <1>3, <1>10
  <2>2. ~(apps[p] > 0)
    BY <1>1, <1>2, <1>3, <2>1 DEF NotServedAhead
  <2> QED
    BY <1>5, <2>2
<1>15. MigratedOnce'
  <2> SUFFICES ASSUME env.answered, NEW p \in Providers
               PROVE  apps'[p] <= 1 /\ \A g \in GatesOf(p)' : g[3] = 1
    BY <1>1 DEF MigratedOnce
  <2>1. apps[p] <= 1 /\ \A g \in GatesOf(p) : g[3] = 1
    BY <1>1 DEF MigratedOnce
  <2>2. apps'[p] <= 1
    BY <1>5, <1>14, <2>1
  <2>3. \A g \in NewGates : g[3] = 1
    BY <1>5, <1>14
  <2> QED
    BY <1>5, <2>1, <2>2, <2>3 DEF GatesOf
<1>16. NothingBehindWatermark'
  <2>1. Watermark("gateways")' = Watermark("gateways")
    BY <1>6 DEF Kinds
  <2>2. \A p \in Created : p \in Providers
    BY DEF Created
  <2> HIDE DEF Watermark
  <2> QED
    BY <1>1, <1>5, <1>8, <2>1, <2>2 DEF NothingBehindWatermark
<1>17. NoViaMissing'
  <2>1. Watermark("vias")' = Watermark("vias")
    BY <1>6 DEF Kinds
  <2> HIDE DEF Watermark
  <2> SUFFICES ASSUME env.quiet, NEW t \in talks \ back,
                      joined[t[1]] < Watermark("vias"), NEW g \in gates', g[1] = t[2]
               PROVE  <<t[1], g>> \in vias
    BY <1>1, <2>1 DEF NoViaMissing, GatesOf
  <2>2. CASE g \in gates
    BY <1>1, <2>2 DEF NoViaMissing, GatesOf
  <2>3. CASE g \in NewGates
    <3>1. t[2] \in Found(from)
      BY <1>3, <1>5, <2>3
    <3>2. born[t[2]] >= from /\ born[t[2]] \in Nat
      BY <1>1, <3>1 DEF Found, Created, TypeOK
    <3>3. born[t[2]] < Watermark("gateways")
      BY <1>1 DEF GatewaysFirst
    <3>4. mode = "sync"
      BY <1>1, <1>2 DEF RowsInOrder
    <3>5. from = Watermark("gateways")
      BY <1>2, <1>3, <3>4 DEF From
    <3>6. Watermark("gateways") \in Nat
      BY <1>1, RowTypes DEF Kinds
    <3> QED
      BY <3>2, <3>3, <3>5, <3>6
  <2> QED
    BY <1>5, <2>2, <2>3
<1> QED
  BY <1>4, <1>11, <1>12, <1>13, <1>15, <1>16, <1>17 DEF DbInv

\* The row that a committed page leaves.
LEMMA SavedRow ==
    ASSUME TypeOK
    PROVE  LET saved == SaveStepProgress(rows[Current], offset + PerPage)
           IN  /\ saved \in StepRow({}) /\ saved.status = "in_progress"
               /\ saved.completedAt = rows[Current].completedAt
               /\ GetStepProgress(saved) = offset + PerPage
               /\ MarkStepFailed(saved, offset) \in StepRow({})
               /\ MarkStepFailed(saved, offset).status = "failed"
               /\ MarkStepFailed(saved, offset).completedAt = rows[Current].completedAt
               /\ GetStepProgress(MarkStepFailed(saved, offset)) = offset
<1> DEFINE old == rows[Current]
           saved == SaveStepProgress(old, offset + PerPage)
<1>1. old \in StepRow({}) /\ offset \in Nat /\ offset + PerPage \in Nat
  BY CurrentFacts, ProviderFacts DEF TypeOK
<1> HIDE DEF old
<1>2. /\ saved \in StepRow({}) /\ saved.status = "in_progress"
      /\ saved.completedAt = old.completedAt
      /\ GetStepProgress(saved) = offset + PerPage
  BY <1>1, OffsetRowFacts, OffsetRowValues
<1> HIDE DEF saved
<1>3. /\ MarkStepFailed(saved, offset) \in StepRow({})
      /\ MarkStepFailed(saved, offset).status = "failed"
      /\ MarkStepFailed(saved, offset).completedAt = saved.completedAt
      /\ GetStepProgress(MarkStepFailed(saved, offset)) = offset
  BY <1>1, <1>2, OffsetRowFacts, OffsetRowValues
<1> QED
  BY <1>2, <1>3 DEF old, saved

LEMMA CommitIsSafe ==
    ASSUME IInv, Commit
    PROVE  IInv'
<1> DEFINE saved == SaveStepProgress(rows[Current], offset + PerPage)
<1>1. /\ TypeOK /\ RunInv /\ InStep /\ RowsInOrder /\ ClientsFirst /\ ClientsBeforeVias /\ index = 2
      /\ (env.quiet => PageIsNext /\ GatewaysFirst)
      /\ pc = "commit" /\ WritePage
      /\ UNCHANGED <<env, born, joined, talks, back, contactRows, vias, mode, index, from>>
      /\ rows' = [rows EXCEPT ![Current] = saved]
      /\ offset' = offset + PerPage /\ pc' = (IF more THEN "fetch" ELSE "done")
      /\ batch' = {} /\ numbers' = {}
  BY DEF Commit, IInv, DbInv, RunInv, InStep, legacy, WritePage
<1>2. more' = FALSE
  BY DEF Commit
<1>3. /\ saved \in StepRow({}) /\ saved.status = "in_progress"
      /\ saved.completedAt = rows[Current].completedAt
      /\ GetStepProgress(saved) = offset + PerPage
  BY <1>1, SavedRow
<1> HIDE DEF saved
<1>4. DbInv' /\ rows' \in [StepNames -> StepRow({})]
  BY <1>1, <1>3, PageIsSafe DEF legacy
<1>5. /\ apps' \in [Providers -> Nat]
      /\ gates' \subseteq Providers \X {"facebook", "whatsapp"} \X Nat /\ gates \subseteq gates'
      /\ \A p \in Providers : Served(p) => Served(p)'
      /\ (env.graph => numbers = batch \cap WhatsApp) => \A p \in batch : Served(p)'
  BY <1>1, PageWritten
<1>6. /\ \A s \in StepNames : rows'[s].completedAt = rows[s].completedAt
      /\ \A s \in GatewaySteps :
            Progress(s)' = IF s = Current THEN GetStepProgress(saved) ELSE Progress(s)
      /\ \A k \in Kinds : IsCompleted(rows[k])' = IsCompleted(rows[k])
      /\ (Migrated' <=> Migrated)
  BY <1>1, <1>3, RowWritten DEF legacy
<1>7. \A k \in Kinds : Watermark(k)' = Watermark(k)
  BY <1>6, WatermarksKept
<1>8. TypeOK'
  <2>1. offset + PerPage \in Nat /\ pc' \in {"off", "start", "fetch", "commit", "done"}
    BY <1>1, ProviderFacts DEF TypeOK
  <2>2. more' \in BOOLEAN
    BY <1>2
  <2>3. vias' \subseteq Clients \X gates'
    BY <1>1, <1>5 DEF TypeOK
  <2> QED
    BY <1>1, <1>4, <1>5, <2>1, <2>2, <2>3 DEF TypeOK
<1>9. InStep'
  <2>1. Current' = Current /\ Current \in GatewaySteps /\ Current \in StepNames
    BY <1>1, FormFacts DEF Current
  <2>2. (offset = Progress(Current))'
    <3>1. rows'[Current] = saved
      BY <1>1, <2>1 DEF TypeOK
    <3> QED
      BY <1>1, <1>3, <2>1, <3>1 DEF Progress
  <2>3. (from = From(Current))'
    <3>1. from = From(Current) /\ Watermark("gateways")' = Watermark("gateways")
      BY <1>1, <1>7 DEF InStep, OnPage, Kinds
    <3> HIDE DEF Watermark
    <3> QED
      BY <1>1, <2>1, <3>1 DEF From
  <2>4. /\ pc' # "commit" /\ (pc' # "off" => pc # "off")
        /\ \A k : IsCompleted(rows[k])' <=> IsCompleted(rows'[k])
    BY <1>1
  <2>5. \A j \in 1..3 : IsCompleted(rows[Plan("migration")[j]])' = IsCompleted(rows[Plan("migration")[j]])
    <3>1. \A j \in 1..3 : Plan("migration")[j] \in Kinds
      BY PlanFacts DEF Kinds
    <3> QED
      BY <1>6, <3>1
  <2> QED
    BY <1>1, <1>6, <2>2, <2>3, <2>4, <2>5 DEF InStep
<1>10. (env.quiet => PageIsNext)'
  <2>1. Found(from)' = Found(from) /\ Found(from) \subseteq Providers
    <3>1. Created' = Created
      BY <1>1, SameTime
    <3> QED
      BY <1>1, <3>1, FoundFacts DEF Found
  <2> SUFFICES ASSUME env.quiet, NEW p \in Found(from), ~Served(p)'
               PROVE  more
    BY <1>1, <2>1 DEF PageIsNext
  <2>2. p \in Providers /\ ~Served(p) /\ p \notin batch
    BY <1>1, <1>5, <2>1 DEF InStep
  <2> QED
    BY <1>1, <2>2 DEF PageIsNext, OnPage
<1>11. ClientsFirst' /\ (env.quiet => GatewaysFirst)' /\ ViasWritten'
  <2>1. /\ Watermark("clients")' = Watermark("clients") /\ Watermark("vias")' = Watermark("vias")
        /\ Watermark("gateways")' = Watermark("gateways")
    BY <1>7 DEF Kinds
  <2> HIDE DEF Watermark
  <2> QED
    BY <1>1, <2>1 DEF ClientsFirst, GatewaysFirst, ViasWritten
<1>12. ClientsBeforeVias'
  BY <1>1, <1>7, ClientsStay
<1> QED
  BY <1>4, <1>8, <1>9, <1>10, <1>11, <1>12 DEF IInv, RunInv

\* A page is committed and the run stops.
LEMMA PageThenStopIsSafe ==
    ASSUME IInv, pc = "commit", WritePage, Die, UNCHANGED <<env, legacy>>,
           NEW r \in StepRow({}), r.status \in {"in_progress", "failed"},
           r.completedAt = rows[Current].completedAt,
           \/ GetStepProgress(r) = offset + PerPage
           \/ ~env.answered /\ GetStepProgress(r) = offset,
           rows' = [rows EXCEPT ![Current] = r]
    PROVE  IInv'
<1>1. /\ TypeOK /\ RunInv /\ InStep /\ RowsInOrder /\ index = 2
      /\ UNCHANGED <<contactRows, vias>>
  BY DEF IInv, DbInv, RunInv, InStep, WritePage
<1>2. DbInv' /\ rows' \in [StepNames -> StepRow({})]
  BY PageIsSafe
<1>3. \A s \in StepNames : rows'[s].completedAt = rows[s].completedAt
  BY <1>1, RowWritten
<1>4. /\ RunInv'
      /\ mode' \in {"migration", "sync"} /\ index' \in 1..3
      /\ pc' \in {"off", "start", "fetch", "commit", "done"}
      /\ offset' \in Nat /\ from' \in Nat
      /\ batch' \subseteq Providers /\ numbers' \subseteq batch' /\ more' \in BOOLEAN
  BY <1>1, <1>3, AtRest
<1>5. TypeOK'
  <2>1. /\ apps' \in [Providers -> Nat]
        /\ gates' \subseteq Providers \X {"facebook", "whatsapp"} \X Nat /\ gates \subseteq gates'
    BY <1>1, PageWritten
  <2>2. vias' \subseteq Clients \X gates'
    BY <1>1, <2>1 DEF TypeOK
  <2>3. /\ env' \in Environments /\ born' \in [Providers -> Nat] /\ joined' \in [Clients -> Nat]
        /\ talks' \subseteq Channels /\ back' \subseteq talks' /\ contactRows' \subseteq talks'
    BY <1>1 DEF TypeOK, legacy
  <2> QED
    BY <1>2, <1>4, <2>1, <2>2, <2>3 DEF TypeOK
<1> QED
  BY <1>2, <1>4, <1>5 DEF IInv

LEMMA CrashAfterCommitIsSafe ==
    ASSUME IInv, CrashAfterCommit
    PROVE  IInv'
<1> DEFINE saved == SaveStepProgress(rows[Current], offset + PerPage)
<1>1. /\ pc = "commit" /\ WritePage /\ Die /\ UNCHANGED <<env, legacy>> /\ TypeOK
      /\ rows' = [rows EXCEPT ![Current] = saved]
  BY DEF CrashAfterCommit, IInv
<1>2. /\ saved \in StepRow({}) /\ saved.status = "in_progress"
      /\ saved.completedAt = rows[Current].completedAt
      /\ GetStepProgress(saved) = offset + PerPage
  BY <1>1, SavedRow
<1> HIDE DEF saved
<1> QED
  BY <1>1, <1>2, PageThenStopIsSafe

LEMMA CommitAnswerLostIsSafe ==
    ASSUME IInv, CommitAnswerLost
    PROVE  IInv'
<1> DEFINE saved == SaveStepProgress(rows[Current], offset + PerPage)
           failed == MarkStepFailed(saved, offset)
<1>1. /\ pc = "commit" /\ WritePage /\ Die /\ UNCHANGED <<env, legacy>> /\ TypeOK /\ ~env.answered
      /\ rows' = [rows EXCEPT ![Current] = saved] \/ rows' = [rows EXCEPT ![Current] = failed]
  BY DEF CommitAnswerLost, Fail, IInv
<1>2. /\ saved \in StepRow({}) /\ saved.status = "in_progress"
      /\ saved.completedAt = rows[Current].completedAt
      /\ GetStepProgress(saved) = offset + PerPage
      /\ failed \in StepRow({}) /\ failed.status = "failed"
      /\ failed.completedAt = rows[Current].completedAt
      /\ GetStepProgress(failed) = offset
  BY <1>1, SavedRow
<1> HIDE DEF saved, failed
<1>3. CASE rows' = [rows EXCEPT ![Current] = saved]
  BY <1>1, <1>2, <1>3, PageThenStopIsSafe
<1>4. CASE rows' = [rows EXCEPT ![Current] = failed]
  BY <1>1, <1>2, <1>4, PageThenStopIsSafe
<1> QED
  BY <1>1, <1>3, <1>4

LEMMA RefusedIsSafe ==
    ASSUME IInv, Refused
    PROVE  IInv'
BY StopIsSafe DEF Refused

LEMMA FailOrCrashIsSafe ==
    ASSUME IInv, FailOrCrash
    PROVE  IInv'
BY StopIsSafe DEF FailOrCrash

--------------------------------------------------------------------------------
(* The steps of one transaction. *)

\* Sync mode finds the clients since the last completion, before which each has its row.
LEMMA RunClientsIsSafe ==
    ASSUME IInv, RunClients
    PROVE  IInv'
<1>1. /\ TypeOK /\ DbInv /\ RunInv /\ InStep /\ ClientsFirst /\ ClientsBeforeVias
      /\ (env.quiet => GatewaysFirst)
  BY DEF IInv, RunInv
<1>2. /\ UNCHANGED <<env, born, joined, talks, back, rows, apps, gates, vias, mode, index, page>>
      /\ pc = "start" /\ pc' = "done" /\ Current \in {"clients", "sync_clients"}
      /\ contactRows' = contactRows \cup {t \in talks : joined[t[1]] >= Since("clients")}
  BY DEF RunClients, legacy
<1>3. index = 1
  BY <1>1, <1>2, CurrentFacts
<1>4. /\ DbInv'
      /\ \A k \in Kinds : Watermark(k)' = Watermark(k)
      /\ Migrated' <=> Migrated
  BY <1>1, <1>2, NothingWritten DEF legacy
<1>5. TypeOK'
  BY <1>1, <1>2 DEF TypeOK, page
<1>6. InStep'
  BY <1>1, <1>2, <1>3, <1>4 DEF InStep, OnPage
<1>7. PageIsNext' /\ ViasWritten'
  BY <1>2, <1>3 DEF PageIsNext, ViasWritten, OnPage
<1>8. talks \ back \subseteq contactRows'
  <2> SUFFICES ASSUME NEW t \in talks \ back, t \notin contactRows
               PROVE  joined[t[1]] >= Since("clients")
    BY <1>2
  <2>1. joined[t[1]] \in Nat /\ Watermark("clients") \in Nat
    <3>1. t[1] \in Clients
      BY <1>1, ProvidersAssumption DEF TypeOK
    <3> QED
      BY <1>1, <3>1, RowTypes DEF TypeOK, Kinds
  <2>2. ~(joined[t[1]] < Watermark("clients"))
    BY <1>1 DEF ClientsFirst
  <2> HIDE DEF Watermark
  <2> QED
    BY <2>1, <2>2 DEF Since
<1>9. ClientsFirst' /\ (env.quiet => GatewaysFirst)'
  <2>1. Watermark("vias")' = Watermark("vias") /\ Watermark("gateways")' = Watermark("gateways")
    BY <1>4 DEF Kinds
  <2> HIDE DEF Watermark
  <2> QED
    BY <1>1, <1>2, <1>3, <1>8, <2>1 DEF ClientsFirst, GatewaysFirst
<1>10. ClientsBeforeVias'
  BY <1>1, <1>2, <1>4, ClientsStay
<1> QED
  BY <1>4, <1>5, <1>6, <1>7, <1>9, <1>10 DEF IInv, RunInv

\* The contact of every client has its row by now, and every gate of a provider is there.
LEMMA RunViasIsSafe ==
    ASSUME IInv, RunVias
    PROVE  IInv'
<1>1. /\ TypeOK /\ DbInv /\ RunInv /\ InStep /\ ClientsFirst /\ ClientsBeforeVias
      /\ (env.quiet => GatewaysFirst)
  BY DEF IInv, RunInv
<1>2. /\ UNCHANGED <<env, born, joined, talks, back, rows, contactRows, apps, gates, mode, index, page>>
      /\ pc = "start" /\ pc' = "done" /\ Current \in {"vias", "sync_vias"}
      /\ vias' = vias \cup {v \in Chain : <<v[1], v[2][1]>> \in contactRows}
  BY DEF RunVias, legacy
<1>3. index = 3
  BY <1>1, <1>2, CurrentFacts
<1>4. /\ DbInv'
      /\ \A k \in Kinds : Watermark(k)' = Watermark(k)
      /\ Migrated' <=> Migrated
  BY <1>1, <1>2, NothingWritten DEF legacy
<1>5. \A t \in talks : t = <<t[1], t[2]>> /\ t[1] \in Clients
  BY <1>1, ProvidersAssumption DEF TypeOK
<1>6. TypeOK'
  <2>1. Chain \subseteq Clients \X gates
    BY <1>1, <1>5 DEF Chain, TypeOK
  <2>2. vias' \subseteq Clients \X gates
    BY <1>1, <1>2, <2>1 DEF TypeOK
  <2> QED
    BY <1>1, <1>2, <2>2 DEF TypeOK, page
<1>7. InStep'
  BY <1>1, <1>2, <1>3, <1>4 DEF InStep, OnPage
<1>8. PageIsNext'
  BY <1>2, <1>3 DEF PageIsNext, OnPage
<1>9. ViasWritten'
  <2> SUFFICES ASSUME NEW t \in talks \ back, NEW g \in gates, g[1] = t[2]
               PROVE  <<t[1], g>> \in vias'
    BY <1>2 DEF ViasWritten, GatesOf
  <2>1. t \in contactRows
    BY <1>1, <1>2, <1>3 DEF ClientsFirst
  <2>2. <<t[1], g>> \in Chain
    BY <2>1 DEF Chain
  <2> QED
    BY <1>2, <1>5, <2>1, <2>2
<1>10. ClientsFirst' /\ (env.quiet => GatewaysFirst)'
  <2>1. /\ Watermark("clients")' = Watermark("clients") /\ Watermark("vias")' = Watermark("vias")
        /\ Watermark("gateways")' = Watermark("gateways")
    BY <1>4 DEF Kinds
  <2> HIDE DEF Watermark
  <2> QED
    BY <1>1, <1>2, <1>3, <2>1 DEF ClientsFirst, GatewaysFirst
<1>11. ClientsBeforeVias'
  BY <1>1, <1>2, <1>4, ClientsStay
<1> QED
  BY <1>4, <1>6, <1>7, <1>8, <1>9, <1>10, <1>11 DEF IInv, RunInv

--------------------------------------------------------------------------------
(* From one step to the next. *)

\* Migration mode goes on only while sync mode has not been used.
LEMMA LaunchIsSafe ==
    ASSUME IInv, NEW m \in {"migration", "sync"}, Launch(m)
    PROVE  IInv'
<1>1. /\ TypeOK /\ DbInv /\ RunInv /\ InStep /\ ClientsFirst /\ ClientsBeforeVias /\ RowsInOrder
      /\ (env.quiet => GatewaysFirst)
  BY DEF IInv, RunInv, DbInv
<1>2. /\ UNCHANGED <<env, legacy, rows, contactRows, apps, gates, vias, page>>
      /\ pc = "off" /\ pc' = "start" /\ mode' = m
      /\ m = "sync" /\ env.migrates => Migrated
      /\ m # "sync" => env.migrates /\ ~Migrated
  BY DEF Launch, target
<1>3. PICK i \in 1..3 :
          /\ index' = i
          /\ m = "sync" => i = 1
          /\ m # "sync" => /\ ~IsCompleted(rows[Plan(m)[i]])
                           /\ \A j \in 1..(i - 1) : IsCompleted(rows[Plan(m)[j]])
  BY DEF Launch
<1>4. /\ DbInv'
      /\ \A k \in Kinds : Watermark(k)' = Watermark(k)
      /\ Migrated' <=> Migrated
  BY <1>1, <1>2, NothingWritten
<1>5. TypeOK'
  BY <1>1, <1>2, <1>3 DEF TypeOK, legacy, page
<1>6. m # "sync" => \A j \in 1..3 : j < i <=> IsCompleted(rows[Plan("migration")[j]])
  <2> SUFFICES ASSUME m # "sync"
               PROVE  \A j \in 1..3 : j < i <=> IsCompleted(rows[Plan("migration")[j]])
    OBVIOUS
  <2>1. /\ ~IsCompleted(rows[Plan("migration")[i]])
        /\ \A j \in 1..(i - 1) : IsCompleted(rows[Plan("migration")[j]])
    BY <1>3
  <2>2. CASE i = 1
    <3>1. ~IsCompleted(rows["clients"]) /\ ~IsCompleted(rows["gateways"]) /\ ~IsCompleted(rows["vias"])
      BY <1>1, <2>1, <2>2, PlanFacts DEF RowsInOrder
    <3> QED
      BY <2>2, <3>1, PlanFacts
  <2>3. CASE i = 2
    <3>1. IsCompleted(rows["clients"]) /\ ~IsCompleted(rows["gateways"]) /\ ~IsCompleted(rows["vias"])
      BY <1>1, <2>1, <2>3, PlanFacts DEF RowsInOrder
    <3> QED
      BY <2>3, <3>1, PlanFacts
  <2>4. CASE i = 3
    <3>1. IsCompleted(rows["clients"]) /\ IsCompleted(rows["gateways"]) /\ ~IsCompleted(rows["vias"])
      BY <1>1, <2>1, <2>4, PlanFacts DEF RowsInOrder
    <3> QED
      BY <2>4, <3>1, PlanFacts
  <2> QED
    BY <2>2, <2>3, <2>4, PlanFacts
<1>7. InStep'
  BY <1>2, <1>3, <1>4, <1>6 DEF InStep, OnPage
<1>8. PageIsNext' /\ ViasWritten'
  BY <1>2 DEF PageIsNext, ViasWritten, OnPage
<1>9. index' > 1 => talks = {} /\ Joined = {}
  BY <1>1, <1>2, <1>3 DEF RowsInOrder
<1>10. ClientsFirst' /\ ClientsBeforeVias' /\ (env.quiet => GatewaysFirst)'
  <2>1. /\ Watermark("clients")' = Watermark("clients") /\ Watermark("vias")' = Watermark("vias")
        /\ Watermark("gateways")' = Watermark("gateways")
    BY <1>4 DEF Kinds
  <2> HIDE DEF Watermark
  <2>2. ClientsBeforeVias'
    BY <1>1, <1>2, <1>9, <2>1 DEF ClientsBeforeVias, Joined, legacy
  <2> QED
    BY <1>1, <1>2, <1>3, <1>9, <2>1, <2>2 DEF ClientsFirst, GatewaysFirst, legacy
<1> QED
  BY <1>4, <1>5, <1>7, <1>8, <1>10 DEF IInv, RunInv

\* What each step has seen to by the time it is completed.
LEMMA CompleteIsSafe ==
    ASSUME IInv, Complete
    PROVE  IInv'
<1> DEFINE form == Current
           r == MarkStepCompleted(rows[form], Now)
<1>1. /\ TypeOK /\ InTime /\ RowsInOrder /\ InStep /\ ClientsFirst /\ ClientsBeforeVias
      /\ ViasWritten /\ MigratedOnce /\ NothingBehindWatermark /\ NoViaMissing
      /\ (env.quiet => ServedBehind /\ PageIsNext /\ GatewaysFirst)
      /\ (env.answered => NotServedAhead)
  BY DEF IInv, DbInv, RunInv
<1>2. /\ UNCHANGED <<env, born, joined, talks, back, contactRows, apps, gates, vias, mode>>
      /\ pc = "done" /\ rows' = [rows EXCEPT ![form] = r]
      /\ IF index = 3 THEN pc' = "off" /\ index' = 1 ELSE pc' = "start" /\ index' = index + 1
      /\ offset' = 0 /\ from' = 0 /\ batch' = {} /\ numbers' = {}
  BY DEF Complete, ClearPage, legacy, target
<1>3. /\ index = 1 => form = IF mode = "sync" THEN "sync_clients" ELSE "clients"
      /\ index = 2 => form = IF mode = "sync" THEN "sync_gateways" ELSE "gateways"
      /\ index = 3 => form = IF mode = "sync" THEN "sync_vias" ELSE "vias"
      /\ form \in StepNames /\ (index = 1 \/ index = 2 \/ index = 3)
      /\ rows[form] \in StepRow({})
  BY <1>1, CurrentFacts
<1>4. /\ Now \in Nat /\ Now' = Now /\ Created' = Created /\ Joined' = Joined
  BY <1>1, <1>2, SameTime, NowFacts DEF InTime
<1> HIDE DEF form
<1>5. /\ r \in StepRow({}) /\ IsCompleted(r) /\ r.status = "completed"
      /\ r.completedAt = Now /\ r.offset = 0 /\ GetStepProgress(r) = 0
  <2>1. /\ r \in StepRow({}) /\ IsCompleted(r) /\ r.status = "completed"
        /\ r.completedAt = Now /\ r.offset = 0
    BY <1>3, <1>4, OffsetRowFacts, OffsetRowValues
  <2> QED
    BY <2>1 DEF GetStepProgress
<1> HIDE DEF r
<1>6. /\ rows' \in [StepNames -> StepRow({})]
      /\ \A s \in StepNames : rows'[s] = IF s = form THEN r ELSE rows[s]
  BY <1>1, <1>2, <1>3, <1>5 DEF TypeOK
<1>7. TypeOK'
  <2>1. more' \in BOOLEAN
    BY DEF Complete, ClearPage
  <2>2. index' \in 1..3 /\ pc' \in {"off", "start", "fetch", "commit", "done"}
    BY <1>2, <1>3
  <2> QED
    BY <1>1, <1>2, <1>6, <2>1, <2>2 DEF TypeOK
<1>8. InTime'
  <2>1. \A s \in StepNames : rows'[s].completedAt <= Now
    BY <1>1, <1>4, <1>5, <1>6 DEF InTime
  <2> QED
    BY <1>1, <1>2, <1>4, <2>1 DEF InTime
<1>9. /\ mode = "sync" /\ env.migrates => Migrated
      /\ mode # "sync" =>
            /\ env.migrates /\ ~Migrated /\ ~IsCompleted(rows[form]) /\ form \in Kinds
            /\ index > 1 <=> IsCompleted(rows["clients"])
            /\ index > 2 <=> IsCompleted(rows["gateways"])
            /\ ~IsCompleted(rows["vias"])
  <2>1. mode = "sync" /\ env.migrates => Migrated
    BY <1>1, <1>2 DEF InStep
  <2>2. ASSUME mode # "sync"
        PROVE  /\ env.migrates
               /\ 1 < index <=> IsCompleted(rows["clients"])
               /\ 2 < index <=> IsCompleted(rows["gateways"])
               /\ 3 < index <=> IsCompleted(rows["vias"])
    <3>1. /\ env.migrates
          /\ \A j \in 1..3 : j < index <=> IsCompleted(rows[Plan("migration")[j]])
      BY <1>1, <1>2, <2>2 DEF InStep
    <3>2. 1 \in 1..3 /\ 2 \in 1..3 /\ 3 \in 1..3
      OBVIOUS
    <3> QED
      BY <3>1, <3>2, PlanFacts
  <2> QED
    BY <1>3, <2>1, <2>2, NameFacts DEF Kinds
<1>10. /\ IsCompleted(rows'["clients"]) <=> IsCompleted(rows["clients"]) \/ form = "clients"
       /\ IsCompleted(rows'["gateways"]) <=> IsCompleted(rows["gateways"]) \/ form = "gateways"
       /\ IsCompleted(rows'["vias"]) <=> IsCompleted(rows["vias"]) \/ form = "vias"
  BY <1>5, <1>6, NameFacts
<1>11. Migrated' <=> \A k \in Kinds : IsCompleted(rows'[k])
  <2>1. \A j \in 1..3 : Plan("migration")[j] \in Kinds
    BY PlanFacts DEF Kinds
  <2>2. \A k \in Kinds : \E j \in 1..3 : Plan("migration")[j] = k
    <3>1. 1 \in 1..3 /\ 2 \in 1..3 /\ 3 \in 1..3
      OBVIOUS
    <3> QED
      BY <3>1, PlanFacts DEF Kinds
  <2> QED
    BY <2>1, <2>2 DEF Migrated
<1>12. RowsInOrder'
  <2>1. \A s \in StepNames : rows'[s].status \in {"absent", "completed"} => rows'[s].offset = 0
    BY <1>1, <1>5, <1>6 DEF RowsInOrder
  <2>2. /\ IsCompleted(rows'["gateways"]) => IsCompleted(rows'["clients"])
        /\ IsCompleted(rows'["vias"]) => IsCompleted(rows'["gateways"])
    BY <1>1, <1>3, <1>9, <1>10 DEF RowsInOrder
  <2>3. ~env.migrates => rows'["gateways"] = AbsentRow
    BY <1>1, <1>3, <1>6, <1>9, NameFacts DEF RowsInOrder
  <2>4. env.migrates /\ ~Migrated' =>
            talks = {} /\ Joined = {} /\ rows'["sync_gateways"] = AbsentRow
    <3>1. env.migrates /\ ~Migrated' => mode # "sync"
      BY <1>9, <1>10, <1>11, NameFacts DEF Kinds
    <3>2. mode # "sync" => rows'["sync_gateways"] = rows["sync_gateways"]
      BY <1>3, <1>6, NameFacts
    <3> QED
      BY <1>1, <1>9, <3>1, <3>2 DEF RowsInOrder
  <2> QED
    BY <1>2, <1>4, <2>1, <2>2, <2>3, <2>4 DEF RowsInOrder
<1>13. /\ Watermark("clients")' = IF index = 1 THEN Now ELSE Watermark("clients")
       /\ Watermark("gateways")' = IF index = 2 THEN Now ELSE Watermark("gateways")
       /\ Watermark("vias")' = IF index = 3 THEN Now ELSE Watermark("vias")
  <2>1. \A s \in StepNames : rows[s].completedAt \in Nat /\ rows[s].completedAt <= Now
    BY <1>1, RowTypes DEF InTime
  <2>2. \A s \in StepNames : rows'[s].completedAt = IF s = form THEN Now ELSE rows[s].completedAt
    BY <1>5, <1>6
  <2>3. /\ Watermark("clients")' = GetStepCompletedAt(rows'["sync_clients"], rows'["clients"])
        /\ Watermark("gateways")' = GetStepCompletedAt(rows'["sync_gateways"], rows'["gateways"])
        /\ Watermark("vias")' = GetStepCompletedAt(rows'["sync_vias"], rows'["vias"])
    BY DEF Watermark, SyncOf
  <2>4. Watermark("clients")' = IF index = 1 THEN Now ELSE Watermark("clients")
    BY <1>3, <1>4, <2>1, <2>2, <2>3, WatermarkFacts, NameFacts DEF GetStepCompletedAt
  <2>5. Watermark("gateways")' = IF index = 2 THEN Now ELSE Watermark("gateways")
    BY <1>3, <1>4, <2>1, <2>2, <2>3, WatermarkFacts, NameFacts DEF GetStepCompletedAt
  <2>6. Watermark("vias")' = IF index = 3 THEN Now ELSE Watermark("vias")
    BY <1>3, <1>4, <2>1, <2>2, <2>3, WatermarkFacts, NameFacts DEF GetStepCompletedAt
  <2> QED
    BY <2>4, <2>5, <2>6
<1>14. /\ \A s : Served(s)' = Served(s)
       /\ \A n, p : Before(p, n) \in Nat /\ Found(n) \in SUBSET Providers
  BY <1>2, FoundFacts DEF Served, HasGate, GatesOf
<1>15. /\ \A s \in GatewaySteps : Progress(s)' = IF s = form THEN 0 ELSE Progress(s)
  BY <1>5, <1>6, NameFacts DEF Progress, GatewaySteps
<1>16. \A s \in GatewaySteps : /\ Found(From(s))' \in SUBSET Providers
                               /\ \A p : Before(p, From(s))' \in Nat
  <2> TAKE s \in GatewaySteps
  <2>1. Found(From(s))' \in SUBSET Providers
    BY DEF Found, Created
  <2>2. \A p : Before(p, From(s))' = Rank(p, Found(From(s))')
    BY DEF Before, Rank
  <2> QED
    BY <2>1, <2>2, ProviderFacts
<1>17. index # 2 =>
          /\ \A s \in GatewaySteps : /\ Progress(s)' = Progress(s)
                                     /\ Found(From(s))' = Found(From(s))
                                     /\ \A p : Before(p, From(s))' = Before(p, From(s))
          /\ \A s \in GatewaySteps : Open(s)' => Open(s)
  <2> SUFFICES ASSUME index # 2
               PROVE  /\ \A s \in GatewaySteps : /\ Progress(s)' = Progress(s)
                                     /\ Found(From(s))' = Found(From(s))
                                     /\ \A p : Before(p, From(s))' = Before(p, From(s))
                      /\ \A s \in GatewaySteps : Open(s)' => Open(s)
    OBVIOUS
  <2>1. form \notin GatewaySteps
    BY <1>3 DEF GatewaySteps
  <2>2. \A s \in GatewaySteps : Open(s)' => Open(s)
    BY <1>2, <1>10, <2>1 DEF Open, GatewaySteps
  <2>3. ASSUME NEW s \in GatewaySteps
        PROVE  /\ Found(From(s))' = Found(From(s))
               /\ \A p : Before(p, From(s))' = Before(p, From(s))
    <3>1. From(s)' = From(s)
      BY <1>13 DEF From
    <3> HIDE DEF From
    <3>2. Found(From(s))' = Found(From(s))
      BY <1>2, <1>4, <3>1 DEF Found
    <3> HIDE DEF Found
    <3> QED
      BY <3>2 DEF Before
  <2> QED
    BY <1>15, <2>1, <2>2, <2>3
<1>18. index = 2 =>
          /\ \A s \in GatewaySteps : Progress(s)' = 0
          /\ \A s \in GatewaySteps : Open(s)' => Found(From(s))' = {}
  <2> SUFFICES ASSUME index = 2
               PROVE  /\ \A s \in GatewaySteps : Progress(s)' = 0
                      /\ \A s \in GatewaySteps : Open(s)' => Found(From(s))' = {}
    OBVIOUS
  <2>1. \A s \in GatewaySteps : s # form => Progress(s) = 0 /\ ~Open(s)
    BY <1>1, <1>2, FormFacts DEF form
  <2>2. ~Open("gateways")'
    <3>1. form = "gateways" \/ ~Open("gateways")
      BY <2>1 DEF GatewaySteps
    <3> QED
      BY <1>2, <1>10, <3>1 DEF Open
  <2>3. Found(From("sync_gateways"))' = {}
    <3>1. From("sync_gateways")' = Now
      BY <1>13 DEF From
    <3>2. \A p \in Providers : born[p] \in Nat /\ born[p] < Now
      BY <1>1 DEF InTime, TypeOK
    <3>3. \A p \in Providers : ~(born[p] >= Now)
      BY <1>4, <3>2
    <3> HIDE DEF From
    <3> QED
      BY <1>2, <3>1, <3>3 DEF Found, Created
  <2> QED
    BY <1>15, <2>1, <2>2, <2>3 DEF GatewaySteps
<1>19. (env.quiet => ServedBehind)'
  <2>1. index = 2 => ServedBehind'
    BY <1>16, <1>18 DEF ServedBehind
  <2>2. index # 2 /\ env.quiet => ServedBehind'
    BY <1>1, <1>14, <1>17 DEF ServedBehind
  <2> QED
    BY <1>2, <2>1, <2>2
<1>20. (env.answered => NotServedAhead)'
  <2>1. index = 2 => NotServedAhead'
    BY <1>18 DEF NotServedAhead
  <2>2. index # 2 /\ env.answered => NotServedAhead'
    BY <1>1, <1>2, <1>17 DEF NotServedAhead
  <2> QED
    BY <1>2, <2>1, <2>2
<1>21. MigratedOnce'
  BY <1>1, <1>2 DEF MigratedOnce, GatesOf
<1>22. NothingBehindWatermark'
  <2>1. CASE index # 2
    <3>1. Watermark("gateways")' = Watermark("gateways")
      BY <1>13, <2>1
    <3> HIDE DEF Watermark
    <3> QED
      BY <1>1, <1>2, <1>4, <1>14, <3>1 DEF NothingBehindWatermark
  <2>2. CASE index = 2
    <3> SUFFICES ASSUME env.quiet, NEW p \in Created
                 PROVE  Served(p)
      BY <1>2, <1>4, <1>14 DEF NothingBehindWatermark
    <3>1. CASE p \in Found(from)
      BY <1>1, <1>2, <2>2, <3>1 DEF PageIsNext, OnPage
    <3>2. CASE p \notin Found(from)
      <4>1. from = From(form) /\ born[p] \in Nat /\ ~(born[p] >= from)
        BY <1>1, <1>2, <2>2, <3>2 DEF InStep, OnPage, form, Found, Created, TypeOK
      <4>2. from = Watermark("gateways") /\ from \in Nat
        BY <1>1, <4>1, RowTypes DEF From, TypeOK
      <4> QED
        BY <1>1, <4>1, <4>2 DEF NothingBehindWatermark
    <3> QED
      BY <3>1, <3>2
  <2> QED
    BY <2>1, <2>2
<1>23. NoViaMissing'
  <2>1. CASE index # 3
    <3>1. Watermark("vias")' = Watermark("vias")
      BY <1>13, <2>1
    <3> HIDE DEF Watermark
    <3> QED
      BY <1>1, <1>2, <3>1 DEF NoViaMissing, GatesOf
  <2>2. CASE index = 3
    BY <1>1, <1>2, <2>2 DEF NoViaMissing, ViasWritten, GatesOf
  <2> QED
    BY <2>1, <2>2
<1>24. InStep'
  <2>1. CASE index = 3
    BY <1>2, <2>1 DEF InStep, OnPage
  <2>2. CASE index # 3
    <3>1. /\ pc' = "start" /\ index' = index + 1 /\ mode' = mode
      BY <1>2, <2>2
    <3>2. mode = "sync" /\ env.migrates => Migrated'
      BY <1>9, <1>10, <1>11, NameFacts DEF Kinds
    <3>3. mode # "sync" => \A j \in 1..3 : j < index' <=> IsCompleted(rows'[Plan("migration")[j]])
      BY <1>3, <1>9, <1>10, <2>2, <3>1, PlanFacts
    <3> QED
      BY <1>2, <1>9, <3>1, <3>2, <3>3 DEF InStep, OnPage
  <2> QED
    BY <2>1, <2>2
<1>25. PageIsNext' /\ ViasWritten'
  BY <1>2 DEF PageIsNext, ViasWritten, OnPage
<1>26. ClientsFirst' /\ ClientsBeforeVias'
  <2>1. talks \ back \subseteq contactRows
    BY <1>1, <1>2 DEF ClientsFirst
  <2>2. \A c \in Joined : joined[c] < Now
    BY <1>1 DEF InTime, Joined
  <2> HIDE DEF Watermark
  <2>3. ClientsFirst'
    BY <1>2, <2>1 DEF ClientsFirst
  <2>4. ClientsBeforeVias'
    BY <1>1, <1>2, <1>3, <1>4, <1>13, <2>2 DEF ClientsBeforeVias
  <2> QED
    BY <2>3, <2>4
<1>27. (env.quiet => GatewaysFirst)'
  <2>1. \A t \in talks : t[2] \in Providers /\ born[t[2]] < Now
    BY <1>1, ProvidersAssumption DEF TypeOK, InTime
  <2> HIDE DEF Watermark
  <2> QED
    BY <1>1, <1>2, <1>3, <1>13, <2>1 DEF GatewaysFirst
<1> QED
  BY <1>7, <1>8, <1>12, <1>19, <1>20, <1>21, <1>22, <1>23, <1>24, <1>25, <1>26, <1>27
     DEF IInv, DbInv, RunInv

--------------------------------------------------------------------------------
(* The legacy service. *)

\* A provider comes after all others, so none moves away from an offset.
LEMMA LegacyProviderIsSafe ==
    ASSUME IInv, NEW new \in Providers, LegacyProvider(new)
    PROVE  IInv'
<1>1. /\ TypeOK /\ InTime /\ RowsInOrder /\ InStep /\ ClientsFirst /\ ClientsBeforeVias
      /\ ViasWritten /\ MigratedOnce /\ NothingBehindWatermark /\ NoViaMissing
      /\ (env.quiet => ServedBehind /\ PageIsNext /\ GatewaysFirst)
      /\ (env.answered => NotServedAhead)
  BY DEF IInv, DbInv, RunInv
<1>2. /\ UNCHANGED <<env, joined, talks, back, rows, contactRows, apps, gates, vias,
                     mode, index, pc, offset, from, batch, numbers, more>>
      /\ born[new] = 0 /\ \A q \in Providers : q < new => born[q] > 0
      /\ env.quiet => Settled
      /\ born' = [born EXCEPT ![new] = Now + 1]
  BY DEF LegacyProvider, target, process, page
<1>3. Now \in Nat /\ Cardinality(Created) \in Nat /\ Cardinality(Joined) \in Nat
      /\ Now = 2 * (Cardinality(Created) + Cardinality(Joined)) + 1
  BY <1>1, NowFacts DEF InTime
<1>4. /\ born \in [Providers -> Nat] /\ born' \in [Providers -> Nat] /\ born'[new] = Now + 1
      /\ \A p \in Providers : p # new => born'[p] = born[p]
  BY <1>1, <1>2, <1>3 DEF TypeOK
<1>5. new \notin Created /\ Created' = Created \cup {new} /\ Joined' = Joined
  <2>1. \A p \in Providers : born'[p] > 0 <=> p = new \/ born[p] > 0
    BY <1>3, <1>4
  <2>2. ~(born[new] > 0)
    BY <1>2
  <2> QED
    BY <1>2, <2>1, <2>2 DEF Created, Joined
<1>6. Now' = Now + 2
  <2>1. IsFiniteSet(Created)
    BY ProviderFacts DEF Created
  <2>2. Cardinality(Created') = Cardinality(Created) + 1
    BY <1>5, <2>1, FS_AddElement
  <2>3. Now' = 2 * (Cardinality(Created') + Cardinality(Joined')) + 1
    BY DEF Now
  <2> QED
    BY <1>3, <1>5, <2>2, <2>3
<1>7. \A p \in Created : p \in Providers /\ p < new /\ p # new
  <2> SUFFICES ASSUME NEW p \in Created
               PROVE  p < new
    BY <1>5, ProviderFacts DEF Created
  <2>1. p \in Providers /\ p \in Nat /\ new \in Nat /\ born[p] > 0 /\ p # new
    BY <1>5, ProviderFacts DEF Created
  <2>2. ~(new < p)
    BY <1>1, <1>2, <2>1 DEF InTime
  <2> QED
    BY <2>1, <2>2
<1>8. TypeOK'
  BY <1>1, <1>2, <1>4 DEF TypeOK
<1>9. InTime'
  <2>1. \A s \in StepNames : rows[s].completedAt <= Now'
    <3>1. \A s \in StepNames : rows[s].completedAt <= Now /\ rows[s].completedAt \in Nat
      BY <1>1, RowTypes DEF InTime
    <3> QED
      BY <1>3, <1>6, <3>1
  <2>2. \A p \in Providers : born'[p] < Now' /\ (born'[p] = 0 => apps[p] = 0)
    BY <1>1, <1>3, <1>4, <1>6 DEF InTime
  <2>3. \A c \in Clients : joined[c] < Now'
    <3>1. \A c \in Clients : joined[c] < Now /\ joined[c] \in Nat
      BY <1>1 DEF InTime, TypeOK
    <3> QED
      BY <1>3, <1>6, <3>1
  <2>4. \A p, q \in Providers : p < q /\ born'[q] > 0 => born'[p] > 0 /\ born'[p] < born'[q]
    <3> SUFFICES ASSUME NEW p \in Providers, NEW q \in Providers, p < q, born'[q] > 0
                 PROVE  born'[p] > 0 /\ born'[p] < born'[q]
      OBVIOUS
    <3>1. p \in Nat /\ q \in Nat /\ p # q
      BY ProviderFacts
    <3>2. CASE q = new
      BY <1>1, <1>2, <1>3, <1>4, <3>1, <3>2 DEF InTime
    <3>3. CASE q # new
      <4>1. born[q] > 0 /\ born'[q] = born[q]
        BY <1>4, <3>3
      <4>2. born[p] > 0 /\ born[p] < born[q]
        BY <1>1, <4>1 DEF InTime
      <4>3. p # new
        BY <1>2, <4>2
      <4> QED
        BY <1>4, <4>1, <4>2, <4>3
    <3> QED
      BY <3>2, <3>3
  <2>5. \A t \in talks : born'[t[2]] > 0 /\ joined[t[1]] > 0
    <3> SUFFICES ASSUME NEW t \in talks
                 PROVE  born'[t[2]] > 0 /\ joined[t[1]] > 0
      OBVIOUS
    <3>1. t[2] \in Providers /\ born[t[2]] > 0 /\ joined[t[1]] > 0
      BY <1>1, ProvidersAssumption DEF TypeOK, InTime
    <3>2. t[2] # new
      BY <1>2, <3>1
    <3> QED
      BY <1>4, <3>1, <3>2
  <2> QED
    BY <1>1, <1>2, <1>5, <2>1, <2>2, <2>3, <2>4, <2>5 DEF InTime
<1>10. /\ \A k \in Kinds : Watermark(k)' = Watermark(k) /\ Watermark(k) \in Nat
       /\ \A s : Progress(s)' = Progress(s) /\ Open(s)' = Open(s) /\ From(s)' = From(s)
       /\ (Migrated' <=> Migrated)
       /\ \A s : Served(s)' = Served(s)
  BY <1>1, <1>2, RowTypes
     DEF Kinds, Watermark, Progress, Open, From, Migrated, Served, HasGate, GatesOf
<1>11. RowsInOrder'
  BY <1>1, <1>2, <1>5, <1>10 DEF RowsInOrder
<1>12. \A n : /\ Found(n) \subseteq {p \in Providers : p # new}
              /\ {p \in Providers : born'[p] > 0 /\ born'[p] >= n} \subseteq Found(n) \cup {new}
              /\ \A p \in Found(n) : born'[p] > 0 /\ born'[p] >= n /\ p < new
  BY <1>2, <1>4, <1>7 DEF Found, Created
<1>13. \A s : /\ Found(From(s)) \subseteq Found(From(s))'
              /\ Found(From(s))' \subseteq Found(From(s)) \cup {new}
              /\ \A p \in Found(From(s)) : Before(p, From(s))' = Before(p, From(s))
  <2> TAKE s
  <2>1. Found(From(s))' = {p \in Providers : born'[p] > 0 /\ born'[p] >= From(s)}
    <3>1. From(s)' = From(s)
      BY <1>10
    <3> HIDE DEF From
    <3> QED
      BY <3>1 DEF Found, Created
  <2>2. Found(From(s)) \subseteq Found(From(s))' /\ Found(From(s))' \subseteq Found(From(s)) \cup {new}
    BY <1>12, <2>1
  <2>3. ASSUME NEW p \in Found(From(s))
        PROVE  Before(p, From(s))' = Before(p, From(s))
    <3>1. p \in Nat /\ new \in Nat /\ ~(new < p)
      BY <1>12, ProviderFacts
    <3>2. {q \in Found(From(s))' : q < p} = {q \in Found(From(s)) : q < p}
      BY <2>2, <3>1
    <3> QED
      BY <3>2 DEF Before
  <2> QED
    BY <2>2, <2>3
<1>14. Settled => \A s \in GatewaySteps : Progress(s) = 0
  <2> SUFFICES ASSUME Settled
               PROVE  Progress("gateways") = 0 /\ Progress("sync_gateways") = 0
    BY DEF GatewaySteps
  <2>1. rows["gateways"].status \in {"absent", "completed"}
    BY <1>1, NameFacts DEF Settled, RowsInOrder, Kinds, IsCompleted, AbsentRow
  <2>2. rows["sync_gateways"].status \in {"absent", "completed"}
    BY NameFacts DEF Settled
  <2> QED
    BY <1>1, <2>1, <2>2, NameFacts DEF RowsInOrder, Progress, GetStepProgress
<1>15. (env.quiet => ServedBehind)'
  <2>1. \A s : \A p : Before(p, From(s))' \in Nat
    <3> TAKE s
    <3> TAKE p
    <3>1. Found(From(s))' \in SUBSET Providers
      BY DEF Found, Created
    <3>2. Before(p, From(s))' = Rank(p, Found(From(s))')
      BY DEF Before, Rank
    <3> QED
      BY <3>1, <3>2, ProviderFacts
  <2> QED
    BY <1>2, <1>10, <1>14, <2>1 DEF ServedBehind
<1>16. (env.answered => NotServedAhead)'
  <2> SUFFICES ASSUME env.answered, NEW s \in GatewaySteps, Open(s), NEW p \in Found(From(s))',
                      apps[p] > 0
               PROVE  Before(p, From(s))' < Progress(s)
    BY <1>2, <1>10 DEF NotServedAhead
  <2>1. p # new
    BY <1>1, <1>2 DEF InTime
  <2>2. p \in Found(From(s)) /\ Before(p, From(s))' = Before(p, From(s))
    BY <1>13, <2>1
  <2> QED
    BY <1>1, <2>2 DEF NotServedAhead
<1>17. MigratedOnce'
  BY <1>1, <1>2 DEF MigratedOnce, GatesOf
<1>18. NothingBehindWatermark'
  <2>1. Watermark("gateways")' = Watermark("gateways") /\ Watermark("gateways") \in Nat
        /\ Watermark("gateways") <= Now
    BY <1>1, <1>10, RowTypes, WatermarkFacts, NameFacts DEF Kinds, InTime, GetStepCompletedAt
  <2> HIDE DEF Watermark
  <2> SUFFICES ASSUME env.quiet, NEW p \in Created', born'[p] < Watermark("gateways")
               PROVE  Served(p)
    BY <1>2, <1>10, <2>1 DEF NothingBehindWatermark
  <2>2. p # new
    BY <1>3, <1>4, <2>1
  <2>3. p \in Created /\ born'[p] = born[p]
    BY <1>4, <1>5, <1>7, <2>2
  <2> QED
    BY <1>1, <2>3 DEF NothingBehindWatermark
<1>19. NoViaMissing'
  <2>1. Watermark("vias")' = Watermark("vias")
    BY <1>10 DEF Kinds
  <2> HIDE DEF Watermark
  <2> QED
    BY <1>1, <1>2, <2>1 DEF NoViaMissing, GatesOf
<1>20. InStep'
  <2>1. Current' = Current
    BY <1>2 DEF Current
  <2>2. Progress(Current)' = Progress(Current) /\ From(Current)' = From(Current)
    BY <1>2, <2>1 DEF Progress, From, Watermark
  <2>3. /\ Found(from) \subseteq Found(from)'
        /\ \A p \in Found(from) : Before(p, from)' = Before(p, from)
    <3>1. Found(from)' = {p \in Providers : born'[p] > 0 /\ born'[p] >= from}
      BY <1>2 DEF Found, Created
    <3>2. Found(from) \subseteq Found(from)' /\ Found(from)' \subseteq Found(from) \cup {new}
      BY <1>12, <3>1
    <3>3. ASSUME NEW p \in Found(from)
          PROVE  Before(p, from)' = Before(p, from)
      <4>1. p \in Nat /\ new \in Nat /\ ~(new < p)
        BY <1>12, ProviderFacts
      <4>2. {q \in Found(from)' : q < p} = {q \in Found(from) : q < p}
        BY <3>2, <4>1
      <4> QED
        BY <4>2 DEF Before
    <3> QED
      BY <3>2, <3>3
  <2>4. pc' = "commit" =>
          /\ \A p \in batch' : p \in Found(from)' /\ offset' <= Before(p, from)'
                               /\ Before(p, from)' < offset' + PerPage
          /\ env'.graph => numbers' = batch' \cap WhatsApp
    BY <1>1, <1>2, <2>3 DEF InStep
  <2>5. OnPage' => (offset = Progress(Current))' /\ (from = From(Current))'
    <3>1. OnPage' <=> OnPage
      BY <1>2 DEF OnPage
    <3> QED
      BY <1>1, <1>2, <2>2, <3>1 DEF InStep
  <2> QED
    BY <1>1, <1>2, <1>10, <2>4, <2>5 DEF InStep
<1>21. (env.quiet => PageIsNext)'
  <2>1. env.quiet => pc' = "off"
    BY <1>2 DEF Settled
  <2> QED
    BY <1>2, <2>1 DEF PageIsNext, OnPage
<1>22. ClientsFirst' /\ ClientsBeforeVias' /\ ViasWritten' /\ (env.quiet => GatewaysFirst)'
  <2>1. /\ Watermark("clients")' = Watermark("clients") /\ Watermark("vias")' = Watermark("vias")
        /\ Watermark("gateways")' = Watermark("gateways")
    BY <1>10 DEF Kinds
  <2> HIDE DEF Watermark
  <2>2. ClientsFirst' /\ ViasWritten'
    BY <1>1, <1>2, <2>1 DEF ClientsFirst, ViasWritten, GatesOf
  <2>3. \A t \in talks : born'[t[2]] = born[t[2]]
    <3> SUFFICES ASSUME NEW t \in talks
                 PROVE  born'[t[2]] = born[t[2]]
      OBVIOUS
    <3>1. t[2] \in Providers /\ born[t[2]] > 0
      BY <1>1, ProvidersAssumption DEF TypeOK, InTime
    <3>2. t[2] # new
      BY <1>2, <3>1
    <3> QED
      BY <1>4, <3>1, <3>2
  <2>4. (env.quiet => GatewaysFirst)'
    BY <1>1, <1>2, <2>1, <2>3 DEF GatewaysFirst
  <2>5. ClientsBeforeVias'
    BY <1>1, <1>2, <1>10, ClientsStay
  <2> QED
    BY <2>2, <2>4, <2>5
<1> QED
  BY <1>8, <1>9, <1>11, <1>15, <1>16, <1>17, <1>18, <1>19, <1>20, <1>21, <1>22
     DEF IInv, DbInv, RunInv

\* A channel is opened between completed runs.  Its client comes after their completion, or
\* is one that the next clients step takes, or comes back over the provider.
LEMMA LegacyChannelIsSafe ==
    ASSUME IInv, NEW t0 \in Channels, LegacyChannel(t0[1], t0[2])
    PROVE  IInv'
<1> DEFINE c == t0[1]
           p0 == t0[2]
<1>1. /\ TypeOK /\ InTime /\ RowsInOrder /\ InStep /\ ClientsFirst /\ ClientsBeforeVias
      /\ ViasWritten /\ MigratedOnce /\ NothingBehindWatermark /\ NoViaMissing
      /\ (env.quiet => ServedBehind /\ GatewaysFirst)
      /\ (env.answered => NotServedAhead)
  BY DEF IInv, DbInv, RunInv
<1>2. c \in Clients /\ p0 \in Providers /\ <<c, p0>> = t0
  BY ProvidersAssumption
<1>3. /\ UNCHANGED <<env, born, rows, contactRows, apps, gates, vias,
                     mode, index, pc, offset, from, batch, numbers, more>>
      /\ <<c, p0>> \notin talks /\ born[p0] > 0 /\ Settled
      /\ joined' = [joined EXCEPT ![c] = IF @ = 0 THEN Now + 1 ELSE @]
      /\ talks' = talks \cup {<<c, p0>>}
      /\ back' = IF joined[c] > 0 /\ joined[c] < Watermark("clients")
                 THEN back \cup {<<c, p0>>} ELSE back
  BY DEF LegacyChannel, target, process, page
<1>4. pc = "off" /\ (env.migrates => Migrated)
  BY <1>3 DEF Settled
<1> HIDE DEF c, p0
<1>5. Now \in Nat /\ Cardinality(Created) \in Nat /\ Cardinality(Joined) \in Nat
      /\ Now = 2 * (Cardinality(Created) + Cardinality(Joined)) + 1
  BY <1>1, NowFacts DEF InTime
<1>6. /\ joined \in [Clients -> Nat] /\ joined' \in [Clients -> Nat]
      /\ joined'[c] = IF joined[c] = 0 THEN Now + 1 ELSE joined[c]
      /\ \A d \in Clients : d # c => joined'[d] = joined[d]
  BY <1>1, <1>2, <1>3, <1>5 DEF TypeOK
<1>7. /\ c \in Joined <=> joined[c] # 0
      /\ Joined' = Joined \cup {c} /\ Created' = Created
      /\ \A d \in Joined : d \in Clients /\ joined'[d] = joined[d]
  <2>1. \A d \in Clients : joined'[d] > 0 <=> d = c \/ joined[d] > 0
    BY <1>5, <1>6
  <2>2. c \in Joined <=> joined[c] # 0
    BY <1>2, <1>6 DEF Joined
  <2> QED
    BY <1>2, <1>3, <1>6, <2>1, <2>2 DEF Created, Joined
<1>8. /\ IsFiniteSet(Joined') /\ Now' \in Nat /\ Now <= Now'
      /\ joined[c] = 0 => Now' = Now + 2
  <2>1. IsFiniteSet(Joined)
    BY <1>1 DEF InTime
  <2>2. Now' = 2 * (Cardinality(Created') + Cardinality(Joined')) + 1
    BY DEF Now
  <2>3. CASE c \notin Joined
    <3>1. Cardinality(Joined') = Cardinality(Joined) + 1 /\ IsFiniteSet(Joined')
      BY <1>7, <2>1, <2>3, FS_AddElement
    <3> QED
      BY <1>5, <1>7, <2>2, <3>1
  <2>4. CASE c \in Joined
    <3>1. Joined' = Joined
      BY <1>7, <2>4
    <3> QED
      BY <1>5, <1>7, <2>1, <2>2, <2>4, <3>1
  <2> QED
    BY <2>3, <2>4
<1>9. \A t \in talks : t[1] \in Clients /\ t[2] \in Providers /\ joined'[t[1]] = joined[t[1]]
  <2> SUFFICES ASSUME NEW t \in talks
               PROVE  t[1] \in Clients /\ t[2] \in Providers /\ joined'[t[1]] = joined[t[1]]
    OBVIOUS
  <2>1. t[1] \in Clients /\ t[2] \in Providers
    BY <1>1, ProvidersAssumption DEF TypeOK
  <2>2. t[1] \in Joined
    BY <1>1, <2>1 DEF InTime, Joined
  <2> QED
    BY <1>7, <2>1, <2>2
<1>10. talks' \subseteq Channels /\ \A t \in talks' : t \in talks \/ (t[1] = c /\ t[2] = p0)
  BY <1>1, <1>2, <1>3 DEF TypeOK
<1>11. TypeOK'
  <2>1. contactRows' \subseteq talks' /\ back' \subseteq talks'
    BY <1>1, <1>3 DEF TypeOK
  <2> QED
    BY <1>1, <1>3, <1>6, <1>10, <2>1 DEF TypeOK
<1>12. InTime'
  <2>1. \A s \in StepNames : rows[s].completedAt <= Now'
    <3>1. \A s \in StepNames : rows[s].completedAt <= Now /\ rows[s].completedAt \in Nat
      BY <1>1, RowTypes DEF InTime
    <3> QED
      BY <1>5, <1>8, <3>1
  <2>2. \A p \in Providers : born[p] < Now'
    <3>1. \A p \in Providers : born[p] < Now /\ born[p] \in Nat
      BY <1>1 DEF InTime, TypeOK
    <3> QED
      BY <1>5, <1>8, <3>1
  <2>3. \A d \in Clients : joined'[d] < Now'
    <3>1. \A d \in Clients : joined[d] < Now /\ joined[d] \in Nat
      BY <1>1 DEF InTime, TypeOK
    <3> QED
      BY <1>5, <1>6, <1>8, <3>1
  <2>4. \A t \in talks' : born[t[2]] > 0 /\ joined'[t[1]] > 0
    <3> SUFFICES ASSUME NEW t \in talks'
                 PROVE  born[t[2]] > 0 /\ joined'[t[1]] > 0
      OBVIOUS
    <3>1. CASE t \in talks
      BY <1>1, <1>9, <3>1 DEF InTime
    <3>2. CASE t[1] = c /\ t[2] = p0
      BY <1>2, <1>3, <1>5, <1>6, <3>2
    <3> QED
      BY <1>10, <3>1, <3>2
  <2> QED
    BY <1>1, <1>3, <1>8, <2>1, <2>2, <2>3, <2>4 DEF InTime
<1>13. /\ \A k \in Kinds : /\ Watermark(k)' = Watermark(k) /\ Watermark(k) \in Nat
                           /\ Watermark(k) <= Now
       /\ \A s : Progress(s)' = Progress(s) /\ Open(s)' = Open(s) /\ From(s)' = From(s)
       /\ (Migrated' <=> Migrated)
       /\ \A s : Served(s)' = Served(s)
  <2>1. \A k \in Kinds : Watermark(k) <= Now
    BY <1>1, WatermarkFacts, NameFacts DEF Kinds, InTime, GetStepCompletedAt
  <2> QED
    BY <1>1, <1>3, <2>1, RowTypes
       DEF Kinds, Watermark, Progress, Open, From, Migrated, Served, HasGate, GatesOf
<1>14. RowsInOrder'
  <2>1. ~(env.migrates /\ ~Migrated)
    BY <1>4
  <2> QED
    BY <1>1, <1>3, <1>13, <2>1 DEF RowsInOrder
<1>15. \A s : Found(From(s))' = Found(From(s)) /\ \A p : Before(p, From(s))' = Before(p, From(s))
  <2> TAKE s
  <2>1. From(s)' = From(s)
    BY <1>13
  <2> HIDE DEF From
  <2>2. Found(From(s))' = Found(From(s))
    BY <1>3, <1>7, <2>1 DEF Found
  <2> HIDE DEF Found
  <2> QED
    BY <2>2 DEF Before
<1>16. (env.quiet => ServedBehind)' /\ (env.answered => NotServedAhead)'
  <2>1. (env.quiet => ServedBehind)'
    BY <1>1, <1>3, <1>13, <1>15 DEF ServedBehind
  <2>2. (env.answered => NotServedAhead)'
    BY <1>1, <1>3, <1>13, <1>15 DEF NotServedAhead
  <2> QED
    BY <2>1, <2>2
<1>17. MigratedOnce'
  BY <1>1, <1>3 DEF MigratedOnce, GatesOf
<1>18. NothingBehindWatermark'
  <2>1. Watermark("gateways")' = Watermark("gateways")
    BY <1>13 DEF Kinds
  <2> HIDE DEF Watermark
  <2> QED
    BY <1>1, <1>3, <1>7, <1>13, <2>1 DEF NothingBehindWatermark
<1>19. \A t \in talks' \ back' : \A k \in {"clients", "vias"} :
          joined'[t[1]] < Watermark(k) => t \in talks \ back /\ joined[t[1]] < Watermark(k)
  <2> SUFFICES ASSUME NEW t \in talks' \ back', NEW k \in {"clients", "vias"},
                      joined'[t[1]] < Watermark(k)
               PROVE  t \in talks \ back /\ joined[t[1]] < Watermark(k)
    OBVIOUS
  <2>1. Watermark(k) \in Nat /\ Watermark(k) <= Now
    BY <1>13 DEF Kinds
  <2>2. c \in Joined /\ joined[c] < Watermark(k) => joined[c] < Watermark("clients")
    BY <1>1 DEF ClientsBeforeVias
  <2> HIDE DEF Watermark
  <2>3. CASE t \in talks
    BY <1>3, <1>9, <2>3
  <2>4. CASE t \notin talks
    <3>1. t = <<c, p0>> /\ t[1] = c
      BY <1>3, <2>4
    <3>2. joined[c] # 0
      BY <1>5, <1>6, <2>1, <3>1
    <3>3. joined[c] > 0 /\ joined[c] < Watermark("clients")
      BY <1>2, <1>6, <1>7, <2>2, <3>1, <3>2
    <3> QED
      BY <1>3, <3>1, <3>3
  <2> QED
    BY <2>3, <2>4
<1>20. NoViaMissing'
  <2>1. Watermark("vias")' = Watermark("vias")
    BY <1>13 DEF Kinds
  <2> HIDE DEF Watermark
  <2> QED
    BY <1>1, <1>3, <1>19, <2>1 DEF NoViaMissing, GatesOf
<1>21. RunInv'
  <2>1. /\ Watermark("clients")' = Watermark("clients") /\ Watermark("vias")' = Watermark("vias")
        /\ Watermark("gateways")' = Watermark("gateways")
        /\ Watermark("vias") \in Nat /\ Watermark("vias") <= Now
    BY <1>13 DEF Kinds
  <2> HIDE DEF Watermark
  <2>2. pc' = "off"
    BY <1>3, <1>4
  <2>3. InStep' /\ PageIsNext' /\ ViasWritten'
    BY <2>2 DEF InStep, PageIsNext, ViasWritten, OnPage
  <2>4. ClientsFirst'
    BY <1>1, <1>3, <1>19, <2>1, <2>2 DEF ClientsFirst
  <2>5. (env.quiet => GatewaysFirst)'
    BY <1>1, <1>3, <1>19, <2>1, <2>2 DEF GatewaysFirst
  <2>6. ClientsBeforeVias'
    <3> SUFFICES ASSUME NEW d \in Joined', joined'[d] < Watermark("vias")
                 PROVE  joined'[d] < Watermark("clients")
      BY <2>1, <2>2 DEF ClientsBeforeVias
    <3>1. d \in Joined
      BY <1>5, <1>6, <1>7, <2>1
    <3> QED
      BY <1>1, <1>7, <3>1 DEF ClientsBeforeVias
  <2> QED
    BY <2>3, <2>4, <2>5, <2>6 DEF RunInv
<1> QED
  BY <1>11, <1>12, <1>14, <1>16, <1>17, <1>18, <1>20, <1>21 DEF IInv, DbInv

--------------------------------------------------------------------------------

LEMMA NextIsSafe == IInv /\ [Next]_vars => IInv'
<1> SUFFICES ASSUME IInv, [Next]_vars
             PROVE  IInv'
  OBVIOUS
<1>1. ASSUME NEW p \in Providers, LegacyProvider(p)
      PROVE  IInv'
  BY <1>1, LegacyProviderIsSafe
<1>2. ASSUME NEW t \in Channels, LegacyChannel(t[1], t[2])
      PROVE  IInv'
  BY <1>2, LegacyChannelIsSafe
<1>3. ASSUME NEW m \in {"migration", "sync"}, Launch(m)
      PROVE  IInv'
  BY <1>3, LaunchIsSafe
<1>4. CASE RunClients
  BY <1>4, RunClientsIsSafe
<1>5. CASE RunVias
  BY <1>5, RunViasIsSafe
<1>6. CASE Complete
  BY <1>6, CompleteIsSafe
<1>7. CASE StartGateways
  BY <1>7, StartGatewaysIsSafe
<1>8. CASE Fetch
  BY <1>8, FetchIsSafe
<1>9. CASE Commit
  BY <1>9, CommitIsSafe
<1>10. CASE Refused
  BY <1>10, RefusedIsSafe
<1>11. CASE CrashAfterCommit
  BY <1>11, CrashAfterCommitIsSafe
<1>12. CASE CommitAnswerLost
  BY <1>12, CommitAnswerLostIsSafe
<1>13. CASE FailOrCrash
  BY <1>13, FailOrCrashIsSafe
<1>14. CASE UNCHANGED vars
  <2>1. /\ TypeOK /\ DbInv /\ RunInv /\ InStep /\ ClientsFirst /\ ClientsBeforeVias /\ ViasWritten
        /\ (env.quiet => PageIsNext /\ GatewaysFirst)
    BY DEF IInv, RunInv
  <2>2. UNCHANGED <<env, born, joined, talks, back, rows, contactRows, apps, gates, vias,
                    mode, index, pc, offset, from, batch, numbers, more>>
    BY <1>14 DEF vars, legacy, target, process, page
  <2>3. /\ DbInv' /\ \A p : Served(p)' = Served(p) /\ (Migrated' <=> Migrated)
        /\ \A k \in Kinds : Watermark(k)' = Watermark(k)
    BY <2>1, <2>2, NothingWritten DEF legacy
  <2>4. TypeOK'
    BY <2>1, <2>2 DEF TypeOK
  <2>5. Found(from)' = Found(from) /\ \A p : Before(p, from)' = Before(p, from)
    <3>1. Found(from)' = Found(from)
      BY <2>2 DEF Found, Created
    <3> QED
      BY <2>2, <3>1 DEF Before
  <2>6. InStep'
    <3>1. Current' = Current
      BY <2>2 DEF Current
    <3>2. Progress(Current)' = Progress(Current) /\ From(Current)' = From(Current)
      BY <2>2, <3>1 DEF Progress, From, Watermark
    <3>3. OnPage' <=> OnPage
      BY <2>2 DEF OnPage
    <3> QED
      BY <2>1, <2>2, <2>3, <2>5, <3>2, <3>3 DEF InStep
  <2>7. (env.quiet => PageIsNext)'
    BY <2>1, <2>2, <2>3, <2>5 DEF PageIsNext, OnPage
  <2>8. ClientsFirst' /\ ViasWritten' /\ (env.quiet => GatewaysFirst)'
    <3>1. /\ Watermark("clients")' = Watermark("clients") /\ Watermark("vias")' = Watermark("vias")
          /\ Watermark("gateways")' = Watermark("gateways")
      BY <2>3 DEF Kinds
    <3> HIDE DEF Watermark
    <3> QED
      BY <2>1, <2>2, <3>1 DEF ClientsFirst, ViasWritten, GatewaysFirst, GatesOf
  <2>9. ClientsBeforeVias'
    BY <2>1, <2>2, <2>3, ClientsStay
  <2> QED
    BY <2>3, <2>4, <2>6, <2>7, <2>8, <2>9 DEF IInv, RunInv
<1> QED
  BY <1>1, <1>2, <1>3, <1>4, <1>5, <1>6, <1>7, <1>8, <1>9, <1>10, <1>11, <1>12, <1>13, <1>14
     DEF Next

\* The inductive invariant holds, whatever fails and whichever answer is lost.
THEOREM Invariance == Spec => []IInv
BY InitIsSafe, NextIsSafe, PTL DEF Spec

\* Every variable has its type.
THEOREM TypeCorrect == Spec => []TypeOK
<1>1. IInv => TypeOK
  BY DEF IInv
<1> QED
  BY Invariance, <1>1, PTL

\* While COMMIT answers, a provider gets one app and one gate of a kind at most, over all
\* runs of both modes: what has an app lies before the saved offset of the open form.
THEOREM OneAppOfProvider == Spec => []MigratedOnce
<1>1. IInv => MigratedOnce
  BY DEF IInv, DbInv
<1> QED
  BY Invariance, <1>1, PTL

\* In a quiet legacy service a provider from before the time the next run starts from has
\* its app and its gates, wherever the runs were interrupted.
THEOREM NoProviderIsPassed == Spec => []NothingBehindWatermark
<1>1. IInv => NothingBehindWatermark
  BY DEF IInv, DbInv
<1> QED
  BY Invariance, <1>1, PTL

\* After a completed vias step each contact from before it is linked with every gate of
\* the providers its client has used, those apart that the client came back over after the
\* clients step had taken it: its row and the gates are there before the step, and no gate
\* comes after.
THEOREM EveryGateIsLinked == Spec => []NoViaMissing
<1>1. IInv => NoViaMissing
  BY DEF IInv, DbInv
<1> QED
  BY Invariance, <1>1, PTL

--------------------------------------------------------------------------------
(* Nothing that has been reached is taken back. *)

\* Where COMMIT answers, no provider on a page has an app yet.
LEMMA PageIsUnserved ==
    ASSUME IInv, pc = "commit", env.answered, NEW p \in batch
    PROVE  p \in Providers /\ apps[p] = 0
<1>1. TypeOK /\ RowsInOrder /\ InStep /\ NotServedAhead /\ index = 2
  BY DEF IInv, DbInv, RunInv, InStep
<1>2. Current \in GatewaySteps /\ Open(Current)
  BY <1>1, FormFacts
<1>3. offset = Progress(Current) /\ from = From(Current)
      /\ p \in Found(from) /\ offset <= Before(p, from)
  BY <1>1 DEF InStep, OnPage
<1>4. p \in Providers /\ apps[p] \in Nat /\ offset \in Nat /\ Before(p, from) \in Nat
  BY <1>1, FoundFacts DEF TypeOK
<1>5. ~(Before(p, from) < offset)
  BY <1>3, <1>4
<1>6. ~(apps[p] > 0)
  BY <1>1, <1>2, <1>3, <1>5 DEF NotServedAhead
<1> QED
  BY <1>4, <1>6

\* A row written during a page keeps the time of the last completion.
LEMMA RowGoesForward ==
    ASSUME IInv, pc \in {"fetch", "commit"}, NEW r \in StepRow({}),
           r.completedAt = rows[Current].completedAt, GetStepProgress(r) >= offset,
           rows' = [rows EXCEPT ![Current] = r]
    PROVE  \A s \in StepNames :
               rows'[s].completedAt >= rows[s].completedAt /\ Progress(s)' >= Progress(s)
<1> DEFINE form == Current
<1>1. /\ TypeOK /\ form \in StepNames /\ offset = Progress(form)
      /\ rows' = [rows EXCEPT ![form] = r] /\ r.completedAt = rows[form].completedAt
  BY CurrentFacts DEF IInv, RunInv, InStep, OnPage
<1> HIDE DEF form
<1>2. \A s \in StepNames : rows'[s] = IF s = form THEN r ELSE rows[s]
  BY <1>1 DEF TypeOK
<1>3. \A s \in StepNames : Progress(s)' = IF s = form THEN GetStepProgress(r) ELSE Progress(s)
  BY <1>2 DEF Progress
<1> QED
  BY <1>1, <1>2, <1>3, RowTypes

\* Neither a lost answer, after which the error path records the offset before the page,
\* nor a refused page, nor a completion takes back what the steps of the two modes have
\* reached.
THEOREM NothingIsTakenBack == Spec => OnlyForward
<1> DEFINE Rows == \A s \in StepNames :
                     /\ rows'[s].completedAt >= rows[s].completedAt
                     /\ Progress(s)' >= Progress(s) \/ IsCompleted(rows'[s])
           Gates == env.answered => \A p \in Providers : apps[p] > 0 =>
                                        apps'[p] = apps[p] /\ GatesOf(p)' = GatesOf(p)
<1>1. ASSUME IInv, [Next]_vars
      PROVE  Rows
  <2>0. /\ TypeOK /\ InTime /\ offset \in Nat /\ offset >= offset
        /\ \A s \in StepNames : rows[s].completedAt \in Nat /\ Progress(s) \in Nat
    BY <1>1, RowTypes DEF IInv, DbInv, TypeOK
  <2>1. CASE rows' = rows
    BY <2>0, <2>1 DEF Progress
  <2>2. CASE Commit \/ CrashAfterCommit \/ CommitAnswerLost
    <3> DEFINE saved == SaveStepProgress(rows[Current], offset + PerPage)
               failed == MarkStepFailed(saved, offset)
    <3>1. /\ pc = "commit"
          /\ rows' = [rows EXCEPT ![Current] = saved] \/ rows' = [rows EXCEPT ![Current] = failed]
      BY <2>2 DEF Commit, CrashAfterCommit, CommitAnswerLost, Fail
    <3>2. /\ saved \in StepRow({}) /\ saved.completedAt = rows[Current].completedAt
          /\ GetStepProgress(saved) = offset + PerPage
          /\ failed \in StepRow({}) /\ failed.completedAt = rows[Current].completedAt
          /\ GetStepProgress(failed) = offset
      BY <2>0, SavedRow
    <3>3. offset + PerPage >= offset
      BY <2>0, ProviderFacts
    <3> HIDE DEF saved, failed
    <3>4. CASE rows' = [rows EXCEPT ![Current] = saved]
      BY <1>1, <3>1, <3>2, <3>3, <3>4, RowGoesForward
    <3>5. CASE rows' = [rows EXCEPT ![Current] = failed]
      BY <1>1, <2>0, <3>1, <3>2, <3>5, RowGoesForward
    <3> QED
      BY <3>1, <3>4, <3>5
  <2>3. CASE (Refused \/ FailOrCrash) /\ rows' # rows
    <3> DEFINE old == rows[Current]
               r == MarkStepFailed(old, offset)
    <3>1. /\ pc \in {"fetch", "commit"} /\ Fail(old) /\ old \in StepRow({})
          /\ Current \in StepNames
      BY <2>0, <2>3, CurrentFacts DEF Refused, FailOrCrash
    <3>2. rows' = [rows EXCEPT ![Current] = r]
      BY <2>0, <2>3, <3>1 DEF Fail, TypeOK
    <3>3. /\ r \in StepRow({}) /\ GetStepProgress(r) = offset
          /\ r.completedAt = rows[Current].completedAt
      <4>1. old.completedAt = rows[Current].completedAt
        OBVIOUS
      <4> HIDE DEF old
      <4> QED
        BY <2>0, <3>1, <4>1, OffsetRowFacts, OffsetRowValues
    <3> HIDE DEF r
    <3> QED
      BY <1>1, <2>0, <3>1, <3>2, <3>3, RowGoesForward
  <2>4. CASE Complete
    <3> DEFINE form == Current
    <3>1. /\ rows' = [rows EXCEPT ![form] = MarkStepCompleted(@, Now)]
          /\ form \in StepNames /\ Now \in Nat
      BY <2>0, <2>4, NowFacts, CurrentFacts DEF Complete, InTime
    <3> HIDE DEF form
    <3>2. /\ \A s \in StepNames : s # form => rows'[s] = rows[s]
          /\ rows'[form].completedAt = Now /\ IsCompleted(rows'[form])
      BY <2>0, <3>1 DEF TypeOK, MarkStepCompleted, IsCompleted
    <3> QED
      BY <2>0, <3>1, <3>2 DEF InTime, Progress
  <2> QED
    BY <1>1, <2>1, <2>2, <2>3, <2>4
       DEF Next, LegacyProvider, LegacyChannel, Launch, RunClients, RunVias, StartGateways,
           Fetch, vars
<1>2. ASSUME IInv, [Next]_vars
      PROVE  Gates
  <2>1. CASE Commit \/ CrashAfterCommit \/ CommitAnswerLost
    <3>1. pc = "commit" /\ WritePage /\ TypeOK /\ UNCHANGED env
      BY <1>2, <2>1 DEF Commit, CrashAfterCommit, CommitAnswerLost, IInv
    <3>2. env.answered => \A p \in batch : p \in Providers /\ apps[p] = 0
      BY <1>2, <3>1, PageIsUnserved
    <3>3. /\ \A p \in Providers : apps'[p] = IF p \in Kept THEN apps[p] + 1 ELSE apps[p]
          /\ gates' = gates \cup NewGates /\ Kept \subseteq batch
          /\ \A g \in NewGates : g[1] \in batch
      BY <3>1, PageWritten
    <3> SUFFICES ASSUME env.answered, NEW p \in Providers, apps[p] > 0
                 PROVE  apps'[p] = apps[p] /\ GatesOf(p)' = GatesOf(p)
      OBVIOUS
    <3>4. p \notin batch
      BY <3>2
    <3> QED
      BY <3>3, <3>4 DEF GatesOf
  <2>2. CASE apps' = apps /\ gates' = gates
    BY <2>2 DEF GatesOf
  <2> QED
    BY <1>2, <2>1, <2>2
       DEF Next, LegacyProvider, LegacyChannel, Launch, RunClients, RunVias, StartGateways,
           Fetch, Refused, Complete, FailOrCrash, vars, target
<1>3. IInv /\ [Next]_vars => [Rows /\ Gates]_vars
  BY <1>1, <1>2
<1> QED
  BY Invariance, <1>3, PTL DEF Spec, OnlyForward

================================================================================

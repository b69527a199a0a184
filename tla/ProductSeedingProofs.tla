------------------------- MODULE ProductSeedingProofs -------------------------
(***************************************************************************)
(* Theorems about ProductSeeding and, through it, about ProductContract    *)
(* and ComponentGraph: seeds, an adoption, refreshes of contract and       *)
(* mirror, webhooks and operators at one product, for any contents, layers *)
(* and settings and any number of seeds.                                   *)
(***************************************************************************)
EXTENDS ProductSeeding, TLAPS

-----------------------------------------------------------------------------
(* The inductive invariant *)

IsTx(t) ==
  /\ DOMAIN t = DOMAIN NoTx
  /\ t.at \in {"idle", "loaded", "read"}
  /\ t.at # "idle" => IsRow(t.product) /\ IsLayer(t.given) /\ t.codes \subseteq MirrorCodes
  /\ t.at = "read" => IsLayer(t.content.layer)

IsRemote(g) ==
  /\ DOMAIN g = {"head", "hook", "pushes", "archived", "pull", "protected", "projects"}
  /\ g.pushes \in Nat /\ IsLayer(g.head.layer)
  /\ g.pull # None => IsLayer(g.pull.layer)

\* The layers that settings hold.
IsSettings(defaults) == IsLayer(Layer(defaults.platform)) /\ IsLayer(Layer(defaults.org))

IsGraph(g) ==
  /\ \A k \in DOMAIN g.nodes :
       g.nodes[k] = [source |-> g.nodes[k].source, freshness |-> g.nodes[k].freshness]
  /\ \A row \in DOMAIN g.edges :
       row = <<row[1], row[2]>> /\ row[2] \in {"declared", "repo-metadata", "seed"}

\* What a seed has published is in published, or waits in a pull request.
Placed == {"protect", "register", "bootstrap", "finish"}
InRows == {"bootstrap", "finish"}

IsSeed(t) ==
  /\ DOMAIN t = DOMAIN NoSeed
  /\ t.at \in {"idle", "project", "publish"} \cup Placed
  /\ t.pull \in BOOLEAN /\ t.codes \subseteq MirrorCodes
  /\ t.at \in {"publish"} \cup Placed => IsLayer(t.bundle.layer)

Types ==
  /\ product = None \/ IsRow(product)
  /\ product # None => "adoption" \in DOMAIN repo
  /\ IsTx(refresh) /\ IsTx(mirror) /\ IsRemote(github) /\ IsSettings(settings) /\ IsGraph(graph)
  /\ DOMAIN seeds = Seeds /\ \A s \in Seeds : IsSeed(seeds[s])
  /\ DOMAIN jobs = Seeds /\ \A s \in Seeds : DOMAIN jobs[s] = DOMAIN NoJob

\* Nothing is loaded or read before there is a product, and only one seed has
\* rows, of a product that is not there yet.
Exclusive ==
  /\ refresh.at # "idle" \/ mirror.at # "idle" \/ read # None => product # None
  /\ \A s \in Seeds : seeds[s].at \in InRows => product = None
  /\ \A s, o \in Seeds : seeds[s].at \in InRows /\ seeds[o].at \in InRows => s = o
  /\ \A s \in Seeds : jobs[s].product => product # None /\ repo.adoption = "seeded"
  /\ \A s, o \in Seeds : jobs[s].product /\ jobs[o].product => s = o

\* While nothing overlaps, what a transaction has loaded is what there is.
Loaded(t) == ~crossed /\ t.at # "idle" => t.product = product

\* A blocking diagnostic keeps a product from being resumed, and once a contract
\* was read the state is what the diagnostics make of it.
SetUp(row, known) ==
  /\ Blocks(row.codes) => row.state = "setup-needed" /\ row.status # "Active"
  /\ known => row.state = SetupState(row.codes)
Guarded == product # None /\ ~crossed => SetUp(product, read # None)

\* The product of a seed whose pull request waits.
Waits(row) == PullPending \in row.codes /\ row.state = "setup-needed" /\ row.status # "Active"

SeedsPublish ==
  /\ github.head \in published
  /\ \A s \in Seeds : seeds[s].at \in Placed /\ ~seeds[s].pull => seeds[s].bundle \in published
  /\ \A s \in Seeds : jobs[s].status = "Succeeded" => jobs[s].bundle \in published
  /\ read # None /\ read.from = "bundle" /\ read.contract \notin published =>
       Waits(product) /\ (mirror.at # "idle" => Waits(mirror.product))

\* What is about to become the contract differs from the branch only when a
\* delivery will tell.
Told ==
  /\ refresh.at = "read" /\ ~crossed /\ ~unheard =>
       refresh.content = github.head \/ github.pushes > 0
  /\ product = None /\ ~unheard =>
       \A s \in Seeds : seeds[s].at \in Placed =>
         seeds[s].pull \/ seeds[s].bundle = github.head \/ github.pushes > 0

IInv ==
  /\ Types /\ Exclusive /\ Loaded(refresh) /\ Loaded(mirror) /\ Guarded
  /\ SeedsPublish /\ Told /\ ContractIsCurrent /\ GraphFollowsContract

-----------------------------------------------------------------------------
(* Layers and rows *)

\* Where both have a value the first one's counts.
LEMMA OverIs ==
  ASSUME NEW f, NEW g
  PROVE  /\ DOMAIN Over(f, g) = DOMAIN f \cup DOMAIN g
         /\ \A x \in DOMAIN f : Over(f, g)[x] = f[x]
         /\ \A x \in DOMAIN g \ DOMAIN f : Over(f, g)[x] = g[x]
         /\ Over(f, g) = [x \in DOMAIN Over(f, g) |-> Over(f, g)[x]]
BY DEF Over

LEMMA OverIsLayer ==
  ASSUME NEW f, NEW g, IsLayer(f), IsLayer(g)
  PROVE  IsLayer(Over(f, g)) /\ DOMAIN Over(f, g) = DOMAIN f \cup DOMAIN g
<1> DEFINE h == Over(f, g)
<1>1. /\ DOMAIN f \subseteq Keys /\ DOMAIN g \subseteq Keys
      /\ \A key \in DOMAIN f : f[key] \in Ranges[key]
      /\ \A key \in DOMAIN g : g[key] \in Ranges[key]
  BY DEF IsLayer
<1>2. /\ DOMAIN h = DOMAIN f \cup DOMAIN g
      /\ \A x \in DOMAIN f : h[x] = f[x]
      /\ \A x \in DOMAIN g \ DOMAIN f : h[x] = g[x]
      /\ h = [x \in DOMAIN h |-> h[x]]
  BY OverIs
<1> HIDE DEF h
<1>3. \A key \in DOMAIN h : h[key] \in Ranges[key]  BY <1>1, <1>2
<1>4. DOMAIN h \subseteq Keys  BY <1>1, <1>2
<1>5. IsLayer(h)  BY <1>2, <1>3, <1>4 DEF IsLayer
<1> QED  BY <1>2, <1>5 DEF h

LEMMA KeysAre ==
  /\ Keys = {"merge", "posture", "writes", "comments", "profile", "lanes", "required",
             "recommended", "secrets"}
  /\ Ranges.merge = BOOLEAN /\ Ranges.posture = Postures /\ Ranges.writes = Postures \cup {"none"}
  /\ Ranges.comments = BOOLEAN /\ Ranges.profile = Profiles /\ Ranges.lanes = Nat
BY DEF Keys, Ranges

LEMMA DefaultsAreConfig == IsConfig(PLATFORM_DEFAULTS)
<1> DEFINE d == PLATFORM_DEFAULTS
<1>1. DOMAIN d = Keys  BY KeysAre DEF PLATFORM_DEFAULTS
<1>2. d = [key \in DOMAIN d |-> d[key]]  BY DEF PLATFORM_DEFAULTS
<1>3. /\ d.merge \in BOOLEAN /\ d.posture \in Postures /\ d.writes \in Postures
      /\ d.comments \in BOOLEAN /\ d.profile \in Profiles /\ d.lanes \in Nat /\ d.secrets \in BOOLEAN
  BY ConstantsAssumption DEF ConstantsAssumption, PLATFORM_DEFAULTS, Postures, Supported
<1>a. d.required = {"harness"} /\ d.recommended = {"templates"}  BY DEF PLATFORM_DEFAULTS
<1>b. d.required \in SUBSET Assets /\ d.recommended \in SUBSET Assets
  BY <1>a, ConstantsAssumption DEF ConstantsAssumption
<1> HIDE DEF d
<1>4. \A key \in DOMAIN d : d[key] \in Ranges[key]
  BY <1>1, <1>3, <1>b, KeysAre DEF Ranges
<1> QED  BY <1>1, <1>2, <1>4 DEF IsConfig, IsLayer, d

LEMMA EmptyIsLayer == IsLayer(Empty)
BY DEF IsLayer, Empty

\* A configuration has a value of its kind for every key.
LEMMA ConfigHas ==
  ASSUME NEW config, IsConfig(config)
  PROVE  /\ config.merge \in BOOLEAN /\ config.posture \in Postures
         /\ config.writes \in Postures \cup {"none"} /\ config.comments \in BOOLEAN
         /\ config.lanes \in Nat /\ config.profile \in Profiles
BY KeysAre DEF IsConfig, IsLayer

\* Changing some values of a configuration gives another one.
LEMMA ConfigWith ==
  ASSUME NEW config, IsConfig(config), NEW f, IsLayer(f)
  PROVE  IsConfig(Over(f, config))
<1>1. IsLayer(config) /\ DOMAIN config = Keys /\ DOMAIN f \subseteq Keys  BY DEF IsConfig, IsLayer
<1>2. IsLayer(Over(f, config)) /\ DOMAIN Over(f, config) = DOMAIN f \cup DOMAIN config
  BY <1>1, OverIsLayer
<1> QED  BY <1>1, <1>2 DEF IsConfig

\* All layers together say something about every key.
LEMMA MergedIsConfig ==
  ASSUME NEW c, NEW row, NEW given, IsLayer(given), IsLayer(c.layer), row.profile \in Profiles,
         IsSettings(settings)
  PROVE  IsConfig(Merged(c, row, given))
<1> DEFINE declared == IF Readable(c) THEN c.layer ELSE Empty
           m == Over(given, Over(declared, Over(RecordDefaults(row),
                  Over(Layer(settings.org), Over(Layer(settings.platform), PLATFORM_DEFAULTS)))))
           lanes == [lanes |-> IF m.lanes = NoLanes /\ m.profile \in Supported THEN ProfileLanes ELSE m.lanes]
<1>1. IsLayer(declared)  BY EmptyIsLayer
<1>2. IsLayer(RecordDefaults(row))  BY DEF IsLayer, RecordDefaults, Keys, Ranges
<1>3. IsConfig(Over(Layer(settings.platform), PLATFORM_DEFAULTS))
  BY ConfigWith, DefaultsAreConfig DEF IsSettings
<1>4. IsConfig(Over(Layer(settings.org), Over(Layer(settings.platform), PLATFORM_DEFAULTS)))
  BY <1>3, ConfigWith DEF IsSettings
<1>5. IsConfig(m)
  <2>1. IsConfig(Over(RecordDefaults(row),
          Over(Layer(settings.org), Over(Layer(settings.platform), PLATFORM_DEFAULTS))))
    BY <1>4, <1>2, ConfigWith
  <2>2. IsConfig(Over(declared, Over(RecordDefaults(row),
          Over(Layer(settings.org), Over(Layer(settings.platform), PLATFORM_DEFAULTS)))))
    BY <2>1, <1>1, ConfigWith
  <2> QED  BY <2>2, ConfigWith
<1> HIDE DEF m
<1>6. IsLayer(lanes)
  BY <1>5, ConfigHas DEF IsLayer, Keys, Ranges, ProfileLanes
<1>7. IsConfig(Over(lanes, m))  BY <1>5, <1>6, ConfigWith
<1> QED  BY <1>7 DEF Merged, m

\* None is no row: a product that has one is there.
LEMMA NoneIsNoRow == ASSUME NEW row, IsRow(row) PROVE row # None
<1> DEFINE fits(l) == l \in PartialConfigs
<1>1. ASSUME NEW l, IsLayer(l) PROVE fits(l)
  <2>1. l = [key \in DOMAIN l |-> l[key]] /\ DOMAIN l \in SUBSET Keys  BY <1>1 DEF IsLayer
  <2>2. \A key \in DOMAIN l : l[key] \in Values  BY <1>1 DEF IsLayer, Values
  <2>3. l \in [DOMAIN l -> Values]  BY <2>1, <2>2
  <2> QED  BY <2>1, <2>3 DEF PartialConfigs
<1>2. row.overrides \in PartialConfigs  BY <1>1 DEF IsRow
<1>3. row.config \in PartialConfigs \cup {None}  BY <1>1 DEF IsRow, IsConfig
<1>4. row \in Rows  BY <1>2, <1>3 DEF IsRow, Rows
<1> QED  BY <1>4, ConstantsAssumption DEF ConstantsAssumption

LEMMA WrittenIsRow ==
  ASSUME NEW now, NEW loaded, NEW new, IsRow(now), IsRow(new)
  PROVE  /\ IsRow(Written(now, loaded, new))
         /\ \A column \in {"status", "state", "codes", "overrides", "config", "profile"} :
              Written(now, loaded, new)[column] =
                IF new[column] = loaded[column] THEN now[column] ELSE new[column]
<1> DEFINE w == Written(now, loaded, new)
<1>1. DOMAIN now = {"status", "state", "codes", "overrides", "config", "profile"}  BY DEF IsRow
<1>2. /\ w = [column \in {"status", "state", "codes", "overrides", "config", "profile"} |-> w[column]]
      /\ \A column \in {"status", "state", "codes", "overrides", "config", "profile"} :
           w[column] = IF new[column] = loaded[column] THEN now[column] ELSE new[column]
  BY <1>1 DEF Written
<1> HIDE DEF w
<1>3. w = [status |-> w.status, state |-> w.state, codes |-> w.codes,
           overrides |-> w.overrides, config |-> w.config, profile |-> w.profile]
  BY <1>2
<1>4. /\ w.status \in {now.status, new.status} /\ w.state \in {now.state, new.state}
      /\ w.codes \in {now.codes, new.codes} /\ w.overrides \in {now.overrides, new.overrides}
      /\ w.config \in {now.config, new.config} /\ w.profile \in {now.profile, new.profile}
  BY <1>2
<1>5. IsRow(w)
  <2>1. w.status \in Statuses /\ w.state \in SetupStates /\ w.codes \subseteq Codes
    BY <1>4 DEF IsRow
  <2>2. IsLayer(w.overrides) /\ w.profile \in Profiles  BY <1>4 DEF IsRow
  <2>3. w.config = None \/ IsConfig(w.config)  BY <1>4 DEF IsRow
  <2> QED  BY <1>3, <2>1, <2>2, <2>3 DEF IsRow
<1> QED  BY <1>2, <1>5 DEF w

-----------------------------------------------------------------------------
(* Caps *)

LEMMA StrictestIs ==
  ASSUME NEW values, values # {}
  PROVE  /\ Strictest(values) \in values
         /\ \A v \in values : Strictness(Strictest(values)) <= Strictness(v)
<1>1. \A v : Strictness(v) \in {0, 1, 2}  BY DEF Strictness
<1>2. \E v \in values : \A w \in values : Strictness(v) <= Strictness(w)
  <2>1. CASE \E v \in values : Strictness(v) = 0  BY <1>1, <2>1
  <2>2. CASE (\A v \in values : Strictness(v) # 0) /\ \E v \in values : Strictness(v) = 1
    BY <1>1, <2>2
  <2>3. CASE \A v \in values : Strictness(v) = 2  BY <1>1, <2>3
  <2> QED  BY <1>1, <2>1, <2>2, <2>3
<1> QED  BY <1>2 DEF Strictest

\* What is capped is as strict as all values, and is one of them or as before.
LEMMA CappedToIs ==
  ASSUME NEW values, NEW value, NEW requested
  PROVE  /\ CappedTo(values, value, requested) \in values \cup {value}
         /\ \/ \A v \in values : Strictness(CappedTo(values, value, requested)) <= Strictness(v)
            \/ CappedTo(values, value, requested) = value
         /\ \/ CappedTo(values, value, requested) \in values
               /\ \A v \in values : Strictness(CappedTo(values, value, requested)) <= Strictness(v)
            \/ CappedTo(values, value, requested) = value
               /\ \A v \in values : Strictness(requested) <= Strictness(v)
<1>1. \A v : Strictness(v) \in {0, 1, 2}  BY DEF Strictness
<1>2. CASE \E v \in values : Strictness(v) < Strictness(requested)
  <2>1. CappedTo(values, value, requested) = Strictest(values)  BY <1>2 DEF CappedTo
  <2> QED  BY <1>2, <2>1, StrictestIs
<1>3. CASE ~\E v \in values : Strictness(v) < Strictness(requested)
  <2>1. CappedTo(values, value, requested) = value  BY <1>3 DEF CappedTo
  <2>2. \A v \in values : Strictness(requested) <= Strictness(v)  BY <1>1, <1>3
  <2> QED  BY <2>1, <2>2
<1> QED  BY <1>2, <1>3

\* One more number, or none, leaves a set of numbers with a least one.
HasLeast(values) == values \subseteq Nat /\ \E n \in values : \A m \in values : n <= m

LEMMA LeastOfMore ==
  ASSUME NEW values, HasLeast(values), NEW more, NEW n \in Nat, more \subseteq {n}
  PROVE  HasLeast(values \cup more)
<1>1. PICK k \in values : \A m \in values : k <= m  BY DEF HasLeast
<1>2. k \in Nat /\ values \subseteq Nat  BY DEF HasLeast
<1>3. CASE more = {}  BY <1>3
<1>4. CASE more = {n} /\ k <= n  BY <1>1, <1>2, <1>4 DEF HasLeast
<1>5. CASE more = {n} /\ ~(k <= n)
  <2>1. \A m \in values \cup {n} : n <= m  BY <1>1, <1>2, <1>5
  <2> QED  BY <1>2, <1>5, <2>1 DEF HasLeast
<1> QED  BY <1>3, <1>4, <1>5

LEMMA LeastIs ==
  ASSUME NEW values, HasLeast(values)
  PROVE  Least(values) \in values /\ \A m \in values : Least(values) <= m
BY DEF HasLeast, Least

\* What three layers say about lanes, beside two other numbers.
LEMMA LanesHaveLeast ==
  ASSUME NEW l1, NEW l2, NEW l3, IsLayer(l1), IsLayer(l2), IsLayer(l3), NEW a \in Nat, NEW b \in Nat
  PROVE  HasLeast({a, b} \cup (Of({l1, l2, l3}, "lanes") \ {NoLanes}))
<1> DEFINE Said(l) == {l.lanes : x \in {x \in {l} : "lanes" \in DOMAIN l}} \ {NoLanes}
<1>1. ASSUME NEW l, IsLayer(l) PROVE \E n \in Nat : Said(l) \subseteq {n}
  <2>1. CASE "lanes" \in DOMAIN l
    <3>1. l.lanes \in Nat  BY <1>1, <2>1, KeysAre DEF IsLayer
    <3> QED  BY <3>1
  <2>2. CASE "lanes" \notin DOMAIN l
    <3>1. Said(l) = {}  BY <2>2
    <3> QED  BY <3>1
  <2> QED  BY <2>1, <2>2
<1>2. Of({l1, l2, l3}, "lanes") \ {NoLanes} = Said(l1) \cup Said(l2) \cup Said(l3)
  BY DEF Of
<1> HIDE DEF Said
<1>3. HasLeast({a})  BY DEF HasLeast
<1>4. HasLeast({a} \cup {b})  BY <1>3, LeastOfMore
<1>5. HasLeast(({a} \cup {b}) \cup Said(l1))
  <2>1. PICK n \in Nat : Said(l1) \subseteq {n}  BY <1>1
  <2> QED  BY <1>4, <2>1, LeastOfMore
<1>6. HasLeast((({a} \cup {b}) \cup Said(l1)) \cup Said(l2))
  <2>1. PICK n \in Nat : Said(l2) \subseteq {n}  BY <1>1
  <2> QED  BY <1>5, <2>1, LeastOfMore
<1>7. HasLeast(((({a} \cup {b}) \cup Said(l1)) \cup Said(l2)) \cup Said(l3))
  <2>1. PICK n \in Nat : Said(l3) \subseteq {n}  BY <1>1
  <2> QED  BY <1>6, <2>1, LeastOfMore
<1>8. ((({a} \cup {b}) \cup Said(l1)) \cup Said(l2)) \cup Said(l3)
        = {a, b} \cup (Of({l1, l2, l3}, "lanes") \ {NoLanes})
  BY <1>2
<1> QED  BY <1>7, <1>8

\* What GovernanceIsCapped says of a contract.
Within(config, lower) ==
  /\ config.merge
  /\ \A l \in lower :
       /\ "posture" \in DOMAIN l => Strictness(config.posture) <= Strictness(l.posture)
       /\ Writing(l) \/ "posture" \in DOMAIN l => Strictness(Writes(config)) <= Strictness(Writes(l))
       /\ "comments" \in DOMAIN l => (config.comments => l.comments)
       /\ "lanes" \in DOMAIN l /\ l.lanes # NoLanes => config.lanes <= l.lanes

LEMMA LowerAreLayers ==
  ASSUME IsSettings(settings)
  PROVE  \A l \in LowerLayers : IsLayer(l)
BY DefaultsAreConfig DEF LowerLayers, IsSettings, IsConfig

LEMMA CappedIs ==
  ASSUME NEW config, IsConfig(config), IsSettings(settings)
  PROVE  /\ IsConfig(Capped(config, LowerLayers))
         /\ config.profile \in Supported => Within(Capped(config, LowerLayers), LowerLayers)
<1> DEFINE lower == LowerLayers
           postures == Of(lower, "posture")
           writes == WritesOf(lower)
           lanes == {config.lanes, ProfileLanes} \cup (Of(lower, "lanes") \ {NoLanes})
           p == CappedTo(postures, config.posture, config.posture)
           requested == IF config.writes = "none" THEN p ELSE config.writes
           w == CappedTo(writes, config.writes, requested)
           n == IF config.profile \in Supported THEN Least(lanes) ELSE config.lanes
           m == TRUE \in Of(lower, "merge") \/ config.merge
           k == config.comments /\ FALSE \notin Of(lower, "comments")
           f == [merge |-> m, posture |-> p, writes |-> w, comments |-> k, lanes |-> n]
           c == Over(f, config)
<1>1. \A l \in lower : IsLayer(l)  BY LowerAreLayers
<1>2. postures \subseteq Postures /\ writes \subseteq Postures
  <2>1. ASSUME NEW l \in lower, "posture" \in DOMAIN l PROVE l.posture \in Postures
    BY <1>1, <2>1, KeysAre DEF IsLayer
  <2>2. ASSUME NEW l \in lower, Writing(l) PROVE l.writes \in Postures
    BY <1>1, <2>2, KeysAre DEF IsLayer, Writing
  <2>3. writes \subseteq Postures  BY <2>1, <2>2 DEF WritesOf, Writes
  <2> QED  BY <2>1, <2>3 DEF Of
<1>3. HasLeast(lanes)
  <2>1. config.lanes \in Nat /\ ProfileLanes \in Nat  BY ConfigHas DEF ProfileLanes
  <2>2. lower = {PLATFORM_DEFAULTS, Layer(settings.platform), Layer(settings.org)}  BY DEF LowerLayers
  <2> QED  BY <2>1, <2>2, LanesHaveLeast, DefaultsAreConfig DEF IsSettings, IsConfig
<1>4. p \in Postures /\ \A l \in postures : Strictness(p) <= Strictness(l)
  BY <1>2, CappedToIs, ConfigHas
<1>5. w \in Postures \cup {"none"}  BY <1>2, CappedToIs, ConfigHas
<1>6. n \in Nat  BY <1>3, LeastIs, ConfigHas DEF HasLeast
<1>7. m \in BOOLEAN /\ k \in BOOLEAN  BY ConfigHas
<1>8. /\ DOMAIN f = {"merge", "posture", "writes", "comments", "lanes"}
      /\ f.merge = m /\ f.posture = p /\ f.writes = w /\ f.comments = k /\ f.lanes = n
      /\ f = [key \in DOMAIN f |-> f[key]]
  OBVIOUS
<1>9. c = Capped(config, lower)
  BY DEF Capped
<1> HIDE DEF f, m, p, w, k, n, lanes, requested, writes, postures, lower
<1>10. IsLayer(f)
  <2>1. \A key \in DOMAIN f : f[key] \in Ranges[key]
    BY <1>4, <1>5, <1>6, <1>7, <1>8, KeysAre
  <2> QED  BY <1>8, <2>1, KeysAre DEF IsLayer
<1>11. IsConfig(c)  BY <1>10, ConfigWith
<1>12. c.merge = m /\ c.posture = p /\ c.writes = w /\ c.comments = k /\ c.lanes = n /\ DOMAIN c = Keys
  <2>1. \A x \in DOMAIN f : c[x] = f[x]
    <3>1. \A x \in DOMAIN f : Over(f, config)[x] = f[x]  BY DEF Over
    <3> QED  BY <3>1
  <2>2. DOMAIN c = Keys  BY <1>11 DEF IsConfig
  <2> HIDE DEF c
  <2> QED  BY <1>8, <2>1, <2>2
<1>13. ASSUME config.profile \in Supported PROVE Within(c, lower)
  <2> HIDE DEF c
  <2>1. c.merge
    <3>1. PLATFORM_DEFAULTS \in lower /\ "merge" \in DOMAIN PLATFORM_DEFAULTS /\ PLATFORM_DEFAULTS.merge = TRUE
      BY DEF lower, LowerLayers, PLATFORM_DEFAULTS
    <3>2. TRUE \in Of(lower, "merge")  BY <3>1 DEF Of
    <3> QED  BY <1>12, <3>2 DEF m
  <2> SUFFICES ASSUME NEW l \in lower
               PROVE /\ "posture" \in DOMAIN l => Strictness(c.posture) <= Strictness(l.posture)
                     /\ Writing(l) \/ "posture" \in DOMAIN l => Strictness(Writes(c)) <= Strictness(Writes(l))
                     /\ "comments" \in DOMAIN l => (c.comments => l.comments)
                     /\ "lanes" \in DOMAIN l /\ l.lanes # NoLanes => c.lanes <= l.lanes
    BY <2>1 DEF Within
  <2>2. "posture" \in DOMAIN l => Strictness(c.posture) <= Strictness(l.posture)
    BY <1>4, <1>12 DEF postures, Of
  <2>3. ASSUME Writing(l) \/ "posture" \in DOMAIN l
        PROVE  Strictness(Writes(c)) <= Strictness(Writes(l))
    <3>1. Writes(l) \in writes  BY <2>3 DEF writes, WritesOf
    <3>2. Writes(c) = IF w # "none" THEN w ELSE p
      BY <1>12, KeysAre DEF Writes, Writing
    <3>3. \/ w \in writes /\ \A v \in writes : Strictness(w) <= Strictness(v)
          \/ w = config.writes /\ \A v \in writes : Strictness(requested) <= Strictness(v)
      BY CappedToIs DEF w
    <3>4. CASE w \in writes /\ \A v \in writes : Strictness(w) <= Strictness(v)
      <4>1. w # "none"  BY <1>2, <3>4 DEF Postures
      <4> QED  BY <3>1, <3>2, <3>4, <4>1
    <3>5. CASE w = config.writes /\ \A v \in writes : Strictness(requested) <= Strictness(v)
      <4>1. requested = IF w # "none" THEN w ELSE p  BY <3>5 DEF requested
      <4> QED  BY <3>1, <3>2, <3>5, <4>1
    <3> QED  BY <3>3, <3>4, <3>5
  <2>4. ASSUME "comments" \in DOMAIN l, c.comments PROVE l.comments
    <3>1. FALSE \notin Of(lower, "comments")  BY <1>12, <2>4 DEF k
    <3>2. l.comments \in BOOLEAN  BY <1>1, <2>4, KeysAre DEF IsLayer
    <3>3. l.comments # FALSE  BY <2>4, <3>1 DEF Of
    <3> QED  BY <3>2, <3>3
  <2>5. ASSUME "lanes" \in DOMAIN l, l.lanes # NoLanes PROVE c.lanes <= l.lanes
    <3>1. l.lanes \in lanes  BY <2>5 DEF lanes, Of
    <3> QED  BY <1>3, <1>12, <1>13, <3>1, LeastIs DEF n
  <2> QED  BY <2>2, <2>3, <2>4, <2>5
<1> QED  BY <1>9, <1>11, <1>13 DEF lower

-----------------------------------------------------------------------------
(* What a refresh makes of a row *)

LEMMA DiagnosesAreCodes ==
  ASSUME NEW c, NEW row, NEW given, NEW repoRow, NEW projectRow
  PROVE  Diagnoses(c, row, given, repoRow, projectRow) \subseteq Codes
<1> USE DEF When, Codes, Blocking, Recoverable, Advisory
<1>1. SettingCodes \subseteq Codes  BY DEF SettingCodes
<1>2. ManifestCodes(c, projectRow) \subseteq Codes  BY DEF ManifestCodes
<1>3. ComponentCodes(c) \subseteq Codes  BY DEF ComponentCodes
<1>4. ProjectCodes(c, projectRow) \subseteq Codes  BY DEF ProjectCodes
<1>5. \A config : /\ ProfileCodes(config) \subseteq Codes /\ SecretCodes(config) \subseteq Codes
                  /\ AssetCodes(c, config) \subseteq Codes
  BY DEF ProfileCodes, SecretCodes, AssetCodes
<1>6. \A config : PostureCodes(repoRow, config) \subseteq Codes
  <2> DEFINE names ==
        {"github.repo_archived", "github.branch_protection_unknown", "github.branch_protection_missing",
         "github.branch_protection_reviews_required", "protection.force_push",
         "github.permissions_unknown", "github.permission_write_missing",
         "github.permission_issues_write_missing"}
  <2>1. names \subseteq Codes  OBVIOUS
  <2>2. \A config : PostureCodes(repoRow, config) \subseteq names  BY ONLY DEF PostureCodes, When
  <2> QED  BY ONLY <2>1, <2>2
<1>7. \A config, capped : CapCodes(config, capped) \subseteq Codes  BY DEF CapCodes
<1> QED  BY <1>1, <1>2, <1>3, <1>4, <1>5, <1>6, <1>7 DEF Diagnoses

\* A setup state says which kinds of diagnostics there are.
LEMMA SetupStateIs ==
  ASSUME NEW codes
  PROVE  /\ SetupState(codes) \in SetupStates
         /\ Blocks(codes) <=> SetupState(codes) = "setup-needed"
BY DEF SetupState, SetupStates

\* What an accepted contract makes of a row, and a blocked one.
LEMMA ContractedIs ==
  ASSUME NEW c, NEW row, NEW given, NEW repoRow, NEW projectRow,
         IsRow(row), IsLayer(given), IsLayer(c.layer), IsSettings(settings)
  PROVE  LET new == Contracted(c, row, given, repoRow, projectRow)
         IN /\ IsRow(new)
            /\ new.state = SetupState(new.codes)
            /\ new.status = IF row.status = "Paused" THEN "Paused"
                            ELSE IF Blocks(new.codes) THEN "Draft" ELSE "Active"
            /\ new.config = row.config \/ Within(new.config, LowerLayers)
<1> DEFINE kept == Over(given, row.overrides)
           codes == Diagnoses(c, row, kept, repoRow, projectRow)
           merged == Merged(c, row, kept)
           config == Capped(merged, LowerLayers)
           refreshed == [row EXCEPT !.overrides = kept, !.state = SetupState(codes), !.codes = codes]
           new == Contracted(c, row, given, repoRow, projectRow)
           Unless(status, n) == IF status = "Paused" THEN status ELSE n
<1>1. IsLayer(kept)  BY OverIsLayer DEF IsRow
<1>2. codes \subseteq Codes  BY DiagnosesAreCodes
<1>3. IsConfig(merged)  BY <1>1, MergedIsConfig DEF IsRow
<1>4. IsConfig(config)  BY <1>3, CappedIs
<1>5. new = IF Blocks(codes)
              THEN [status |-> Unless(row.status, "Draft"), state |-> SetupState(codes), codes |-> codes,
                    overrides |-> kept, config |-> row.config, profile |-> row.profile]
              ELSE [status |-> Unless(row.status, "Active"), state |-> SetupState(codes), codes |-> codes,
                    overrides |-> kept, config |-> config, profile |-> config.profile]
  <2> HIDE DEF kept, codes, merged, config
  <2>1. row = [status |-> row.status, state |-> row.state, codes |-> row.codes,
               overrides |-> row.overrides, config |-> row.config, profile |-> row.profile]
    BY DEF IsRow
  <2>2. new = IF Blocks(codes) THEN [refreshed EXCEPT !.status = Unless(@, "Draft")]
              ELSE [refreshed EXCEPT !.config = config, !.profile = config.profile,
                                     !.status = Unless(@, "Active")]
    BY DEF Contracted, kept, codes, config, merged
  <2> QED  BY <2>1, <2>2
<1>6. ~Blocks(codes) => merged.profile \in Supported
  <2>1. ProfileCodes(merged) \subseteq codes  BY DEF Diagnoses
  <2>2. merged.profile \notin Supported => "execution.profile_unsupported" \in codes
    BY <2>1 DEF ProfileCodes, When
  <2> QED  BY <2>2 DEF Blocks, Blocking
<1>7. ~Blocks(codes) => Within(config, LowerLayers)  BY <1>3, <1>6, CappedIs
<1> HIDE DEF kept, codes, merged, config, new
<1>8. IsRow(new)
  <2>1. SetupState(codes) \in SetupStates  BY SetupStateIs
  <2>2. config.profile \in Profiles  BY <1>4, ConfigHas
  <2>3. row.status \in Statuses /\ row.profile \in Profiles /\ (row.config = None \/ IsConfig(row.config))
    BY DEF IsRow
  <2>4. Unless(row.status, "Draft") \in Statuses /\ Unless(row.status, "Active") \in Statuses
    BY <2>3 DEF Statuses
  <2>5. CASE Blocks(codes)
    BY <1>1, <1>2, <1>5, <2>1, <2>3, <2>4, <2>5 DEF IsRow
  <2>6. CASE ~Blocks(codes)
    BY <1>1, <1>2, <1>4, <1>5, <2>1, <2>2, <2>4, <2>6 DEF IsRow
  <2> QED  BY <2>5, <2>6
<1>9. new.codes = codes /\ new.state = SetupState(codes)  BY <1>5
<1>10. new.status = IF row.status = "Paused" THEN "Paused" ELSE IF Blocks(codes) THEN "Draft" ELSE "Active"
  BY <1>5
<1>11. new.config = row.config \/ Within(new.config, LowerLayers)
  BY <1>5, <1>7
<1> QED  BY <1>8, <1>9, <1>10, <1>11 DEF new

-----------------------------------------------------------------------------
(* What a refresh makes of the graph *)

\* What GraphFollowsContract says of a graph and a declaration.
Follows(g, d) ==
  LET joined == Linked(g, d)
  IN /\ {k \in DOMAIN g.nodes : g.nodes[k] = Current("declared")} = d.nodes
     /\ {row \in Effective(g) : row[2] = "declared" /\ g.edges[row] = "current"} = joined \X {"declared"}
     /\ \A row \in Effective(g) :
          (\E e \in joined : <<e[1], e[2]>> = <<row[1][1], row[1][2]>>) => row[1] \in joined

LEMMA StartingGraphs == IsGraph(Nothing) /\ IsGraph(Seeded)
<1>1. DOMAIN Empty = {}  BY DEF Empty
<1>2. IsGraph(Nothing)  BY <1>1 DEF IsGraph, Nothing
<1>3. IsGraph(Seeded)
  <2>1. /\ DOMAIN Seeded.edges = {<<Owns, "seed">>} /\ DOMAIN Seeded.nodes = {Root, Repo}
        /\ \A k \in {Root, Repo} : Seeded.nodes[k] = [source |-> "seed", freshness |-> "unknown"]
    BY DEF Seeded
  <2> QED  BY <2>1 DEF IsGraph
<1> QED  BY <1>2, <1>3

\* The nodes and edges of a refreshed graph, row by row.
LEMMA RefreshedIs ==
  ASSUME NEW g, NEW d
  PROVE  LET h == Refreshed(g, d)
         IN /\ DOMAIN h.nodes = d.nodes \cup {Root, Repo} \cup DOMAIN g.nodes
            /\ \A k \in DOMAIN h.nodes :
                 h.nodes[k] = IF k \in d.nodes THEN Current("declared")
                              ELSE IF k \in {Root, Repo} THEN Current("repo-metadata")
                              ELSE IF k \in Undeclared(g, d) THEN [g.nodes[k] EXCEPT !.freshness = "stale"]
                              ELSE g.nodes[k]
            /\ DOMAIN h.edges = (Linked(g, d) \X {"declared"}) \cup {<<Owns, "repo-metadata">>}
                                  \cup DOMAIN g.edges
            /\ \A row \in DOMAIN h.edges :
                 h.edges[row] = IF row \in Linked(g, d) \X {"declared"} THEN "current"
                                ELSE IF row = <<Owns, "repo-metadata">> THEN "current"
                                ELSE IF row \in Unlinked(g, d) THEN "stale" ELSE g.edges[row]
<1> DEFINE h == Refreshed(g, d)
           ns == [k \in DOMAIN g.nodes |->
                    IF k \in Undeclared(g, d) THEN [g.nodes[k] EXCEPT !.freshness = "stale"] ELSE g.nodes[k]]
           es == [row \in DOMAIN g.edges |-> IF row \in Unlinked(g, d) THEN "stale" ELSE g.edges[row]]
<1>1. /\ h.nodes = Over(DeclaredNodes(d), Over(OwnNodes, ns))
      /\ h.edges = Over(DeclaredEdges(g, d), Over(OwnEdge, es))
  BY DEF Refreshed
<1>2. /\ DOMAIN ns = DOMAIN g.nodes /\ DOMAIN es = DOMAIN g.edges
      /\ DOMAIN DeclaredNodes(d) = d.nodes /\ DOMAIN OwnNodes = {Root, Repo}
      /\ DOMAIN DeclaredEdges(g, d) = Linked(g, d) \X {"declared"}
      /\ DOMAIN OwnEdge = {<<Owns, "repo-metadata">>}
  BY DEF DeclaredNodes, OwnNodes, DeclaredEdges, OwnEdge
<1>3. \A k \in DOMAIN ns : ns[k] = IF k \in Undeclared(g, d) THEN [g.nodes[k] EXCEPT !.freshness = "stale"]
                                   ELSE g.nodes[k]
  OBVIOUS
<1>4. \A row \in DOMAIN es : es[row] = IF row \in Unlinked(g, d) THEN "stale" ELSE g.edges[row]
  OBVIOUS
<1>5. /\ \A k \in d.nodes : DeclaredNodes(d)[k] = Current("declared")
      /\ \A k \in {Root, Repo} : OwnNodes[k] = Current("repo-metadata")
      /\ \A row \in Linked(g, d) \X {"declared"} : DeclaredEdges(g, d)[row] = "current"
      /\ OwnEdge[<<Owns, "repo-metadata">>] = "current"
  BY DEF DeclaredNodes, OwnNodes, DeclaredEdges, OwnEdge
<1> HIDE DEF ns, es, h
<1>6. /\ DOMAIN h.nodes = d.nodes \cup {Root, Repo} \cup DOMAIN g.nodes
      /\ \A k \in DOMAIN h.nodes :
           h.nodes[k] = IF k \in d.nodes THEN Current("declared")
                        ELSE IF k \in {Root, Repo} THEN Current("repo-metadata")
                        ELSE ns[k]
  <2> DEFINE f == DeclaredNodes(d)
             o == OwnNodes
  <2>1. h.nodes = Over(f, Over(o, ns))  BY <1>1
  <2>2. DOMAIN f = d.nodes /\ DOMAIN o = {Root, Repo} /\ DOMAIN ns = DOMAIN g.nodes  BY <1>2
  <2>3. (\A k \in d.nodes : f[k] = Current("declared")) /\ \A k \in {Root, Repo} : o[k] = Current("repo-metadata")
    BY <1>5
  <2> HIDE DEF f, o
  <2>4. /\ DOMAIN h.nodes = DOMAIN f \cup DOMAIN o \cup DOMAIN ns
        /\ \A k \in DOMAIN f \cup DOMAIN o \cup DOMAIN ns :
             h.nodes[k] = IF k \in DOMAIN f THEN f[k] ELSE IF k \in DOMAIN o THEN o[k] ELSE ns[k]
    <3> DEFINE inner == Over(o, ns)
    <3>1. /\ DOMAIN inner = DOMAIN o \cup DOMAIN ns
          /\ \A k \in DOMAIN o \cup DOMAIN ns : inner[k] = IF k \in DOMAIN o THEN o[k] ELSE ns[k]
      BY ONLY DEF Over
    <3>2. h.nodes = Over(f, inner)  BY <2>1
    <3> HIDE DEF inner
    <3>3. /\ DOMAIN h.nodes = DOMAIN f \cup DOMAIN inner
          /\ \A k \in DOMAIN f \cup DOMAIN inner : h.nodes[k] = IF k \in DOMAIN f THEN f[k] ELSE inner[k]
      BY ONLY <3>2 DEF Over
    <3> QED  BY ONLY <3>1, <3>3
  <2> QED  BY <2>2, <2>3, <2>4
<1>7. /\ DOMAIN h.edges = (Linked(g, d) \X {"declared"}) \cup {<<Owns, "repo-metadata">>} \cup DOMAIN g.edges
      /\ \A row \in DOMAIN h.edges :
           h.edges[row] = IF row \in Linked(g, d) \X {"declared"} THEN "current"
                          ELSE IF row = <<Owns, "repo-metadata">> THEN "current"
                          ELSE es[row]
  <2> DEFINE f == DeclaredEdges(g, d)
             o == OwnEdge
             own == <<Owns, "repo-metadata">>
             declared == Linked(g, d) \X {"declared"}
  <2>1. h.edges = Over(f, Over(o, es))  BY <1>1
  <2>2. DOMAIN f = declared /\ DOMAIN o = {own} /\ DOMAIN es = DOMAIN g.edges  BY <1>2
  <2>3. (\A row \in declared : f[row] = "current") /\ o[own] = "current"
    BY <1>5
  <2> HIDE DEF f, o, own, declared
  <2>4. /\ DOMAIN h.edges = DOMAIN f \cup DOMAIN o \cup DOMAIN es
        /\ \A row \in DOMAIN f \cup DOMAIN o \cup DOMAIN es :
             h.edges[row] = IF row \in DOMAIN f THEN f[row] ELSE IF row \in DOMAIN o THEN o[row] ELSE es[row]
    <3> DEFINE inner == Over(o, es)
    <3>1. /\ DOMAIN inner = DOMAIN o \cup DOMAIN es
          /\ \A row \in DOMAIN o \cup DOMAIN es : inner[row] = IF row \in DOMAIN o THEN o[row] ELSE es[row]
      BY ONLY DEF Over
    <3>2. h.edges = Over(f, inner)  BY <2>1
    <3> HIDE DEF inner
    <3>3. /\ DOMAIN h.edges = DOMAIN f \cup DOMAIN inner
          /\ \A row \in DOMAIN f \cup DOMAIN inner : h.edges[row] = IF row \in DOMAIN f THEN f[row] ELSE inner[row]
      BY ONLY <3>2 DEF Over
    <3> QED  BY ONLY <3>1, <3>3
  <2>5. /\ DOMAIN h.edges = declared \cup {own} \cup DOMAIN g.edges
        /\ \A row \in DOMAIN h.edges :
             h.edges[row] = IF row \in declared THEN "current" ELSE IF row = own THEN "current" ELSE es[row]
    BY <2>2, <2>3, <2>4
  <2> QED  BY <2>5 DEF declared, own
<1>8. \A k \in DOMAIN h.nodes :
        h.nodes[k] = IF k \in d.nodes THEN Current("declared")
                     ELSE IF k \in {Root, Repo} THEN Current("repo-metadata")
                     ELSE IF k \in Undeclared(g, d) THEN [g.nodes[k] EXCEPT !.freshness = "stale"]
                     ELSE g.nodes[k]
  BY <1>2, <1>3, <1>6
<1>9. \A row \in DOMAIN h.edges :
        h.edges[row] = IF row \in Linked(g, d) \X {"declared"} THEN "current"
                       ELSE IF row = <<Owns, "repo-metadata">> THEN "current"
                       ELSE IF row \in Unlinked(g, d) THEN "stale" ELSE g.edges[row]
  BY <1>2, <1>4, <1>7
<1> QED  BY <1>6, <1>7, <1>8, <1>9 DEF h

LEMMA RefreshedFollows ==
  ASSUME NEW g, NEW d, IsGraph(g)
  PROVE  IsGraph(Refreshed(g, d)) /\ Follows(Refreshed(g, d), d)
<1> DEFINE h == Refreshed(g, d)
           joined == Linked(g, d)
<1>1. /\ DOMAIN h.nodes = d.nodes \cup {Root, Repo} \cup DOMAIN g.nodes
      /\ \A k \in DOMAIN h.nodes :
           h.nodes[k] = IF k \in d.nodes THEN Current("declared")
                        ELSE IF k \in {Root, Repo} THEN Current("repo-metadata")
                        ELSE IF k \in Undeclared(g, d) THEN [g.nodes[k] EXCEPT !.freshness = "stale"]
                        ELSE g.nodes[k]
      /\ DOMAIN h.edges = (joined \X {"declared"}) \cup {<<Owns, "repo-metadata">>} \cup DOMAIN g.edges
      /\ \A row \in DOMAIN h.edges :
           h.edges[row] = IF row \in joined \X {"declared"} THEN "current"
                          ELSE IF row = <<Owns, "repo-metadata">> THEN "current"
                          ELSE IF row \in Unlinked(g, d) THEN "stale" ELSE g.edges[row]
  BY RefreshedIs
<1>2. Linked(h, d) = joined
  BY <1>1 DEF Linked
<1> HIDE DEF h, joined
<1>3. IsGraph(h)
  <2>1. ASSUME NEW k \in DOMAIN h.nodes
        PROVE  h.nodes[k] = [source |-> h.nodes[k].source, freshness |-> h.nodes[k].freshness]
    <3>1. k \in DOMAIN g.nodes =>
            g.nodes[k] = [source |-> g.nodes[k].source, freshness |-> g.nodes[k].freshness]
      BY DEF IsGraph
    <3>2. k \in DOMAIN g.nodes =>
            [g.nodes[k] EXCEPT !.freshness = "stale"] = [source |-> g.nodes[k].source, freshness |-> "stale"]
      BY <3>1
    <3> QED  BY <1>1, <2>1, <3>1, <3>2 DEF Current
  <2>2. ASSUME NEW row \in DOMAIN h.edges
        PROVE  row = <<row[1], row[2]>> /\ row[2] \in {"declared", "repo-metadata", "seed"}
    BY <1>1, <2>2 DEF IsGraph
  <2> QED  BY <2>1, <2>2 DEF IsGraph
<1>4. {k \in DOMAIN h.nodes : h.nodes[k] = Current("declared")} = d.nodes
  <2>1. ASSUME NEW k \in DOMAIN h.nodes, h.nodes[k] = Current("declared") PROVE k \in d.nodes
    <3>1. Current("declared").source = "declared" /\ Current("declared").freshness = "current"
          /\ Current("repo-metadata").source = "repo-metadata"
      BY DEF Current
    <3> SUFFICES ASSUME k \notin d.nodes PROVE FALSE
      OBVIOUS
    <3>2. k \notin {Root, Repo} /\ k \in DOMAIN g.nodes  BY <1>1, <2>1, <3>1
    <3>3. k \in Undeclared(g, d) \/ g.nodes[k].source # "declared"  BY <3>2 DEF Undeclared
    <3>4. g.nodes[k] = [source |-> g.nodes[k].source, freshness |-> g.nodes[k].freshness]
      BY <3>2 DEF IsGraph
    <3>5. [g.nodes[k] EXCEPT !.freshness = "stale"].freshness = "stale"  BY <3>4
    <3> QED  BY <1>1, <2>1, <3>1, <3>2, <3>3, <3>5
  <2> QED  BY <1>1, <2>1
\* A declared edge is current exactly when its nodes are there.
<1>5. \A row \in DOMAIN h.edges : row[2] = "declared" =>
        (h.edges[row] # "stale" <=> row[1] \in joined)
  <2> SUFFICES ASSUME NEW row \in DOMAIN h.edges, row[2] = "declared"
               PROVE  h.edges[row] # "stale" <=> row[1] \in joined
    OBVIOUS
  <2>1. row = <<row[1], "declared">>  BY <1>3 DEF IsGraph
  <2>2. row # <<Owns, "repo-metadata">>  BY <2>1
  <2>3. row \in joined \X {"declared"} <=> row[1] \in joined  BY <2>1
  <2>4. row[1] \notin joined => row \in Unlinked(g, d)
    BY <1>1, <2>2, <2>3 DEF Unlinked, joined
  <2> QED  BY <1>1, <2>2, <2>3, <2>4
<1>6. \A e \in joined : <<e, "declared">> \in DOMAIN h.edges /\ h.edges[<<e, "declared">>] = "current"
  BY <1>1
<1>7. \A row \in DOMAIN h.edges :
        /\ Priority(row[2]) \in Int /\ Priority(row[2]) <= 300
        /\ Priority(row[2]) = 300 <=> row[2] = "declared"
  BY <1>3 DEF IsGraph, Priority
<1>8. ASSUME NEW row \in DOMAIN h.edges, NEW e \in joined, <<e[1], e[2]>> = <<row[1][1], row[1][2]>>
      PROVE  row \in Effective(h) <=> row[2] = "declared" /\ row[1] \in joined
  <2> DEFINE best == <<e, "declared">>
             between == {r \in DOMAIN h.edges : <<r[1][1], r[1][2]>> = <<row[1][1], row[1][2]>>}
             fresh == {r \in between : h.edges[r] # "stale"}
  <2>1. best \in DOMAIN h.edges /\ h.edges[best] = "current" /\ best[1] = e /\ best[2] = "declared"
    BY <1>6
  <2>2. best \in fresh  BY <1>8, <2>1
  <2>3. Candidates(h, row) = fresh  BY <2>2 DEF Candidates
  <2> HIDE DEF best
  <2>4. row \in Effective(h) <=> row \in fresh /\ \A r \in fresh : Priority(r[2]) <= Priority(row[2])
    BY <2>3 DEF Effective
  <2>5. row \in fresh <=> h.edges[row] # "stale"  OBVIOUS
  <2>6. ASSUME row \in Effective(h) PROVE row[2] = "declared" /\ row[1] \in joined
    <3>1. Priority(row[2]) = 300  BY <1>7, <2>1, <2>2, <2>4, <2>6
    <3> QED  BY <1>5, <1>7, <2>4, <2>5, <2>6, <3>1
  <2>7. ASSUME row[2] = "declared", row[1] \in joined PROVE row \in Effective(h)
    <3>1. row \in fresh  BY <1>5, <2>5, <2>7
    <3>2. \A r \in fresh : Priority(r[2]) <= Priority(row[2])  BY <1>7, <2>7
    <3> QED  BY <2>4, <3>1, <3>2
  <2> QED  BY <2>6, <2>7
<1>9. {row \in Effective(h) : row[2] = "declared" /\ h.edges[row] = "current"} = joined \X {"declared"}
  <2>1. Effective(h) \subseteq DOMAIN h.edges  BY DEF Effective
  <2>2. ASSUME NEW row \in Effective(h), row[2] = "declared", h.edges[row] = "current"
        PROVE  row \in joined \X {"declared"}
    <3>1. row[1] \in joined  BY <1>5, <2>1, <2>2
    <3>2. row = <<row[1], row[2]>>  BY <1>3, <2>1 DEF IsGraph
    <3> QED  BY <2>2, <3>1, <3>2
  <2>3. ASSUME NEW e \in joined PROVE <<e, "declared">> \in Effective(h)
    <3>1. <<e, "declared">> \in DOMAIN h.edges /\ <<e, "declared">>[1] = e /\ <<e, "declared">>[2] = "declared"
      BY <1>6
    <3> QED  BY <1>8, <3>1
  <2>4. joined \X {"declared"} \subseteq {row \in Effective(h) : row[2] = "declared" /\ h.edges[row] = "current"}
    BY <1>6, <2>3
  <2> QED  BY <2>2, <2>4
<1>10. \A row \in Effective(h) :
         (\E e \in joined : <<e[1], e[2]>> = <<row[1][1], row[1][2]>>) => row[1] \in joined
  BY <1>8 DEF Effective
<1> QED  BY <1>2, <1>3, <1>4, <1>9, <1>10 DEF h, Follows

-----------------------------------------------------------------------------
(* What other requests make of a row *)

LEMMA RowWithStatus ==
  ASSUME NEW row, IsRow(row), NEW status \in Statuses
  PROVE  LET r == [row EXCEPT !.status = status]
         IN IsRow(r) /\ r.status = status /\ r.state = row.state /\ r.codes = row.codes
            /\ r.config = row.config
<1> DEFINE r == [row EXCEPT !.status = status]
<1>0. DOMAIN row = {"status", "state", "codes", "overrides", "config", "profile"}  BY DEF IsRow
<1>1. row = [status |-> row.status, state |-> row.state, codes |-> row.codes,
             overrides |-> row.overrides, config |-> row.config, profile |-> row.profile]
  BY DEF IsRow
<1>2. r = [status |-> status, state |-> row.state, codes |-> row.codes,
           overrides |-> row.overrides, config |-> row.config, profile |-> row.profile]
  BY <1>0, <1>1
<1> HIDE DEF r
<1>3. /\ r.status = status /\ r.state = row.state /\ r.codes = row.codes
      /\ r.overrides = row.overrides /\ r.config = row.config /\ r.profile = row.profile
  BY <1>2
<1>4. IsRow(r)  BY <1>2, <1>3 DEF IsRow
<1> QED  BY <1>3, <1>4 DEF r

\* A row with other diagnostics and setup state.
Diagnosed(row, codes, state) == [row EXCEPT !.codes = codes, !.state = state]

LEMMA RowWithCodes ==
  ASSUME NEW row, IsRow(row), NEW state \in SetupStates, NEW codes \in SUBSET Codes
  PROVE  LET r == Diagnosed(row, codes, state)
         IN IsRow(r) /\ r.status = row.status /\ r.state = state /\ r.codes = codes
            /\ r.config = row.config
<1> USE DEF Diagnosed
<1> DEFINE r == Diagnosed(row, codes, state)
<1>1. DOMAIN row = {"status", "state", "codes", "overrides", "config", "profile"}  BY DEF IsRow
<1>2. r = [x \in {"status", "state", "codes", "overrides", "config", "profile"} |-> r[x]]
  BY <1>1
<1>3. /\ r.status = row.status /\ r.state = state /\ r.codes = codes
      /\ r.overrides = row.overrides /\ r.config = row.config /\ r.profile = row.profile
  BY <1>1
<1> HIDE DEF r
<1>4. r = [status |-> r.status, state |-> r.state, codes |-> r.codes,
           overrides |-> r.overrides, config |-> r.config, profile |-> r.profile]
  BY <1>2
<1>5. IsRow(r)  BY <1>3, <1>4 DEF IsRow
<1> QED  BY <1>3, <1>5 DEF r

\* Neither pending refreshes nor the webhook's diagnostics block.
LEMMA OtherCodes ==
  ASSUME NEW codes, NEW more, more \subseteq MirrorCodes
  PROVE  /\ Blocks(codes \cup {Pending}) <=> Blocks(codes)
         /\ ~Blocks(codes) => SetupState(codes \cup {Pending}) = "drift"
         /\ Blocks((codes \ MirrorCodes) \cup more) <=> Blocks(codes)
         /\ Pending \in codes => Pending \in (codes \ MirrorCodes) \cup more
         /\ PullPending \in codes => PullPending \in (codes \ MirrorCodes) \cup more /\ Blocks(codes)
         /\ {Pending} \cup more \subseteq Codes
BY DEF Blocks, SetupState, Blocking, Recoverable, MirrorCodes, Pending, PullPending, Codes

LEMMA ScheduledIs ==
  ASSUME NEW row, IsRow(row)
  PROVE  LET new == Scheduled(row)
         IN /\ IsRow(new) /\ new.status = row.status /\ new.config = row.config
            /\ Pending \in new.codes
            /\ \A known \in BOOLEAN : SetUp(row, known) => SetUp(new, known)
            /\ Waits(row) => Waits(new)
<1> DEFINE codes == row.codes \cup {Pending}
           state == IF row.state = "setup-needed" THEN row.state ELSE "drift"
           new == [row EXCEPT !.codes = codes, !.state = state]
<1>1. codes \in SUBSET Codes /\ state \in SetupStates
  BY OtherCodes DEF IsRow, SetupStates
<1>2. Scheduled(row) = new
  <2>1. row = [status |-> row.status, state |-> row.state, codes |-> row.codes,
               overrides |-> row.overrides, config |-> row.config, profile |-> row.profile]
    BY DEF IsRow
  <2> QED  BY <2>1 DEF Scheduled
<1>3. IsRow(new) /\ new.status = row.status /\ new.config = row.config /\ new.codes = codes /\ new.state = state
  <2> DEFINE r == Diagnosed(row, codes, state)
  <2>1. new = r  BY DEF Diagnosed
  <2> HIDE DEF codes, state, new
  <2>2. IsRow(r) /\ r.status = row.status /\ r.state = state /\ r.codes = codes /\ r.config = row.config
    BY <1>1, RowWithCodes
  <2> HIDE DEF r
  <2> QED  BY <2>1, <2>2
<1> HIDE DEF new
<1>4. Blocks(codes) <=> Blocks(row.codes)  BY OtherCodes
<1>5. ~Blocks(row.codes) => SetupState(codes) = "drift"  BY OtherCodes
<1>6. ASSUME NEW known \in BOOLEAN, SetUp(row, known) PROVE SetUp(new, known)
  <2>1. known => (Blocks(row.codes) <=> row.state = "setup-needed")
    BY <1>6, SetupStateIs DEF SetUp
  <2>2. Blocks(codes) => SetupState(codes) = "setup-needed"  BY SetupStateIs
  <2> QED  BY <1>3, <1>4, <1>5, <1>6, <2>1, <2>2 DEF SetUp
<1>7. Waits(row) => Waits(new)  BY <1>3 DEF Waits
<1> QED  BY <1>2, <1>3, <1>6, <1>7

LEMMA MirroredIs ==
  ASSUME NEW row, IsRow(row), NEW more, more \subseteq MirrorCodes
  PROVE  LET new == Mirrored(row, more)
         IN /\ IsRow(new) /\ new.status = row.status /\ new.config = row.config
            /\ row.codes \cap {Pending, PullPending} # {} => new.codes \cap {Pending, PullPending} # {}
            /\ SetUp(row, FALSE) => SetUp(new, TRUE)
            /\ Waits(row) => Waits(new)
<1> DEFINE codes == (row.codes \ MirrorCodes) \cup more
           state == SetupState(codes)
           new == [row EXCEPT !.codes = codes, !.state = state]
<1>1. codes \in SUBSET Codes /\ state \in SetupStates
  <2>1. codes \in SUBSET Codes  BY OtherCodes DEF IsRow
  <2> QED  BY <2>1, SetupStateIs
<1>2. Mirrored(row, more) = new  BY DEF Mirrored
<1>3. IsRow(new) /\ new.status = row.status /\ new.config = row.config /\ new.codes = codes /\ new.state = state
  <2> DEFINE r == Diagnosed(row, codes, state)
  <2>1. new = r  BY DEF Diagnosed
  <2> HIDE DEF codes, state, new
  <2>2. IsRow(r) /\ r.status = row.status /\ r.state = state /\ r.codes = codes /\ r.config = row.config
    BY <1>1, RowWithCodes
  <2> HIDE DEF r
  <2> QED  BY <2>1, <2>2
<1> HIDE DEF new
<1>4. Blocks(codes) <=> Blocks(row.codes)  BY OtherCodes
<1>5. SetUp(row, FALSE) => SetUp(new, TRUE)  BY <1>3, <1>4, SetupStateIs DEF SetUp
<1>6. Waits(row) => Waits(new)
  <2>1. Waits(row) => PullPending \in codes /\ Blocks(codes)  BY <1>4, OtherCodes DEF Waits
  <2> QED  BY <1>3, <2>1, SetupStateIs DEF Waits
<1>7. row.codes \cap {Pending, PullPending} # {} => codes \cap {Pending, PullPending} # {}
  BY OtherCodes
<1> QED  BY <1>2, <1>3, <1>5, <1>6, <1>7

\* Nothing is lost when the row is still the loaded one.
LEMMA WrittenSame ==
  ASSUME NEW row, NEW new, IsRow(row), IsRow(new)
  PROVE  Written(row, row, new) = new
<1> DEFINE w == Written(row, row, new)
<1>1. /\ IsRow(w)
      /\ \A column \in {"status", "state", "codes", "overrides", "config", "profile"} :
           w[column] = IF new[column] = row[column] THEN row[column] ELSE new[column]
  BY WrittenIsRow
<1> HIDE DEF w
<1>2. /\ w.status = new.status /\ w.state = new.state /\ w.codes = new.codes
      /\ w.overrides = new.overrides /\ w.config = new.config /\ w.profile = new.profile
  BY <1>1
<1>3. /\ w = [status |-> w.status, state |-> w.state, codes |-> w.codes,
              overrides |-> w.overrides, config |-> w.config, profile |-> w.profile]
      /\ new = [status |-> new.status, state |-> new.state, codes |-> new.codes,
                overrides |-> new.overrides, config |-> new.config, profile |-> new.profile]
  BY <1>1 DEF IsRow
<1> QED  BY <1>2, <1>3 DEF w

-----------------------------------------------------------------------------
(* Every step keeps the invariant *)

LEMMA SettingsAre ==
  ASSUME NEW p \in PlatformDefaults, NEW o \in OrgDefaults
  PROVE  IsSettings([platform |-> p, org |-> o])
BY EmptyIsLayer, ConstantsAssumption DEF ConstantsAssumption, IsSettings, Layer

LEMMA InitHolds == Init => IInv
<1> SUFFICES ASSUME Init PROVE IInv
  OBVIOUS
<1> USE DEF Init, ContractInit
<1>1. PICK c \in Contents :
        /\ github = [head |-> c, hook |-> FALSE, pushes |-> 0, archived |-> FALSE,
                     pull |-> None, protected |-> FALSE, projects |-> 0]
        /\ published = {c}
  OBVIOUS
<1>2. IsRemote(github) /\ github.head \in published
  BY <1>1, ConstantsAssumption DEF ConstantsAssumption, IsRemote
<1>3. IsSettings(settings)  BY EmptyIsLayer DEF IsSettings, Layer
<1>4. IsTx(NoTx) /\ NoTx.at = "idle" /\ IsSeed(NoSeed) /\ NoSeed.at = "idle"
      /\ NoJob.product = FALSE /\ NoJob.status = "none"
  BY DEF IsTx, NoTx, IsSeed, NoSeed, Placed, NoJob
<1>5. Types  BY <1>2, <1>3, <1>4, StartingGraphs DEF Types
<1>6. Exclusive  BY <1>4 DEF Exclusive, InRows
<1>7. Loaded(refresh) /\ Loaded(mirror) /\ Guarded  BY <1>4 DEF Loaded, Guarded
<1>8. SeedsPublish  BY <1>2, <1>4 DEF SeedsPublish, Placed
<1>9. Told /\ ContractIsCurrent /\ GraphFollowsContract
  BY <1>4 DEF Told, ContractIsCurrent, GraphFollowsContract, Placed
<1> QED  BY <1>5, <1>6, <1>7, <1>8, <1>9 DEF IInv

\* A request that changes status or diagnostics of the row at once.
LEMMA AtOnceKeeps ==
  ASSUME IInv, product # None, crossed' = (crossed \/ Refreshing), NEW row, product' = row, IsRow(row),
         NEW g, github' = g, IsRemote(g), g.head = github.head,
         g.pushes = github.pushes \/ Pending \in row.codes,
         NEW kept, repo' = kept, "adoption" \in DOMAIN kept, kept.adoption = repo.adoption,
         \A known \in BOOLEAN : SetUp(product, known) => SetUp(row, known),
         product.codes \cap {Pending, PullPending} # {} => row.codes \cap {Pending, PullPending} # {},
         Waits(product) => Waits(row),
         UNCHANGED <<settings, graph, refresh, mirror, read, published, unheard, seeds, jobs>>
  PROVE  IInv'
<1> USE DEF IInv
<1>1. row # None  BY NoneIsNoRow
<1>2. Types'  BY <1>1 DEF Types
<1>3. Exclusive'  BY <1>1 DEF Exclusive
<1>4. Loaded(refresh)' /\ Loaded(mirror)'  BY DEF Loaded, Refreshing
<1>5. Guarded'
  <2>1. (read # None) \in BOOLEAN  OBVIOUS
  <2> QED  BY <2>1 DEF Guarded
<1>6. SeedsPublish'  BY DEF SeedsPublish
<1>7. Told'  BY <1>1 DEF Told, Refreshing
<1>8. ContractIsCurrent'  BY DEF ContractIsCurrent
<1>9. GraphFollowsContract'  BY DEF GraphFollowsContract
<1> QED  BY <1>2, <1>3, <1>4, <1>5, <1>6, <1>7, <1>8, <1>9

\* A step of a seed, of GitHub or of an operator that leaves the product alone.
LEMMA BesidesKeeps ==
  ASSUME IInv, UNCHANGED <<product, repo, graph, refresh, mirror, read, crossed>>,
         NEW g, github' = g, IsRemote(g), IsSettings(settings'),
         published \subseteq published', g.head \in published',
         product # None =>
           unheard' \/ (~unheard /\ (g.pushes > 0 \/ (g.head = github.head /\ g.pushes = github.pushes))),
         NEW ss, seeds' = ss, DOMAIN ss = Seeds, \A o \in Seeds : IsSeed(ss[o]),
         \A o \in Seeds : ss[o].at \in InRows => product = None,
         \A o, p \in Seeds : ss[o].at \in InRows /\ ss[p].at \in InRows => o = p,
         \A o \in Seeds : ss[o].at \in Placed /\ ~ss[o].pull => ss[o].bundle \in published',
         product = None /\ ~unheard' =>
           \A o \in Seeds : ss[o].at \in Placed => ss[o].pull \/ ss[o].bundle = g.head \/ g.pushes > 0,
         NEW js, jobs' = js, DOMAIN js = Seeds, \A o \in Seeds : DOMAIN js[o] = DOMAIN NoJob,
         \A o \in Seeds : js[o].product => jobs[o].product,
         \A o \in Seeds : js[o].status = "Succeeded" =>
           jobs[o].status = "Succeeded" /\ js[o].bundle = jobs[o].bundle
  PROVE  IInv'
<1> USE DEF IInv
<1>1. Types'  BY DEF Types
<1>2. Exclusive'  BY DEF Exclusive
<1>3. Loaded(refresh)' /\ Loaded(mirror)' /\ Guarded'  BY DEF Loaded, Guarded
<1>4. SeedsPublish'
  <2>1. \A o \in Seeds : jobs'[o].status = "Succeeded" => jobs'[o].bundle \in published'
    BY DEF SeedsPublish
  <2> QED  BY <2>1 DEF SeedsPublish
<1>5. Told'
  <2>1. refresh.at = "read" => product # None  BY DEF Exclusive
  <2>2. g.pushes \in Nat /\ github.pushes \in Nat  BY DEF Types, IsRemote
  <2> QED  BY <2>1, <2>2 DEF Told
<1>6. ContractIsCurrent'  BY DEF ContractIsCurrent
<1>7. GraphFollowsContract'  BY DEF GraphFollowsContract
<1> QED  BY <1>1, <1>2, <1>3, <1>4, <1>5, <1>6, <1>7

\* One that no seed makes, either.
LEMMA WorldKeeps ==
  ASSUME IInv, UNCHANGED <<product, repo, graph, refresh, mirror, read, crossed, seeds, jobs>>,
         NEW g, github' = g, IsRemote(g), IsSettings(settings'),
         published \subseteq published', g.head \in published',
         unheard' \/ (~unheard /\ (g.pushes > 0 \/ (g.head = github.head /\ g.pushes = github.pushes)))
  PROVE  IInv'
<1> USE DEF IInv
<1>1. /\ DOMAIN seeds = Seeds /\ \A o \in Seeds : IsSeed(seeds[o])
      /\ DOMAIN jobs = Seeds /\ \A o \in Seeds : DOMAIN jobs[o] = DOMAIN NoJob
  BY DEF Types
<1>2. /\ \A o \in Seeds : seeds[o].at \in InRows => product = None
      /\ \A o, p \in Seeds : seeds[o].at \in InRows /\ seeds[p].at \in InRows => o = p
  BY DEF Exclusive
<1>3. \A o \in Seeds : seeds[o].at \in Placed /\ ~seeds[o].pull => seeds[o].bundle \in published'
  BY DEF SeedsPublish
<1>4. product = None /\ ~unheard' =>
        \A o \in Seeds : seeds[o].at \in Placed =>
          seeds[o].pull \/ seeds[o].bundle = g.head \/ g.pushes > 0
  BY DEF Told
<1>5. product # None =>
        unheard' \/ (~unheard /\ (g.pushes > 0 \/ (g.head = github.head /\ g.pushes = github.pushes)))
  OBVIOUS
<1> QED  BY <1>1, <1>2, <1>3, <1>4, <1>5, BesidesKeeps

\* A step of a refresh that writes nothing.
LEMMA LoadingKeeps ==
  ASSUME IInv, UNCHANGED <<product, repo, graph, settings, read, published, unheard, crossed, seeds, jobs>>,
         NEW g, github' = g, IsRemote(g), g.head = github.head, g.pushes = github.pushes,
         NEW r, refresh' = r, IsTx(r), Loaded(r),
         NEW m, mirror' = m, IsTx(m), Loaded(m),
         r.at # "idle" \/ m.at # "idle" => product # None,
         r.at = "read" /\ ~crossed /\ ~unheard => r.content = github.head \/ github.pushes > 0,
         m.at # "idle" => m.product = product \/ m = mirror
  PROVE  IInv'
<1> USE DEF IInv
<1>1. Types'  BY DEF Types
<1>2. Exclusive'  BY DEF Exclusive
<1>3. Loaded(refresh)' /\ Loaded(mirror)' /\ Guarded'  BY DEF Loaded, Guarded
<1>4. SeedsPublish'  BY DEF SeedsPublish
<1>5. Told'  BY DEF Told
<1>6. ContractIsCurrent'  BY DEF ContractIsCurrent
<1>7. GraphFollowsContract'  BY DEF GraphFollowsContract
<1> QED  BY <1>1, <1>2, <1>3, <1>4, <1>5, <1>6, <1>7

\* A contract is read, and the product's row and its graph are what it makes of them.
LEMMA ReadingKeeps ==
  ASSUME IInv, IsGraph(graph'), Follows(graph', Declared(read'.contract)),
         IsRow(product'), ~crossed' => SetUp(product', TRUE), "adoption" \in DOMAIN repo',
         UNCHANGED <<github, settings, published>>,
         IsTx(refresh'), ~crossed' /\ refresh'.at # "idle" => refresh'.product = product',
         IsTx(mirror'), ~crossed' /\ mirror'.at # "idle" => mirror'.product = product',
         refresh'.at = "read" /\ ~crossed' /\ ~unheard' =>
           refresh'.content = github.head \/ github.pushes > 0,
         read'.from = "bundle" /\ read'.contract \notin published => Waits(product') /\ mirror'.at = "idle",
         ~crossed' /\ ~unheard' =>
           \/ read'.contract = github.head \/ github.pushes > 0
           \/ product'.codes \cap {Pending, PullPending} # {},
         DOMAIN seeds' = Seeds, \A o \in Seeds : IsSeed(seeds'[o]) /\ seeds'[o].at \notin InRows,
         \A o \in Seeds : seeds'[o].at \in Placed /\ ~seeds'[o].pull => seeds'[o].bundle \in published,
         DOMAIN jobs' = Seeds, \A o \in Seeds : DOMAIN jobs'[o] = DOMAIN NoJob,
         \A o \in Seeds : jobs'[o].product => repo'.adoption = "seeded",
         \A o, p \in Seeds : jobs'[o].product /\ jobs'[p].product => o = p,
         \A o \in Seeds : jobs'[o].status = "Succeeded" => jobs'[o].bundle \in published
  PROVE  IInv'
<1> USE DEF IInv
<1>1. product' # None  BY NoneIsNoRow
<1>3. Types'  BY <1>1 DEF Types
<1>4. Exclusive'  BY <1>1 DEF Exclusive
<1>5. Loaded(refresh)' /\ Loaded(mirror)'  BY DEF Loaded
<1>6. Guarded'
  <2>1. SetUp(product', TRUE) => \A known \in BOOLEAN : SetUp(product', known)  BY DEF SetUp
  <2>2. (read' # None) \in BOOLEAN  OBVIOUS
  <2> QED  BY <2>1, <2>2 DEF Guarded
<1>8. SeedsPublish'  BY DEF SeedsPublish
<1>9. Told'  BY <1>1 DEF Told
<1>10. ContractIsCurrent'  BY DEF ContractIsCurrent
<1>11. GraphFollowsContract'  BY DEF GraphFollowsContract, Follows
<1> QED  BY <1>3, <1>4, <1>5, <1>6, <1>8, <1>9, <1>10, <1>11

-----------------------------------------------------------------------------
(* Steps of ProductContract *)

LEMMA PauseKeeps == ASSUME IInv, Pause, UNCHANGED <<seeds, jobs>> PROVE IInv'
<1> DEFINE row == [product EXCEPT !.status = "Paused"]
<1>1. IsRow(product) /\ product # None /\ IsRemote(github) /\ "adoption" \in DOMAIN repo
  BY DEF IInv, Types, Pause, AtOnce
<1>2. IsRow(row) /\ row.status = "Paused" /\ row.state = product.state /\ row.codes = product.codes
  BY <1>1, RowWithStatus DEF Statuses
<1>3. product' = row /\ crossed' = (crossed \/ Refreshing)  BY DEF Pause, AtOnce
<1> HIDE DEF row
<1>4. \A known \in BOOLEAN : SetUp(product, known) => SetUp(row, known)  BY <1>2 DEF SetUp
<1>5. Waits(product) => Waits(row)  BY <1>2 DEF Waits
<1>6. UNCHANGED <<github, repo, settings, graph, refresh, mirror, read, published, unheard>>
  BY DEF Pause
<1> QED  BY <1>1, <1>2, <1>3, <1>4, <1>5, <1>6, AtOnceKeeps

\* Only a product whose diagnostics do not block is resumed.
LEMMA ResumeKeeps == ASSUME IInv, Resume, UNCHANGED <<seeds, jobs>> PROVE IInv'
<1> DEFINE row == [product EXCEPT !.status = "Active"]
<1>1. IsRow(product) /\ product # None /\ IsRemote(github) /\ "adoption" \in DOMAIN repo
  BY DEF IInv, Types, Resume, AtOnce
<1>2. IsRow(row) /\ row.status = "Active" /\ row.state = product.state /\ row.codes = product.codes
  BY <1>1, RowWithStatus DEF Statuses
<1>3. /\ product' = row /\ crossed' = (crossed \/ Refreshing)
      /\ product.state # "setup-needed"
  BY DEF Resume, AtOnce
<1> HIDE DEF row
<1>4. \A known \in BOOLEAN : SetUp(product, known) => SetUp(row, known)  BY <1>2, <1>3 DEF SetUp
<1>5. Waits(product) => Waits(row)  BY <1>2, <1>3 DEF Waits
<1>6. UNCHANGED <<github, repo, settings, graph, refresh, mirror, read, published, unheard>>
  BY DEF Resume
<1> QED  BY <1>1, <1>2, <1>3, <1>4, <1>5, <1>6, AtOnceKeeps

\* GitHub's payload keeps what this code knows of adoption.
LEMMA ForgottenIs ==
  ASSUME "adoption" \in DOMAIN repo
  PROVE  "adoption" \in DOMAIN Forgotten /\ Forgotten.adoption = repo.adoption
BY DEF Forgotten

LEMMA DeliverEventKeeps ==
  ASSUME IInv, NEW edited \in BOOLEAN, DeliverEvent(edited), UNCHANGED <<seeds, jobs>>
  PROVE  IInv'
<1> DEFINE row == IF edited THEN Scheduled(product) ELSE product
<1>1. IsRow(product) /\ product # None /\ IsRemote(github) /\ "adoption" \in DOMAIN repo
  BY DEF IInv, Types, DeliverEvent, AtOnce
<1>2. /\ IsRow(row) /\ \A known \in BOOLEAN : SetUp(product, known) => SetUp(row, known)
      /\ Waits(product) => Waits(row)
      /\ product.codes \cap {Pending, PullPending} # {} => row.codes \cap {Pending, PullPending} # {}
  BY <1>1, ScheduledIs
<1>3. product' = row /\ repo' = Forgotten /\ crossed' = (crossed \/ Refreshing)
  BY DEF DeliverEvent, AtOnce
<1> HIDE DEF row
<1>4. UNCHANGED <<github, settings, graph, refresh, mirror, read, published, unheard>>
  BY DEF DeliverEvent
<1> QED  BY <1>1, <1>2, <1>3, <1>4, ForgottenIs, AtOnceKeeps

LEMMA DeliverPushKeeps == ASSUME IInv, DeliverPush, UNCHANGED <<seeds, jobs>> PROVE IInv'
<1> DEFINE g == [github EXCEPT !.pushes = @ - 1]
<1>1. IsRemote(github) /\ github.pushes > 0  BY DEF IInv, Types, DeliverPush
<1>2. IsRemote(g) /\ g.head = github.head  BY <1>1 DEF IsRemote
<1>3. github' = g /\ UNCHANGED <<settings, graph, refresh, mirror, read, published>>
  BY DEF DeliverPush
<1> HIDE DEF g
<1>4. CASE product = None
  <2>1. unheard' = TRUE /\ UNCHANGED <<product, repo, crossed>>  BY <1>4 DEF DeliverPush
  <2>2. IsSettings(settings') /\ g.head \in published' /\ published \subseteq published'
    BY <1>2, <1>3 DEF IInv, Types, SeedsPublish
  <2> QED  BY <1>2, <1>3, <1>4, <2>1, <2>2, WorldKeeps
<1>5. CASE product # None
  <2>1. product' = Scheduled(product) /\ repo' = Forgotten /\ crossed' = (crossed \/ Refreshing) /\ UNCHANGED unheard
    BY <1>5 DEF DeliverPush
  <2>2. IsRow(product) /\ "adoption" \in DOMAIN repo  BY <1>5 DEF IInv, Types
  <2>3. /\ IsRow(Scheduled(product)) /\ Pending \in Scheduled(product).codes
        /\ \A known \in BOOLEAN : SetUp(product, known) => SetUp(Scheduled(product), known)
        /\ Waits(product) => Waits(Scheduled(product))
    BY <2>2, ScheduledIs
  <2> QED  BY <1>2, <1>3, <1>5, <2>1, <2>2, <2>3, ForgottenIs, AtOnceKeeps
<1> QED  BY <1>4, <1>5

LEMMA MovedKeeps ==
  ASSUME IInv, NEW c, IsLayer(c.layer), Moved(c), UNCHANGED <<seeds, jobs>>
  PROVE  IInv'
<1> DEFINE pull == IF github.pull = c THEN None ELSE github.pull
           pushes == github.pushes + IF github.hook THEN 1 ELSE 0
           g == [github EXCEPT !.head = c, !.pull = pull, !.pushes = pushes]
<1>1. IsRemote(github)  BY DEF IInv, Types
<1>2. github' = g
  BY <1>1 DEF Moved, IsRemote
<1>3. pushes \in Nat /\ (github.hook => pushes > 0) /\ (pull # None => IsLayer(pull.layer))
  BY <1>1 DEF IsRemote
<1> HIDE DEF pull, pushes
<1>4. IsRemote(g) /\ g.head = c /\ g.pushes = pushes  BY <1>1, <1>3 DEF IsRemote
<1> HIDE DEF g
<1>5. /\ published' = published \cup {c} /\ unheard' = (unheard \/ ~github.hook)
      /\ UNCHANGED <<settings, product, repo, graph, refresh, mirror, read, crossed>>
  BY DEF Moved
<1>6. IsSettings(settings')  BY <1>5 DEF IInv, Types
<1> QED  BY <1>2, <1>3, <1>4, <1>5, <1>6, WorldKeeps

LEMMA ArchiveKeeps == ASSUME IInv, Archive, UNCHANGED <<seeds, jobs>> PROVE IInv'
<1> DEFINE g == [github EXCEPT !.archived = ~@]
<1>1. IsRemote(g) /\ g.head = github.head /\ g.pushes = github.pushes
  BY DEF IInv, Types, IsRemote
<1>2. /\ github' = g
      /\ UNCHANGED <<settings, product, repo, graph, refresh, mirror, read, published, unheard, crossed>>
  BY DEF Archive
<1> HIDE DEF g
<1>3. IsSettings(settings') /\ g.head \in published'  BY <1>1, <1>2 DEF IInv, Types, SeedsPublish
<1> QED  BY <1>1, <1>2, <1>3, WorldKeeps

LEMMA SetDefaultsKeeps ==
  ASSUME IInv, NEW p \in PlatformDefaults, NEW o \in OrgDefaults,
         SetDefaults([platform |-> p, org |-> o]), UNCHANGED <<seeds, jobs>>
  PROVE  IInv'
<1>1. /\ settings' = [platform |-> p, org |-> o]
      /\ UNCHANGED <<github, product, repo, graph, refresh, mirror, read, published, unheard, crossed>>
  BY DEF SetDefaults
<1>2. IsSettings(settings')  BY <1>1, SettingsAre
<1>3. IsRemote(github) /\ github.head \in published'  BY <1>1 DEF IInv, Types, SeedsPublish
<1> QED  BY <1>1, <1>2, <1>3, WorldKeeps

LEMMA SetSecretKeeps == ASSUME IInv, SetSecret, UNCHANGED <<seeds, jobs>> PROVE IInv'
<1>1. UNCHANGED <<settings, github, product, repo, graph, refresh, mirror, read, published, unheard, crossed>>
  BY DEF SetSecret
<1>2. IsSettings(settings') /\ IsRemote(github) /\ github.head \in published'
  BY <1>1 DEF IInv, Types, SeedsPublish
<1> QED  BY <1>1, <1>2, WorldKeeps

\* A transaction's record with another place.
LEMMA LoadRefreshKeeps ==
  ASSUME IInv, NEW given, IsLayer(given), LoadRefresh(given), UNCHANGED <<seeds, jobs>>
  PROVE  IInv'
<1> DEFINE r == [NoTx EXCEPT !.at = "loaded", !.product = product, !.repo = repo, !.given = given]
<1>1. refresh' = r /\ product # None /\ IsRow(product)
  BY DEF LoadRefresh, IInv, Types
<1>2. r.at = "loaded" /\ r.product = product /\ IsTx(r)
  BY <1>1 DEF NoTx, IsTx
<1> HIDE DEF r
<1>3. UNCHANGED <<github, settings, product, repo, graph, mirror, read, published, unheard, crossed>>
  BY DEF LoadRefresh
<1>4. IsRemote(github) /\ IsTx(mirror) /\ Loaded(mirror) /\ Loaded(r)
  BY <1>2 DEF IInv, Types, Loaded
<1> QED  BY <1>1, <1>2, <1>3, <1>4, LoadingKeeps

LEMMA ReadSnapshotKeeps == ASSUME IInv, ReadSnapshot, UNCHANGED <<seeds, jobs>> PROVE IInv'
<1> DEFINE r == [refresh EXCEPT !.at = "read", !.content = github.head]
<1>1. refresh' = r /\ refresh.at = "loaded" /\ IsTx(refresh) /\ IsRemote(github)
  BY DEF ReadSnapshot, IInv, Types
<1>2. r.at = "read" /\ r.product = refresh.product /\ r.content = github.head /\ IsTx(r)
  BY <1>1 DEF NoTx, IsTx, IsRemote
<1> HIDE DEF r
<1>3. UNCHANGED <<github, settings, product, repo, graph, mirror, read, published, unheard, crossed>>
  BY DEF ReadSnapshot
<1>4. IsTx(mirror) /\ Loaded(mirror) /\ Loaded(r) /\ product # None
  BY <1>1, <1>2 DEF IInv, Types, Loaded, Exclusive
<1> QED  BY <1>1, <1>2, <1>3, <1>4, LoadingKeeps

LEMMA NoTxIs == IsTx(NoTx) /\ NoTx.at = "idle" /\ Loaded(NoTx)
BY DEF IsTx, NoTx, Loaded

LEMMA FailRefreshKeeps == ASSUME IInv, FailRefresh, UNCHANGED <<seeds, jobs>> PROVE IInv'
<1>1. /\ refresh' = NoTx
      /\ UNCHANGED <<github, settings, product, repo, graph, mirror, read, published, unheard, crossed>>
  BY DEF FailRefresh
<1>2. IsRemote(github) /\ IsTx(mirror) /\ Loaded(mirror) /\ (mirror.at # "idle" => product # None)
  BY DEF IInv, Types, Exclusive
<1> QED  BY <1>1, <1>2, NoTxIs, LoadingKeeps

LEMMA FailMirrorKeeps == ASSUME IInv, FailMirror, UNCHANGED <<seeds, jobs>> PROVE IInv'
<1>1. /\ mirror' = NoTx
      /\ UNCHANGED <<github, settings, product, repo, graph, refresh, read, published, unheard, crossed>>
  BY DEF FailMirror
<1>2. IsRemote(github) /\ IsTx(refresh) /\ Loaded(refresh) /\ (refresh.at # "idle" => product # None)
  BY DEF IInv, Types, Exclusive
<1>3. refresh.at = "read" /\ ~crossed /\ ~unheard => refresh.content = github.head \/ github.pushes > 0
  BY DEF IInv, Told
<1> QED  BY <1>1, <1>2, <1>3, NoTxIs, LoadingKeeps

LEMMA LoadMirrorKeeps ==
  ASSUME IInv, NEW codes \in WebhookAnswers, LoadMirror(codes), UNCHANGED <<seeds, jobs>>
  PROVE  IInv'
<1> DEFINE m == [NoTx EXCEPT !.at = "loaded", !.product = product, !.codes = codes]
           g == [github EXCEPT !.hook = @ \/ codes = {}]
<1>1. mirror' = m /\ github' = g /\ product # None /\ IsRow(product) /\ IsRemote(github)
  BY DEF LoadMirror, IInv, Types
<1>2. m.at = "loaded" /\ m.product = product /\ IsTx(m)
  BY <1>1, EmptyIsLayer DEF NoTx, IsTx, WebhookAnswers, MirrorCodes
<1>3. IsRemote(g) /\ g.head = github.head /\ g.pushes = github.pushes  BY <1>1 DEF IsRemote
<1> HIDE DEF m, g
<1>4. UNCHANGED <<settings, product, repo, graph, refresh, read, published, unheard, crossed>>
  BY DEF LoadMirror
<1>5. IsTx(refresh) /\ Loaded(refresh) /\ Loaded(m)  BY <1>2 DEF IInv, Types, Loaded
<1>6. refresh.at = "read" /\ ~crossed /\ ~unheard => refresh.content = github.head \/ github.pushes > 0
  BY DEF IInv, Told
<1> QED  BY <1>1, <1>2, <1>3, <1>4, <1>5, <1>6, LoadingKeeps

\* A contract that is read while nothing overlaps sets the product up.
LEMMA ContractedSetsUp ==
  ASSUME NEW c, NEW row, NEW given, NEW repoRow, NEW projectRow,
         IsRow(row), IsLayer(given), IsLayer(c.layer), IsSettings(settings)
  PROVE  LET new == Contracted(c, row, given, repoRow, projectRow)
         IN IsRow(new) /\ SetUp(new, TRUE)
<1> DEFINE new == Contracted(c, row, given, repoRow, projectRow)
<1>1. /\ IsRow(new) /\ new.state = SetupState(new.codes)
      /\ new.status = IF row.status = "Paused" THEN "Paused"
                      ELSE IF Blocks(new.codes) THEN "Draft" ELSE "Active"
  BY ContractedIs
<1> HIDE DEF new
<1>2. SetUp(new, TRUE)  BY <1>1, SetupStateIs DEF SetUp
<1> QED  BY <1>1, <1>2 DEF new

LEMMA RefreshLocallyKeeps ==
  ASSUME IInv, NEW c \in Contents, NEW given \in Overrides, RefreshLocally(c, given),
         UNCHANGED <<seeds, jobs>>
  PROVE  IInv'
<1> DEFINE row == Contracted(c, product, given, repo, project)
<1>1. /\ product # None /\ IsRow(product) /\ IsLayer(given) /\ IsLayer(c.layer) /\ IsSettings(settings)
      /\ IsGraph(graph) /\ "adoption" \in DOMAIN repo /\ IsTx(refresh) /\ IsTx(mirror)
  BY ConstantsAssumption DEF ConstantsAssumption, RefreshLocally, AtOnce, IInv, Types
<1>2. IsRow(row) /\ SetUp(row, TRUE)  BY <1>1, ContractedSetsUp
<1>3. /\ product' = row /\ graph' = Refreshed(graph, Declared(c)) /\ unheard' = TRUE
      /\ read' = [contract |-> c, from |-> "checkout"] /\ crossed' = (crossed \/ Refreshing)
      /\ UNCHANGED <<github, settings, repo, refresh, mirror, published>>
  BY DEF RefreshLocally, AtOnce
<1> HIDE DEF row
<1>4. ~crossed' => refresh.at = "idle" /\ mirror.at = "idle"  BY <1>3 DEF Refreshing
<1>5. /\ DOMAIN seeds = Seeds /\ \A o \in Seeds : IsSeed(seeds[o]) /\ seeds[o].at \notin InRows
      /\ DOMAIN jobs = Seeds /\ \A o \in Seeds : DOMAIN jobs[o] = DOMAIN NoJob
  BY <1>1 DEF IInv, Types, Exclusive
<1>6. /\ \A o \in Seeds : jobs[o].product => repo.adoption = "seeded"
      /\ \A o, p \in Seeds : jobs[o].product /\ jobs[p].product => o = p
  BY DEF IInv, Exclusive
<1>7. /\ \A o \in Seeds : seeds[o].at \in Placed /\ ~seeds[o].pull => seeds[o].bundle \in published
      /\ \A o \in Seeds : jobs[o].status = "Succeeded" => jobs[o].bundle \in published
  BY DEF IInv, SeedsPublish
<1>8. read'.contract = c /\ read'.from = "checkout"  BY <1>3
<1>9. IsGraph(graph') /\ Follows(graph', Declared(read'.contract))
  BY <1>1, <1>3, <1>8, RefreshedFollows
<1>10. IsRow(product') /\ SetUp(product', TRUE) /\ "adoption" \in DOMAIN repo' /\ IsTx(refresh') /\ IsTx(mirror')
  BY <1>1, <1>2, <1>3
<1> QED  BY <1>3, <1>4, <1>5, <1>6, <1>7, <1>8, <1>9, <1>10, ReadingKeeps

LEMMA CommitRefreshKeeps == ASSUME IInv, CommitRefresh, UNCHANGED <<seeds, jobs>> PROVE IInv'
<1> DEFINE t == refresh
           c == t.content
           new == Contracted(c, t.product, t.given, t.repo, project)
           row == Written(product, t.product, new)
<1>1. /\ t.at = "read" /\ IsRow(t.product) /\ IsLayer(t.given) /\ IsLayer(c.layer) /\ IsSettings(settings)
      /\ IsGraph(graph) /\ IsTx(mirror)
  BY DEF CommitRefresh, IInv, Types, IsTx
<1>2. product # None /\ IsRow(product) /\ "adoption" \in DOMAIN repo
  BY <1>1 DEF IInv, Types, Exclusive
<1>3. IsRow(new) /\ SetUp(new, TRUE)  BY <1>1, ContractedSetsUp
<1>4. /\ product' = row /\ graph' = Refreshed(graph, Declared(c)) /\ refresh' = NoTx
      /\ read' = [contract |-> c, from |-> "branch"]
      /\ unheard' = (unheard /\ github.head # c) /\ crossed' = (crossed \/ mirror.at # "idle")
      /\ UNCHANGED <<github, settings, repo, mirror, published>>
  BY DEF CommitRefresh
<1>5. ~crossed => t.product = product  BY <1>1 DEF IInv, Loaded
<1> HIDE DEF new
<1>6. IsRow(row)  BY <1>2, <1>3, WrittenIsRow
<1>7. ~crossed => row = new  BY <1>2, <1>3, <1>5, WrittenSame
<1> HIDE DEF row
<1>8. ~crossed' => SetUp(row, TRUE) /\ mirror.at = "idle"  BY <1>3, <1>4, <1>7
<1>9. ~crossed' /\ ~unheard' => c = github.head \/ github.pushes > 0
  BY <1>1, <1>4 DEF IInv, Told
<1>10. /\ DOMAIN seeds = Seeds /\ \A o \in Seeds : IsSeed(seeds[o]) /\ seeds[o].at \notin InRows
       /\ DOMAIN jobs = Seeds /\ \A o \in Seeds : DOMAIN jobs[o] = DOMAIN NoJob
  BY <1>2 DEF IInv, Types, Exclusive
<1>11. /\ \A o \in Seeds : jobs[o].product => repo.adoption = "seeded"
       /\ \A o, p \in Seeds : jobs[o].product /\ jobs[p].product => o = p
  BY DEF IInv, Exclusive
<1>12. /\ \A o \in Seeds : seeds[o].at \in Placed /\ ~seeds[o].pull => seeds[o].bundle \in published
       /\ \A o \in Seeds : jobs[o].status = "Succeeded" => jobs[o].bundle \in published
  BY DEF IInv, SeedsPublish
<1>13. read'.contract = c /\ read'.from = "branch"  BY <1>4
<1>14. IsGraph(graph') /\ Follows(graph', Declared(read'.contract))
  BY <1>1, <1>4, <1>13, RefreshedFollows
<1>15. /\ IsRow(product') /\ "adoption" \in DOMAIN repo' /\ IsTx(mirror')
       /\ IsTx(refresh') /\ refresh'.at = "idle"
  BY <1>1, <1>2, <1>4, <1>6, NoTxIs
<1> HIDE DEF c, t
<1> QED
  BY <1>4, <1>8, <1>9, <1>10, <1>11, <1>12, <1>13, <1>14, <1>15, ReadingKeeps

LEMMA CommitMirrorKeeps ==
  ASSUME IInv, NEW issues \in BOOLEAN, CommitMirror(issues), UNCHANGED <<seeds, jobs>>
  PROVE  IInv'
<1> USE DEF IInv
<1> DEFINE loaded == mirror.product
           new == Mirrored(loaded, mirror.codes)
           row == Written(product, loaded, new)
           kept == RepositoryAfter(issues)
<1>1. /\ mirror.at = "loaded" /\ IsRow(loaded) /\ mirror.codes \subseteq MirrorCodes
      /\ product # None /\ IsRow(product) /\ "adoption" \in DOMAIN repo
  BY DEF CommitMirror, Types, IsTx, Exclusive
<1>2. /\ IsRow(new) /\ new.status = loaded.status
      /\ loaded.codes \cap {Pending, PullPending} # {} => new.codes \cap {Pending, PullPending} # {}
      /\ SetUp(loaded, FALSE) => SetUp(new, TRUE)
      /\ Waits(loaded) => Waits(new)
  BY <1>1, MirroredIs
<1>3. /\ product' = row /\ repo' = kept /\ mirror' = NoTx /\ crossed' = (crossed \/ refresh.at # "idle")
      /\ UNCHANGED <<github, settings, graph, refresh, read, published, unheard>>
  BY DEF CommitMirror
<1> HIDE DEF new
<1>4. /\ IsRow(row)
      /\ row.status = IF new.status = loaded.status THEN product.status ELSE new.status
      /\ row.state = IF new.state = loaded.state THEN product.state ELSE new.state
      /\ row.codes = IF new.codes = loaded.codes THEN product.codes ELSE new.codes
  BY <1>1, <1>2, WrittenIsRow
<1>5. ~crossed => loaded = product /\ row = new
  <2>1. ~crossed => loaded = product  BY <1>1 DEF Loaded
  <2> QED  BY <1>1, <1>2, <2>1, WrittenSame
<1>6. "adoption" \in DOMAIN kept /\ kept.adoption = repo.adoption
  BY <1>1, ForgottenIs DEF RepositoryAfter
<1> HIDE DEF row, kept
<1>7. row # None  BY <1>4, NoneIsNoRow
<1>8. Types'  BY <1>1, <1>3, <1>4, <1>6, <1>7, NoTxIs DEF Types
<1>9. Exclusive'  BY <1>1, <1>3, <1>6, <1>7 DEF Exclusive
<1>10. Loaded(refresh)' /\ Loaded(mirror)'  BY <1>3, NoTxIs DEF Loaded
<1>11. Guarded'
  <2>1. ~crossed' => SetUp(product, read # None)  BY <1>1, <1>3 DEF Guarded
  <2>2. SetUp(product, read # None) => SetUp(product, FALSE)  BY DEF SetUp
  <2>3. SetUp(new, TRUE) => SetUp(new, read # None)  BY DEF SetUp
  <2> QED  BY <1>2, <1>3, <1>5, <2>1, <2>2, <2>3 DEF Guarded
<1>12. SeedsPublish'
  <2>1. ASSUME Waits(product), Waits(loaded) PROVE Waits(row)
    BY <1>2, <1>4, <2>1 DEF Waits
  <2> QED  BY <1>1, <1>3, <2>1, NoTxIs DEF SeedsPublish
<1>13. Told'  BY <1>1, <1>3, <1>7 DEF Told
<1>14. ContractIsCurrent'  BY <1>1, <1>2, <1>3, <1>5 DEF ContractIsCurrent
<1>15. GraphFollowsContract'  BY <1>3 DEF GraphFollowsContract
<1> QED  BY <1>8, <1>9, <1>10, <1>11, <1>12, <1>13, <1>14, <1>15

LEMMA AdoptKeeps ==
  ASSUME IInv, ~Registering, NEW c \in Contents, NEW snapshot \in Snapshots, NEW gaps, NEW given \in Overrides,
         Adopt(c, snapshot, gaps, given), UNCHANGED <<seeds, jobs>>
  PROVE  IInv'
<1> DEFINE bound == [snapshot EXCEPT !.adoption = "adopting"]
           onboard == [number |-> c.project, gaps |-> gaps]
           new == Contracted(c, NewProduct, given, bound, onboard)
<1>1. /\ product = None /\ IsLayer(given) /\ IsLayer(c.layer) /\ IsSettings(settings)
      /\ "adoption" \in DOMAIN snapshot
  BY ConstantsAssumption DEF ConstantsAssumption, Adopt, Unbound, IInv, Types
<1>2. IsRow(NewProduct)
  BY EmptyIsLayer, ConstantsAssumption
     DEF ConstantsAssumption, NewProduct, IsRow, Statuses, SetupStates, Supported
<1>3. IsRow(new) /\ SetUp(new, TRUE)  BY <1>1, <1>2, ContractedSetsUp
<1>4. /\ product' = new /\ graph' = Refreshed(Nothing, Declared(c)) /\ unheard' = TRUE
      /\ repo' = [bound EXCEPT !.adoption = IF new.state = "setup-needed" THEN "setup-needed" ELSE "adopted"]
      /\ read' = [contract |-> c, from |-> "checkout"]
      /\ UNCHANGED <<github, settings, refresh, mirror, published, crossed>>
  BY DEF Adopt
<1>5. "adoption" \in DOMAIN repo'  BY <1>1, <1>4
<1> HIDE DEF new
<1>6. read'.contract = c /\ read'.from = "checkout"  BY <1>4
<1>7. IsGraph(graph') /\ Follows(graph', Declared(read'.contract))
  BY <1>4, <1>6, RefreshedFollows, StartingGraphs
<1>8. IsTx(refresh') /\ IsTx(mirror') /\ refresh'.at = "idle" /\ mirror'.at = "idle"
  BY <1>1, <1>4 DEF IInv, Types, Exclusive
<1>9. /\ DOMAIN seeds' = Seeds /\ \A o \in Seeds : IsSeed(seeds'[o]) /\ seeds'[o].at \notin InRows
      /\ DOMAIN jobs' = Seeds /\ \A o \in Seeds : DOMAIN jobs'[o] = DOMAIN NoJob
  BY DEF IInv, Types, Registering, InRows
<1>10. \A o \in Seeds : ~jobs'[o].product  BY <1>1 DEF IInv, Exclusive
<1>11. /\ \A o \in Seeds : seeds'[o].at \in Placed /\ ~seeds'[o].pull => seeds'[o].bundle \in published
       /\ \A o \in Seeds : jobs'[o].status = "Succeeded" => jobs'[o].bundle \in published
  BY DEF IInv, SeedsPublish
<1>12. IsRow(product') /\ SetUp(product', TRUE)  BY <1>3, <1>4
<1> QED
  BY <1>4, <1>5, <1>6, <1>7, <1>8, <1>9, <1>10, <1>11, <1>12, ReadingKeeps

-----------------------------------------------------------------------------
(* Steps of seeds *)

\* A seed moves on, and perhaps ends; only its push moves the branch, and a push
\* that nobody will be told of is another's business only when one is under way.
LEMMA SeedKeeps ==
  ASSUME IInv, UNCHANGED <<product, repo, graph, refresh, mirror, read, crossed, settings>>,
         IsRemote(github'), published \subseteq published', github'.head \in published',
         NEW s \in Seeds, NEW t, seeds' = [seeds EXCEPT ![s] = t], IsSeed(t),
         t.at \in InRows => product = None /\ (seeds[s].at \in InRows \/ ~Registering),
         t.at \in Placed /\ ~t.pull => t.bundle \in published',
         \/ github'.head = github.head /\ github'.pushes = github.pushes /\ unheard' = unheard
         \/ /\ product = None => unheard' \/ \A o \in Seeds \ {s} : seeds[o].at \notin Placed
            /\ product # None => unheard' \/ (~unheard /\ github'.pushes > 0),
         product = None /\ ~unheard' /\ t.at \in Placed =>
           t.pull \/ t.bundle = github'.head \/ github'.pushes > 0,
         DOMAIN jobs' = Seeds, \A o \in Seeds : DOMAIN jobs'[o] = DOMAIN NoJob,
         \A o \in Seeds : jobs'[o].product => jobs[o].product,
         \A o \in Seeds : jobs'[o].status = "Succeeded" =>
           jobs[o].status = "Succeeded" /\ jobs'[o].bundle = jobs[o].bundle
  PROVE  IInv'
<1> DEFINE ss == [seeds EXCEPT ![s] = t]
           g == github'
           js == jobs'
<1>1. DOMAIN seeds = Seeds /\ (\A o \in Seeds : IsSeed(seeds[o])) /\ IsSettings(settings')
  BY DEF IInv, Types
<1>2. DOMAIN ss = Seeds /\ ss[s] = t /\ \A o \in Seeds \ {s} : ss[o] = seeds[o]
  BY <1>1
<1> HIDE DEF ss
<1>3. \A o \in Seeds : IsSeed(ss[o])  BY <1>1, <1>2
<1>4. /\ \A o \in Seeds : ss[o].at \in InRows => product = None
      /\ \A o, p \in Seeds : ss[o].at \in InRows /\ ss[p].at \in InRows => o = p
  BY <1>2 DEF IInv, Exclusive, Registering, InRows
<1>5. \A o \in Seeds : ss[o].at \in Placed /\ ~ss[o].pull => ss[o].bundle \in published'
  BY <1>2 DEF IInv, SeedsPublish
<1>6. product = None /\ ~unheard' =>
        \A o \in Seeds : ss[o].at \in Placed => ss[o].pull \/ ss[o].bundle = g.head \/ g.pushes > 0
  BY <1>2 DEF IInv, Told
<1>7. product # None =>
        unheard' \/ (~unheard /\ (g.pushes > 0 \/ (g.head = github.head /\ g.pushes = github.pushes)))
  OBVIOUS
<1>8. seeds' = ss  BY DEF ss
<1> QED  BY <1>1, <1>2, <1>3, <1>4, <1>5, <1>6, <1>7, <1>8, BesidesKeeps

\* What SeedKeeps asks of jobs, when they stay.
LEMMA JobsStay ==
  ASSUME IInv, UNCHANGED jobs
  PROVE  /\ DOMAIN jobs' = Seeds /\ \A o \in Seeds : DOMAIN jobs'[o] = DOMAIN NoJob
         /\ \A o \in Seeds : jobs'[o].product => jobs[o].product
         /\ \A o \in Seeds : jobs'[o].status = "Succeeded" =>
              jobs[o].status = "Succeeded" /\ jobs'[o].bundle = jobs[o].bundle
BY DEF IInv, Types

\* Or when one of them is over.
LEMMA JobEnds ==
  ASSUME IInv, NEW s \in Seeds, NEW status \in {"lost", "DryRun"}, jobs' = [jobs EXCEPT ![s].status = status]
  PROVE  /\ DOMAIN jobs' = Seeds /\ \A o \in Seeds : DOMAIN jobs'[o] = DOMAIN NoJob
         /\ \A o \in Seeds : jobs'[o].product => jobs[o].product
         /\ \A o \in Seeds : jobs'[o].status = "Succeeded" =>
              jobs[o].status = "Succeeded" /\ jobs'[o].bundle = jobs[o].bundle
<1>1. DOMAIN jobs = Seeds /\ \A o \in Seeds : DOMAIN jobs[o] = {"status", "product", "bundle"}
  BY DEF IInv, Types, NoJob
<1>2. DOMAIN NoJob = {"status", "product", "bundle"}  BY DEF NoJob
<1>3. /\ DOMAIN jobs' = Seeds /\ \A o \in Seeds \ {s} : jobs'[o] = jobs[o]
      /\ jobs'[s] = [jobs[s] EXCEPT !.status = status]
  BY <1>1
<1>4. /\ DOMAIN jobs'[s] = DOMAIN jobs[s] /\ jobs'[s].status = status
      /\ jobs'[s].product = jobs[s].product
  BY <1>1, <1>3
<1> QED  BY <1>1, <1>2, <1>3, <1>4

LEMMA SeedOf ==
  ASSUME IInv, NEW s \in Seeds
  PROVE  /\ IsSeed(seeds[s]) /\ IsRemote(github) /\ github.head \in published
         /\ DOMAIN seeds[s] = {"at", "review", "bundle", "gaps", "pull", "codes"}
         /\ seeds[s].codes \subseteq Codes
<1>1. MirrorCodes \subseteq Codes  BY DEF Codes, Recoverable
<1> QED  BY <1>1 DEF IInv, Types, SeedsPublish, IsSeed, NoSeed

LEMMA NoSeedIs ==
  IsSeed(NoSeed) /\ NoSeed.at = "idle" /\ "idle" \notin Placed /\ "idle" \notin InRows
BY DEF IsSeed, NoSeed, Placed, InRows

LEMMA PrepareKeeps == ASSUME IInv, NEW s \in Seeds, Prepare(s) PROVE IInv'
<1> DEFINE t == [NoSeed EXCEPT !.at = "project", !.review = Protected]
<1>1. IsSeed(t) /\ t.at \notin Placed /\ t.at \notin InRows
  BY DEF IsSeed, NoSeed, Placed, InRows
<1>2. /\ seeds' = [seeds EXCEPT ![s] = t]
      /\ UNCHANGED <<github, settings, product, repo, graph, refresh, mirror, read, published, unheard, crossed, jobs>>
  BY DEF Prepare, Step, Unseen
<1> HIDE DEF t
<1> QED  BY <1>1, <1>2, SeedOf, JobsStay, SeedKeeps

LEMMA DryRunKeeps == ASSUME IInv, NEW s \in Seeds, DryRun(s) PROVE IInv'
<1> DEFINE g == github
           ss == seeds
           js == jobs'
<1>1. /\ jobs' = [jobs EXCEPT ![s].status = "DryRun"]
      /\ UNCHANGED <<github, settings, product, repo, graph, refresh, mirror, read, published, unheard, crossed, seeds>>
  BY DEF DryRun
<1>2. DOMAIN js = Seeds /\ (\A o \in Seeds : DOMAIN js[o] = DOMAIN NoJob)
      /\ (\A o \in Seeds : js[o].product => jobs[o].product)
      /\ \A o \in Seeds : js[o].status = "Succeeded" =>
           jobs[o].status = "Succeeded" /\ js[o].bundle = jobs[o].bundle
  BY <1>1, JobEnds
<1>3. /\ DOMAIN ss = Seeds /\ \A o \in Seeds : IsSeed(ss[o])
      /\ \A o \in Seeds : ss[o].at \in InRows => product = None
      /\ \A o, q \in Seeds : ss[o].at \in InRows /\ ss[q].at \in InRows => o = q
  BY DEF IInv, Types, Exclusive
<1>4. \A o \in Seeds : ss[o].at \in Placed /\ ~ss[o].pull => ss[o].bundle \in published'
  BY <1>1 DEF IInv, SeedsPublish
<1>5. product = None /\ ~unheard' =>
        \A o \in Seeds : ss[o].at \in Placed => ss[o].pull \/ ss[o].bundle = g.head \/ g.pushes > 0
  BY <1>1 DEF IInv, Told
<1>6. IsRemote(g) /\ IsSettings(settings') /\ g.head \in published' /\ published \subseteq published'
  BY <1>1 DEF IInv, Types, SeedsPublish
<1>7. product # None =>
        unheard' \/ (~unheard /\ (g.pushes > 0 \/ (g.head = github.head /\ g.pushes = github.pushes)))
  BY <1>1
<1>8. github' = g /\ seeds' = ss  BY <1>1
<1> QED  BY <1>1, <1>2, <1>3, <1>4, <1>5, <1>6, <1>7, <1>8, BesidesKeeps

\* A seed that is over leaves GitHub as it is.
LEMMA SeedEnds ==
  ASSUME IInv, NEW s \in Seeds, Step(s, NoSeed), jobs' = [jobs EXCEPT ![s].status = "lost"],
         UNCHANGED contractVars
  PROVE  IInv'
<1>1. UNCHANGED <<github, settings, product, repo, graph, refresh, mirror, read, published, unheard, crossed>>
  BY DEF contractVars
<1>2. seeds' = [seeds EXCEPT ![s] = NoSeed]  BY DEF Step
<1>3. DOMAIN jobs' = Seeds /\ (\A o \in Seeds : DOMAIN jobs'[o] = DOMAIN NoJob)
      /\ (\A o \in Seeds : jobs'[o].product => jobs[o].product)
      /\ \A o \in Seeds : jobs'[o].status = "Succeeded" =>
           jobs[o].status = "Succeeded" /\ jobs'[o].bundle = jobs[o].bundle
  BY JobEnds
<1> QED  BY <1>1, <1>2, <1>3, NoSeedIs, SeedOf, SeedKeeps

LEMMA EnsureProjectKeeps ==
  ASSUME IInv, NEW s \in Seeds, NEW gaps, EnsureProject(s, gaps)
  PROVE  IInv'
<1> DEFINE bundle == Bundle(IF Bound = 0 THEN NewProject ELSE Bound)
           t == [seeds[s] EXCEPT !.at = "publish", !.gaps = gaps, !.bundle = bundle]
<1>1. IsLayer(bundle.layer)  BY RequestsAssumption DEF RequestsAssumption, Bundle
<1> HIDE DEF bundle
<1>2. t.at = "publish" /\ t.bundle = bundle /\ t.pull = seeds[s].pull /\ t.codes = seeds[s].codes
      /\ DOMAIN t = DOMAIN seeds[s]
  BY SeedOf
<1>3. seeds' = [seeds EXCEPT ![s] = t]  BY DEF EnsureProject, Step, bundle
<1> HIDE DEF t
<1>4. IsSeed(t) /\ t.at \notin Placed /\ t.at \notin InRows
  BY <1>1, <1>2, SeedOf DEF IsSeed, Placed, InRows
<1>5. IsRemote(github') /\ github'.head = github.head /\ github'.pushes = github.pushes
  BY SeedOf DEF EnsureProject, IsRemote
<1>6. UNCHANGED <<settings, product, repo, graph, refresh, mirror, read, published, unheard, crossed, jobs>>
  BY DEF EnsureProject, Beyond, Unseen
<1> QED  BY <1>3, <1>4, <1>5, <1>6, SeedOf, JobsStay, SeedKeeps

LEMMA ProtectKeeps == ASSUME IInv, NEW s \in Seeds, Protect(s) PROVE IInv'
<1> DEFINE t == [seeds[s] EXCEPT !.at = "register"]
<1>1. /\ t.at = "register" /\ t.bundle = seeds[s].bundle /\ t.pull = seeds[s].pull
      /\ t.codes = seeds[s].codes /\ DOMAIN t = DOMAIN seeds[s]
  BY SeedOf
<1>2. seeds' = [seeds EXCEPT ![s] = t] /\ seeds[s].at = "protect"  BY DEF Protect, Step
<1> HIDE DEF t
<1>3. IsSeed(t) /\ t.at \notin InRows /\ seeds[s].at \in Placed
  BY <1>1, <1>2, SeedOf DEF IsSeed, Placed, InRows
<1>4. IsRemote(github') /\ github'.head = github.head /\ github'.pushes = github.pushes
  BY SeedOf DEF Protect, IsRemote
<1>5. UNCHANGED <<settings, product, repo, graph, refresh, mirror, read, published, unheard, crossed, jobs>>
  BY DEF Protect, Beyond, Unseen
<1>6. t.at \in Placed /\ ~t.pull => t.bundle \in published'
  BY <1>1, <1>3, <1>5 DEF IInv, SeedsPublish
<1>7. product = None /\ ~unheard' => t.pull \/ t.bundle = github'.head \/ github'.pushes > 0
  BY <1>1, <1>3, <1>4, <1>5 DEF IInv, Told
<1> QED  BY <1>2, <1>3, <1>4, <1>5, <1>6, <1>7, SeedOf, JobsStay, SeedKeeps

\* Only one seed has rows that are not committed.
LEMMA RegisterKeeps == ASSUME IInv, NEW s \in Seeds, Register(s) PROVE IInv'
<1> DEFINE t == [seeds[s] EXCEPT !.at = "bootstrap"]
<1>1. /\ t.at = "bootstrap" /\ t.bundle = seeds[s].bundle /\ t.pull = seeds[s].pull
      /\ t.codes = seeds[s].codes /\ DOMAIN t = DOMAIN seeds[s]
  BY SeedOf
<1>2. /\ seeds' = [seeds EXCEPT ![s] = t] /\ seeds[s].at = "register" /\ product = None /\ ~Registering
      /\ UNCHANGED <<github, settings, product, repo, graph, refresh, mirror, read, published, unheard, crossed, jobs>>
  BY DEF Register, Step, Beyond, Unseen
<1> HIDE DEF t
<1>3. IsSeed(t) /\ seeds[s].at \in Placed  BY <1>1, <1>2, SeedOf DEF IsSeed, Placed
<1>4. t.at \in Placed /\ ~t.pull => t.bundle \in published'
  BY <1>1, <1>2, <1>3 DEF IInv, SeedsPublish
<1>5. product = None /\ ~unheard' => t.pull \/ t.bundle = github'.head \/ github'.pushes > 0
  BY <1>1, <1>2, <1>3 DEF IInv, Told
<1> QED  BY <1>2, <1>3, <1>4, <1>5, SeedOf, JobsStay, SeedKeeps

LEMMA BootstrapKeeps ==
  ASSUME IInv, NEW s \in Seeds, NEW codes \in WebhookAnswers, Bootstrap(s, codes)
  PROVE  IInv'
<1> DEFINE t == [seeds[s] EXCEPT !.at = "finish", !.codes = codes]
<1>1. /\ t.at = "finish" /\ t.bundle = seeds[s].bundle /\ t.pull = seeds[s].pull
      /\ t.codes = codes /\ DOMAIN t = DOMAIN seeds[s]
  BY SeedOf
<1>2. seeds' = [seeds EXCEPT ![s] = t] /\ seeds[s].at = "bootstrap"  BY DEF Bootstrap, Step
<1> HIDE DEF t
<1>3. IsSeed(t) /\ seeds[s].at \in Placed /\ seeds[s].at \in InRows
  <2>1. codes \subseteq MirrorCodes  BY DEF WebhookAnswers, MirrorCodes
  <2> QED  BY <1>1, <1>2, <2>1, SeedOf DEF IsSeed, Placed, InRows
<1>4. IsRemote(github') /\ github'.head = github.head /\ github'.pushes = github.pushes
  BY SeedOf DEF Bootstrap, IsRemote
<1>5. UNCHANGED <<settings, product, repo, graph, refresh, mirror, read, published, unheard, crossed, jobs>>
  BY DEF Bootstrap, Beyond, Unseen
<1>6. t.at \in Placed /\ ~t.pull => t.bundle \in published'
  BY <1>1, <1>3, <1>5 DEF IInv, SeedsPublish
<1>7. product = None /\ ~unheard' => t.pull \/ t.bundle = github'.head \/ github'.pushes > 0
  BY <1>1, <1>3, <1>4, <1>5 DEF IInv, Told
<1>8. product = None  BY <1>3 DEF IInv, Exclusive
<1> QED  BY <1>2, <1>3, <1>4, <1>5, <1>6, <1>7, <1>8, SeedOf, JobsStay, SeedKeeps

LEMMA CrashKeeps == ASSUME IInv, NEW s \in Seeds, Crash(s) PROVE IInv'
BY SeedEnds DEF Crash

LEMMA RegisterTwiceKeeps == ASSUME IInv, NEW s \in Seeds, RegisterTwice(s) PROVE IInv'
BY SeedEnds DEF RegisterTwice

\* Who seeds and is not alone is one of those that have published.
LEMMA OverlappedIs ==
  ASSUME IInv, NEW s \in Seeds, ~Overlapped(s)
  PROVE  \A o \in Seeds \ {s} : seeds[o].at \notin Placed
BY DEF IInv, Types, IsSeed, Overlapped, Placed

LEMMA AppliedKeeps ==
  ASSUME IInv, NEW s \in Seeds, Publish(s), Applied(s)
  PROVE  IInv'
<1> DEFINE t == [seeds[s] EXCEPT !.at = "protect"]
<1>1. /\ t.at = "protect" /\ t.bundle = seeds[s].bundle /\ t.pull = seeds[s].pull
      /\ t.codes = seeds[s].codes /\ DOMAIN t = DOMAIN seeds[s]
  BY SeedOf
<1>2. /\ seeds' = [seeds EXCEPT ![s] = t] /\ seeds[s].at = "publish"
      /\ github.head = seeds[s].bundle
      /\ UNCHANGED <<github, settings, product, repo, graph, refresh, mirror, read, published, unheard, crossed, jobs>>
  BY DEF Publish, Applied, Step
<1> HIDE DEF t
<1>3. IsSeed(t) /\ t.at \notin InRows  BY <1>1, <1>2, SeedOf DEF IsSeed, Placed, InRows
<1> QED  BY <1>1, <1>2, <1>3, SeedOf, JobsStay, SeedKeeps

LEMMA OpenPullKeeps ==
  ASSUME IInv, NEW s \in Seeds, Publish(s), OpenPull(s)
  PROVE  IInv'
<1> DEFINE t == [seeds[s] EXCEPT !.at = "protect", !.pull = TRUE]
<1>1. /\ t.at = "protect" /\ t.bundle = seeds[s].bundle /\ t.pull
      /\ t.codes = seeds[s].codes /\ DOMAIN t = DOMAIN seeds[s]
  BY SeedOf
<1>2. /\ seeds' = [seeds EXCEPT ![s] = t] /\ seeds[s].at = "publish"
      /\ github' = Offered(seeds[s].bundle)
      /\ UNCHANGED <<settings, product, repo, graph, refresh, mirror, read, published, unheard, crossed, jobs>>
  BY DEF Publish, OpenPull, Step
<1>3. t.pull = TRUE  BY SeedOf
<1> HIDE DEF t
<1>4. IsSeed(t) /\ t.at \notin InRows  BY <1>1, <1>2, <1>3, SeedOf DEF IsSeed, Placed, InRows
<1>5. IsLayer(seeds[s].bundle.layer)  BY <1>2, SeedOf DEF IsSeed
<1>6. IsRemote(github') /\ github'.head = github.head /\ github'.pushes = github.pushes
  BY <1>2, <1>5, SeedOf DEF Offered, IsRemote
<1> QED  BY <1>1, <1>2, <1>4, <1>6, SeedOf, JobsStay, SeedKeeps

LEMMA PushBundleKeeps ==
  ASSUME IInv, NEW s \in Seeds, Publish(s), PushBundle(s)
  PROVE  IInv'
<1> DEFINE t == [seeds[s] EXCEPT !.at = "protect"]
           pushes == github.pushes + IF github.hook THEN 1 ELSE 0
<1>1. /\ t.at = "protect" /\ t.bundle = seeds[s].bundle /\ t.pull = seeds[s].pull
      /\ t.codes = seeds[s].codes /\ DOMAIN t = DOMAIN seeds[s]
  BY SeedOf
<1>2. /\ seeds' = [seeds EXCEPT ![s] = t] /\ seeds[s].at = "publish"
      /\ github' = [github EXCEPT !.head = seeds[s].bundle, !.pushes = pushes]
      /\ published' = published \cup {seeds[s].bundle}
      /\ unheard' = IF product = None THEN Overlapped(s) ELSE unheard \/ ~github.hook
      /\ UNCHANGED <<settings, product, repo, graph, refresh, mirror, read, crossed, jobs>>
  BY DEF Publish, PushBundle, Pushed, Step
<1> HIDE DEF t
<1>3. IsSeed(t) /\ t.at \notin InRows  BY <1>1, <1>2, SeedOf DEF IsSeed, Placed, InRows
<1>4. IsLayer(seeds[s].bundle.layer)  BY <1>2, SeedOf DEF IsSeed
<1>5. pushes \in Nat /\ (github.hook => pushes > 0)  BY SeedOf DEF IsRemote
<1> HIDE DEF pushes
<1>6. IsRemote(github') /\ github'.head = seeds[s].bundle /\ github'.pushes = pushes
  BY <1>2, <1>4, <1>5, SeedOf DEF IsRemote
<1>7. product = None => unheard' \/ \A o \in Seeds \ {s} : seeds[o].at \notin Placed
  BY <1>2, OverlappedIs
<1>8. product # None => unheard' \/ (~unheard /\ github'.pushes > 0)
  BY <1>2, <1>5, <1>6
<1>9. /\ published \subseteq published' /\ github'.head \in published'
      /\ t.at \in Placed /\ ~t.pull => t.bundle \in published'
      /\ product = None /\ ~unheard' /\ t.at \in Placed =>
           t.pull \/ t.bundle = github'.head \/ github'.pushes > 0
      /\ t.at \in InRows => product = None /\ (seeds[s].at \in InRows \/ ~Registering)
  BY <1>1, <1>2, <1>3, <1>6
<1>10. UNCHANGED <<product, repo, graph, refresh, mirror, read, crossed, settings, jobs>>  BY <1>2
<1>11. seeds' = [seeds EXCEPT ![s] = t]  BY <1>2
<1>12. /\ DOMAIN jobs' = Seeds /\ \A o \in Seeds : DOMAIN jobs'[o] = DOMAIN NoJob
       /\ \A o \in Seeds : jobs'[o].product => jobs[o].product
       /\ \A o \in Seeds : jobs'[o].status = "Succeeded" =>
            jobs[o].status = "Succeeded" /\ jobs'[o].bundle = jobs[o].bundle
  BY <1>10, JobsStay
<1> QED  BY <1>3, <1>6, <1>7, <1>8, <1>9, <1>10, <1>11, <1>12, SeedKeeps

LEMMA PublishKeeps == ASSUME IInv, NEW s \in Seeds, Publish(s) PROVE IInv'
BY AppliedKeeps, OpenPullKeeps, PushBundleKeeps DEF Publish

\* The new row of a seed.
LEMMA NewProductIs ==
  ASSUME NEW given, IsLayer(given)
  PROVE  LET row == [NewProduct EXCEPT !.overrides = given]
         IN IsRow(row) /\ row.status = "Draft" /\ row.codes = {} /\ row.config = None
<1> DEFINE row == [NewProduct EXCEPT !.overrides = given]
<1>1. row = [status |-> "Draft", state |-> "setup-needed", codes |-> {}, overrides |-> given,
             config |-> None, profile |-> "standard-python"]
  BY DEF NewProduct
<1>2. "standard-python" \in Profiles
  BY ConstantsAssumption DEF ConstantsAssumption, Supported
<1> HIDE DEF row
<1>3. IsRow(row)  BY <1>1, <1>2 DEF IsRow, Statuses, SetupStates
<1> QED  BY <1>1, <1>3 DEF row

\* A row with other diagnostics, and the state and status that they ask for.
Again(row, codes, state, status) == [row EXCEPT !.codes = codes, !.state = state, !.status = status]

LEMMA RowAgain ==
  ASSUME NEW row, IsRow(row), NEW codes \in SUBSET Codes, NEW state \in SetupStates, NEW status \in Statuses
  PROVE  LET r == Again(row, codes, state, status)
         IN IsRow(r) /\ r.codes = codes /\ r.state = state /\ r.status = status /\ r.config = row.config
<1> USE DEF Again
<1> DEFINE r == Again(row, codes, state, status)
<1>1. DOMAIN row = {"status", "state", "codes", "overrides", "config", "profile"}  BY DEF IsRow
<1>2. r = [x \in {"status", "state", "codes", "overrides", "config", "profile"} |-> r[x]]
  BY <1>1
<1>3. /\ r.status = status /\ r.state = state /\ r.codes = codes
      /\ r.overrides = row.overrides /\ r.config = row.config /\ r.profile = row.profile
  BY <1>1
<1> HIDE DEF r
<1>4. r = [status |-> r.status, state |-> r.state, codes |-> r.codes,
           overrides |-> r.overrides, config |-> r.config, profile |-> r.profile]
  BY <1>2
<1>5. IsRow(r)  BY <1>3, <1>4 DEF IsRow
<1> QED  BY <1>3, <1>5 DEF r

LEMMA SeedCodesAre ==
  ASSUME NEW t, t.codes \subseteq Codes
  PROVE  SeedCodes(t) \subseteq Codes /\ (t.pull => PullPending \in SeedCodes(t))
BY DEF SeedCodes, ShapeCodes, When, PullPending, Codes, Blocking, Recoverable

\* The seed that has rows: nobody else has any, nor a transaction.
LEMMA InRowsAlone ==
  ASSUME IInv, NEW s \in Seeds, seeds[s].at \in InRows
  PROVE  /\ product = None /\ refresh.at = "idle" /\ mirror.at = "idle" /\ read = None
         /\ seeds[s].at \in Placed /\ IsLayer(seeds[s].bundle.layer)
         /\ \A o \in Seeds \ {s} : seeds[o].at \notin InRows
         /\ \A o \in Seeds : ~jobs[o].product
<1>1. seeds[s].at \in Placed  BY DEF InRows, Placed
<1>2. IsLayer(seeds[s].bundle.layer)  BY <1>1, SeedOf DEF IsSeed
<1>3. IsTx(refresh) /\ IsTx(mirror)  BY DEF IInv, Types
<1> QED  BY <1>1, <1>2, <1>3 DEF IInv, Exclusive

\* The preflight of a seed decides about a product that nobody has written yet.
LEMMA FinishKeeps ==
  ASSUME IInv, NEW s \in Seeds, NEW given \in Secrets, Finish(s, given)
  PROVE  IInv'
<1> DEFINE t == seeds[s]
           row == [NewProduct EXCEPT !.overrides = given]
           contracted == Contracted(t.bundle, row, Empty, SeededRepo, Onboard(t))
           codes == contracted.codes \cup SeedCodes(t)
           status == IF Blocks(codes) THEN "Draft" ELSE "Active"
           state == SetupState(codes)
           new == [contracted EXCEPT !.codes = codes, !.state = state, !.status = status]
           job == [status |-> IF status = "Active" THEN "Succeeded" ELSE "Blocked",
                   product |-> TRUE, bundle |-> t.bundle]
<1>1. /\ product' = new /\ repo' = SeededRepo
      /\ graph' = Refreshed(Seeded, Declared(t.bundle))
      /\ read' = [contract |-> t.bundle, from |-> "bundle"]
      /\ jobs' = [jobs EXCEPT ![s] = job] /\ seeds' = [seeds EXCEPT ![s] = NoSeed]
      /\ UNCHANGED <<github, settings, refresh, mirror, published, unheard, crossed>>
  BY DEF Finish, Step
<1>2. t.at \in InRows  BY DEF Finish, InRows
<1>3. IsSettings(settings) /\ t.codes \subseteq Codes  BY SeedOf DEF IInv, Types
<1>4. IsRow(row)  BY NewProductIs, RequestsAssumption DEF RequestsAssumption
<1>5. IsLayer(t.bundle.layer)  BY <1>2, InRowsAlone
<1> HIDE DEF row
<1>6. IsRow(contracted)  BY <1>3, <1>4, <1>5, EmptyIsLayer, ContractedSetsUp
<1> HIDE DEF contracted
<1>7. codes \in SUBSET Codes /\ (t.pull => PullPending \in codes)
  BY <1>3, <1>6, SeedCodesAre DEF IsRow
<1> HIDE DEF codes
<1>8. /\ status \in Statuses /\ state \in SetupStates
      /\ Blocks(codes) => state = "setup-needed" /\ status = "Draft"
  BY SetupStateIs DEF Statuses
<1>9. status = "Active" => ~Blocks(codes)  OBVIOUS
<1>10. t.pull => Blocks(codes)  BY <1>7 DEF Blocks, Blocking
<1>11. state = SetupState(codes)  OBVIOUS
<1> HIDE DEF status, state
<1>12. IsRow(new) /\ new.codes = codes /\ new.state = state /\ new.status = status
  <2> HIDE DEF t, job
  <2>1. codes \in SUBSET Codes /\ state \in SetupStates /\ status \in Statuses  BY <1>7, <1>8
  <2>2. new = Again(contracted, codes, state, status)  BY DEF Again
  <2> HIDE DEF new
  <2> QED  BY <1>6, <2>1, <2>2, RowAgain
<1> HIDE DEF new
<1>13. SetUp(new, TRUE)  BY <1>8, <1>11, <1>12 DEF SetUp
<1>14. t.pull => Waits(new)  BY <1>7, <1>8, <1>10, <1>12 DEF Waits
<1>15. /\ job.product /\ job.bundle = t.bundle /\ DOMAIN job = DOMAIN NoJob
       /\ job.status = "Succeeded" => ~t.pull
  BY <1>9, <1>10 DEF NoJob
<1> HIDE DEF job
<1>16. /\ DOMAIN seeds' = Seeds /\ seeds'[s] = NoSeed /\ \A o \in Seeds \ {s} : seeds'[o] = seeds[o]
       /\ DOMAIN jobs' = Seeds /\ jobs'[s] = job /\ \A o \in Seeds \ {s} : jobs'[o] = jobs[o]
  BY <1>1 DEF IInv, Types
<1>17. /\ \A o \in Seeds : IsSeed(seeds'[o]) /\ seeds'[o].at \notin InRows
       /\ \A o \in Seeds : seeds'[o].at \in Placed /\ ~seeds'[o].pull => seeds'[o].bundle \in published
       /\ \A o \in Seeds : DOMAIN jobs'[o] = DOMAIN NoJob
  BY <1>2, <1>15, <1>16, NoSeedIs, InRowsAlone DEF IInv, Types, SeedsPublish
<1>18. ~t.pull => t.bundle \in published  BY <1>2, InRowsAlone DEF IInv, SeedsPublish
<1>19. /\ \A o, p \in Seeds : jobs'[o].product /\ jobs'[p].product => o = p
       /\ \A o \in Seeds : jobs'[o].status = "Succeeded" => jobs'[o].bundle \in published
  BY <1>2, <1>15, <1>16, <1>18, InRowsAlone DEF IInv, SeedsPublish
<1>20. repo'.adoption = "seeded" /\ "adoption" \in DOMAIN repo'  BY <1>1 DEF SeededRepo
<1>21. read'.contract = t.bundle /\ read'.from = "bundle"  BY <1>1
<1>22. IsGraph(graph') /\ Follows(graph', Declared(read'.contract))
  BY <1>1, <1>21, RefreshedFollows, StartingGraphs
<1>23. ~unheard => t.pull \/ t.bundle = github.head \/ github.pushes > 0
  BY <1>2, InRowsAlone DEF IInv, Told
<1>24. /\ refresh'.at = "idle" /\ mirror'.at = "idle" /\ IsTx(refresh') /\ IsTx(mirror')
  BY <1>1, <1>2, InRowsAlone DEF IInv, Types
<1>25. IsRow(product') /\ SetUp(product', TRUE)  BY <1>1, <1>12, <1>13
<1>26. read'.from = "bundle" /\ read'.contract \notin published => Waits(product') /\ mirror'.at = "idle"
  BY <1>1, <1>14, <1>18, <1>21, <1>24
<1>27. ~unheard' => \/ read'.contract = github.head \/ github.pushes > 0
                    \/ product'.codes \cap {Pending, PullPending} # {}
  BY <1>1, <1>7, <1>12, <1>21, <1>23
<1> HIDE DEF t
<1> QED
  BY <1>1, <1>16, <1>17, <1>19, <1>20, <1>22, <1>24, <1>25, <1>26, <1>27, ReadingKeeps

\* The job of a seed that failed.
LEMMA FailedJob ==
  ASSUME IInv, NEW s \in Seeds, NEW registered \in BOOLEAN,
         jobs' = [jobs EXCEPT ![s] = [NoJob EXCEPT !.status = "Failed", !.product = registered]]
  PROVE  /\ DOMAIN jobs' = Seeds /\ \A o \in Seeds : DOMAIN jobs'[o] = DOMAIN NoJob
         /\ \A o \in Seeds \ {s} : jobs'[o] = jobs[o]
         /\ jobs'[s].product = registered
         /\ \A o \in Seeds : jobs'[o].status = "Succeeded" =>
              jobs[o].status = "Succeeded" /\ jobs'[o].bundle = jobs[o].bundle
<1> DEFINE job == [NoJob EXCEPT !.status = "Failed", !.product = registered]
<1>1. DOMAIN job = DOMAIN NoJob /\ job.status = "Failed" /\ job.product = registered
  BY DEF NoJob
<1>2. /\ DOMAIN jobs' = Seeds /\ jobs'[s] = job /\ \A o \in Seeds \ {s} : jobs'[o] = jobs[o]
  BY DEF IInv, Types
<1> HIDE DEF job
<1> QED  BY <1>1, <1>2 DEF IInv, Types

\* A seed that fails before its rows are there leaves no more than its job.
LEMMA FailEarlyKeeps ==
  ASSUME IInv, NEW s \in Seeds, NEW given \in Secrets, Fail(s, given), seeds[s].at \notin InRows
  PROVE  IInv'
<1> DEFINE registered == seeds[s].at \in {"bootstrap", "finish"}
<1>0. registered = FALSE  BY DEF InRows
<1>a. /\ jobs' = [jobs EXCEPT ![s] = [NoJob EXCEPT !.status = "Failed", !.product = registered]]
      /\ seeds' = [seeds EXCEPT ![s] = NoSeed]
      /\ IF registered THEN TRUE ELSE UNCHANGED <<product, repo, project, graph, unheard>>
      /\ UNCHANGED <<github, settings, refresh, mirror, read, published, crossed>>
  BY DEF Fail, Step
<1> HIDE DEF registered
<1>1. /\ jobs' = [jobs EXCEPT ![s] = [NoJob EXCEPT !.status = "Failed", !.product = FALSE]]
      /\ seeds' = [seeds EXCEPT ![s] = NoSeed]
      /\ UNCHANGED <<github, settings, product, repo, graph, refresh, mirror, read, published, unheard, crossed>>
  BY <1>0, <1>a
<1>2. /\ DOMAIN jobs' = Seeds /\ \A o \in Seeds : DOMAIN jobs'[o] = DOMAIN NoJob
      /\ \A o \in Seeds \ {s} : jobs'[o] = jobs[o]
      /\ jobs'[s].product = FALSE
      /\ \A o \in Seeds : jobs'[o].status = "Succeeded" =>
           jobs[o].status = "Succeeded" /\ jobs'[o].bundle = jobs[o].bundle
  BY <1>1, FailedJob
<1>3. \A o \in Seeds : jobs'[o].product => jobs[o].product  BY <1>2
<1>4. /\ IsSeed(NoSeed) /\ NoSeed.at \notin Placed /\ NoSeed.at \notin InRows  BY NoSeedIs
<1>5. IsRemote(github') /\ github'.head \in published' /\ published \subseteq published'
  BY <1>1, SeedOf
<1>6. UNCHANGED <<product, repo, graph, refresh, mirror, read, crossed, settings>>
      /\ github'.head = github.head /\ github'.pushes = github.pushes /\ unheard' = unheard
  BY <1>1
<1>7. seeds' = [seeds EXCEPT ![s] = NoSeed]  BY <1>1
<1> QED  BY <1>2, <1>3, <1>4, <1>5, <1>6, <1>7, SeedKeeps

\* The product that a failed seed leaves.
LEMMA RegisteredIs ==
  ASSUME IInv, NEW s \in Seeds, NEW given, IsLayer(given)
  PROVE  LET row == Registered(seeds[s], given)
         IN IsRow(row) /\ SetUp(row, FALSE) /\ row.config = None
<1> DEFINE t == seeds[s]
           new == [NewProduct EXCEPT !.overrides = given]
           row == Registered(t, given)
<1>1. IsRow(new) /\ new.status = "Draft" /\ new.codes = {} /\ new.config = None
  BY NewProductIs
<1>2. row = IF t.at = "finish" THEN Mirrored(new, t.codes) ELSE new  BY DEF Registered
<1>3. t.codes \subseteq MirrorCodes  BY SeedOf DEF IsSeed
<1> HIDE DEF new, row, t
<1>4. SetUp(new, FALSE)  BY <1>1 DEF SetUp, Blocks
<1>5. CASE t.at = "finish"
  <2>1. /\ IsRow(Mirrored(new, t.codes)) /\ Mirrored(new, t.codes).config = new.config
        /\ SetUp(Mirrored(new, t.codes), TRUE)
    BY <1>1, <1>3, <1>4, MirroredIs
  <2>2. SetUp(Mirrored(new, t.codes), FALSE)  BY <2>1 DEF SetUp
  <2> QED  BY <1>1, <1>2, <1>5, <2>1, <2>2 DEF row, t
<1>6. CASE t.at # "finish"  BY <1>1, <1>2, <1>4, <1>6 DEF row, t
<1> QED  BY <1>5, <1>6

\* One that fails with its rows keeps them, without a contract.
LEMMA FailLateKeeps ==
  ASSUME IInv, NEW s \in Seeds, NEW given \in Secrets, Fail(s, given), seeds[s].at \in InRows
  PROVE  IInv'
<1> DEFINE row == Registered(seeds[s], given)
<1>1. /\ jobs' = [jobs EXCEPT ![s] = [NoJob EXCEPT !.status = "Failed", !.product = TRUE]]
      /\ seeds' = [seeds EXCEPT ![s] = NoSeed]
      /\ product' = row /\ repo' = SeededRepo /\ graph' = Seeded /\ unheard' = TRUE
      /\ UNCHANGED <<github, settings, refresh, mirror, read, published, crossed>>
  BY DEF Fail, InRows, Step
<1>2. IsRow(row) /\ SetUp(row, FALSE)
  BY RegisteredIs, RequestsAssumption DEF RequestsAssumption
<1> HIDE DEF row
<1>3. /\ DOMAIN jobs' = Seeds /\ \A o \in Seeds : DOMAIN jobs'[o] = DOMAIN NoJob
      /\ \A o \in Seeds \ {s} : jobs'[o] = jobs[o]
      /\ \A o \in Seeds : jobs'[o].status = "Succeeded" =>
           jobs[o].status = "Succeeded" /\ jobs'[o].bundle = jobs[o].bundle
  BY <1>1, FailedJob
<1>4. /\ product = None /\ refresh.at = "idle" /\ mirror.at = "idle" /\ read = None
      /\ \A o \in Seeds \ {s} : seeds[o].at \notin InRows
      /\ \A o \in Seeds : ~jobs[o].product
  BY InRowsAlone
<1>5. /\ DOMAIN seeds' = Seeds /\ seeds'[s] = NoSeed /\ \A o \in Seeds \ {s} : seeds'[o] = seeds[o]
  BY <1>1 DEF IInv, Types
<1>6. product' # None  BY <1>1, <1>2, NoneIsNoRow
<1>7. repo'.adoption = "seeded" /\ "adoption" \in DOMAIN repo'  BY <1>1 DEF SeededRepo
<1>8. Types'
  <2>1. \A o \in Seeds : IsSeed(seeds'[o])  BY <1>5, NoSeedIs DEF IInv, Types
  <2>2. IsTx(refresh') /\ IsTx(mirror') /\ IsRemote(github') /\ IsSettings(settings') /\ IsGraph(graph')
    BY <1>1, StartingGraphs DEF IInv, Types
  <2> QED  BY <1>1, <1>2, <1>3, <1>5, <1>7, <2>1, <2>2 DEF Types
<1>9. Exclusive'
  <2>1. \A o \in Seeds : seeds'[o].at \notin InRows  BY <1>4, <1>5, NoSeedIs
  <2>2. \A o \in Seeds : jobs'[o].product => o = s  BY <1>3, <1>4
  <2> QED  BY <1>6, <1>7, <2>1, <2>2 DEF Exclusive
<1>10. Loaded(refresh)' /\ Loaded(mirror)'  BY <1>1, <1>4 DEF Loaded
<1>11. Guarded'
  <2> QED  BY <1>1, <1>2, <1>4 DEF Guarded
<1>12. SeedsPublish'
  <2>1. \A o \in Seeds : seeds'[o].at \in Placed /\ ~seeds'[o].pull => seeds'[o].bundle \in published'
    BY <1>1, <1>5, NoSeedIs DEF IInv, SeedsPublish
  <2>2. \A o \in Seeds : jobs'[o].status = "Succeeded" => jobs'[o].bundle \in published'
    BY <1>1, <1>3 DEF IInv, SeedsPublish
  <2> QED  BY <1>1, <1>4, <2>1, <2>2 DEF IInv, SeedsPublish
<1>13. Told'  BY <1>1 DEF Told
<1>14. ContractIsCurrent'  BY <1>1 DEF ContractIsCurrent
<1>15. GraphFollowsContract'  BY <1>1, <1>4 DEF GraphFollowsContract
<1> QED  BY <1>8, <1>9, <1>10, <1>11, <1>12, <1>13, <1>14, <1>15 DEF IInv

-----------------------------------------------------------------------------
(* Invariance *)

\* Steps of a seed, one by one.
LEMMA SeedStepKeeps ==
  ASSUME IInv, NEW s \in Seeds,
         \/ Prepare(s) \/ Publish(s) \/ Protect(s) \/ Register(s) \/ RegisterTwice(s)
         \/ Crash(s) \/ DryRun(s)
         \/ \E gaps \in Gaps : EnsureProject(s, gaps)
         \/ \E codes \in WebhookAnswers : Bootstrap(s, codes)
         \/ \E given \in Secrets : Finish(s, given) \/ Fail(s, given)
  PROVE  IInv'
<1>1. CASE \/ Prepare(s) \/ Publish(s) \/ Protect(s) \/ Register(s) \/ RegisterTwice(s)
           \/ Crash(s) \/ DryRun(s)
  BY <1>1, PrepareKeeps, PublishKeeps, ProtectKeeps, RegisterKeeps, RegisterTwiceKeeps, CrashKeeps,
     DryRunKeeps
<1>2. CASE \E gaps \in Gaps : EnsureProject(s, gaps)  BY <1>2, EnsureProjectKeeps
<1>3. CASE \E codes \in WebhookAnswers : Bootstrap(s, codes)  BY <1>3, BootstrapKeeps
<1>4. CASE \E given \in Secrets : Finish(s, given) \/ Fail(s, given)
  BY <1>4, FinishKeeps, FailEarlyKeeps, FailLateKeeps
<1> QED  BY <1>1, <1>2, <1>3, <1>4

\* Steps of refreshes, webhooks, operators and the world.
LEMMA ContractStepKeeps == ASSUME IInv, ContractNext, UNCHANGED <<seeds, jobs>> PROVE IInv'
<1>0. /\ \A given \in Overrides : IsLayer(given)
      /\ \A c \in Contents : IsLayer(c.layer)
  BY ConstantsAssumption DEF ConstantsAssumption
<1>1. CASE Pause \/ Resume \/ Archive \/ SetSecret
  BY <1>1, PauseKeeps, ResumeKeeps, ArchiveKeeps, SetSecretKeeps
<1>2. CASE MergePull
  <2>1. github.pull # None /\ Moved(github.pull)  BY <1>2 DEF MergePull
  <2>2. IsLayer(github.pull.layer)  BY <2>1 DEF IInv, Types, IsRemote
  <2> QED  BY <2>1, <2>2, MovedKeeps
<1>3. CASE \E c \in Contents, given \in Overrides : RefreshLocally(c, given)
  BY <1>0, <1>3, RefreshLocallyKeeps
<1>4. CASE \E given \in Overrides : LoadRefresh(given)  BY <1>0, <1>4, LoadRefreshKeeps
<1>5. CASE ReadSnapshot \/ CommitRefresh \/ FailRefresh
  BY <1>5, ReadSnapshotKeeps, CommitRefreshKeeps, FailRefreshKeeps
<1>6. CASE \E codes \in WebhookAnswers : LoadMirror(codes)  BY <1>6, LoadMirrorKeeps
<1>7. CASE \E issues \in BOOLEAN : CommitMirror(issues)  BY <1>7, CommitMirrorKeeps
<1>8. CASE FailMirror \/ DeliverPush  BY <1>8, FailMirrorKeeps, DeliverPushKeeps
<1>9. CASE \E edited \in BOOLEAN : DeliverEvent(edited)  BY <1>9, DeliverEventKeeps
<1>10. CASE \E c \in Contents : Push(c)  BY <1>0, <1>10, MovedKeeps DEF Push
<1>11. CASE \E p \in PlatformDefaults, o \in OrgDefaults : SetDefaults([platform |-> p, org |-> o])
  BY <1>11, SetDefaultsKeeps
<1> QED
  BY <1>1, <1>2, <1>3, <1>4, <1>5, <1>6, <1>7, <1>8, <1>9, <1>10, <1>11 DEF ContractNext

LEMMA StepKeeps == IInv /\ [Next]_vars => IInv'
<1> SUFFICES ASSUME IInv, [Next]_vars PROVE IInv'
  OBVIOUS
<1>1. CASE ContractNext /\ UNCHANGED <<seeds, jobs>>  BY <1>1, ContractStepKeeps
<1>2. CASE ~Registering /\ Adoption /\ UNCHANGED <<seeds, jobs>>  BY <1>2, AdoptKeeps DEF Adoption
<1>3. ASSUME NEW s \in Seeds,
             \/ Prepare(s) \/ Publish(s) \/ Protect(s) \/ Register(s) \/ RegisterTwice(s)
             \/ Crash(s) \/ DryRun(s)
             \/ \E gaps \in Gaps : EnsureProject(s, gaps)
             \/ \E codes \in WebhookAnswers : Bootstrap(s, codes)
             \/ \E given \in Secrets : Finish(s, given) \/ Fail(s, given)
      PROVE  IInv'
  BY <1>3, SeedStepKeeps
<1>4. CASE UNCHANGED vars
  <2>1. UNCHANGED <<github, settings, product, repo, graph, refresh, mirror, read, published, unheard, crossed, seeds, jobs>>
    BY <1>4 DEF vars, contractVars
  <2>2. /\ Types' /\ Exclusive' /\ Loaded(refresh)' /\ Loaded(mirror)'
    BY <2>1 DEF IInv, Types, Exclusive, Loaded
  <2>3. Guarded' /\ SeedsPublish'  BY <2>1 DEF IInv, Guarded, SeedsPublish
  <2>4. Told' /\ ContractIsCurrent' /\ GraphFollowsContract'
    BY <2>1 DEF IInv, Told, ContractIsCurrent, GraphFollowsContract
  <2> QED  BY <2>2, <2>3, <2>4 DEF IInv
<1> QED  BY <1>1, <1>2, <1>3, <1>4 DEF Next

\* In every reachable state rows and transactions are well formed, one seed at
\* most registers, what a transaction has loaded is current unless a write has
\* overlapped, and what seeds and refreshes promise about the branch holds.
THEOREM Invariance == Spec => []IInv
BY InitHolds, StepKeeps, PTL DEF Spec

-----------------------------------------------------------------------------
(* Properties *)

\* Whatever seeds and an adoption do to one repository at the same time, one of
\* them at most gets the product, and what a seed reports is on the branch, or
\* waits in its pull request (_execute_product_seed_job, _register_product).
THEOREM SeedsAgreeHolds == Spec => []SeedsAgree
<1>1. IInv => SeedsAgree
  <2> SUFFICES ASSUME IInv PROVE SeedsAgree
    OBVIOUS
  <2>1. read # None /\ read.from = "bundle" /\ product.status = "Active" => read.contract \in published
    BY DEF IInv, SeedsPublish, Waits
  <2> QED  BY <2>1 DEF IInv, Exclusive, SeedsPublish, SeedsAgree
<1> QED  BY <1>1, Invariance, PTL

\* Setup state, status and diagnostics agree, whoever wrote them last, as long
\* as no write overlaps another one's transaction (refresh_product_contract,
\* _apply_product_mirror_diagnostics, _schedule_contract_refresh).
THEOREM ActiveIsSetUpHolds == Spec => []ActiveIsSetUp
<1>1. IInv => ActiveIsSetUp  BY DEF IInv, Guarded, SetUp, ActiveIsSetUp
<1> QED  BY <1>1, Invariance, PTL

\* A contract that is not the default branch's is known to be old, unless nobody
\* tells or a write overlaps (process_delivery, refresh_product).
THEOREM ContractIsCurrentHolds == Spec => []ContractIsCurrent
<1>1. IInv => ContractIsCurrent  BY DEF IInv
<1> QED  BY <1>1, Invariance, PTL

\* The graph says what the contract read last declares, whatever contracts came
\* before it (_mark_missing_declared_nodes_stale, _edge_precedence_states).
THEOREM GraphFollowsContractHolds == Spec => []GraphFollowsContract
<1>1. IInv => GraphFollowsContract  BY DEF IInv
<1> QED  BY <1>1, Invariance, PTL

\* What may become of a row.
StaysPaused(row, new) == row.status = "Paused" => new.status = "Paused"
UndonePause(row) == refresh.at = "read" /\ refresh' = NoTx /\ refresh.product.status \notin {"Paused", row.status}
StaysCapped(row, new) == new.config = row.config \/ Within(new.config, LowerLayers)

\* A refresh ends no pause, and what it accepts is capped.
LEMMA ContractedStays ==
  ASSUME NEW c, NEW row, NEW given, NEW repoRow, NEW projectRow,
         IsRow(row), IsLayer(given), IsLayer(c.layer), IsSettings(settings)
  PROVE  /\ StaysPaused(row, Contracted(c, row, given, repoRow, projectRow))
         /\ StaysCapped(row, Contracted(c, row, given, repoRow, projectRow))
<1> DEFINE new == Contracted(c, row, given, repoRow, projectRow)
<1>1. /\ new.status = IF row.status = "Paused" THEN "Paused"
                      ELSE IF Blocks(new.codes) THEN "Draft" ELSE "Active"
      /\ new.config = row.config \/ Within(new.config, LowerLayers)
  BY ContractedIs
<1> HIDE DEF new
<1>2. StaysPaused(row, new) /\ StaysCapped(row, new)  BY <1>1 DEF StaysPaused, StaysCapped
<1> QED  BY <1>2 DEF new

\* A transaction writes the columns it has changed.
LEMMA WrittenStays ==
  ASSUME NEW now, NEW loaded, NEW new, IsRow(now), IsRow(new), StaysCapped(loaded, new)
  PROVE  StaysCapped(now, Written(now, loaded, new))
<1> DEFINE row == Written(now, loaded, new)
<1>1. row.config = IF new.config = loaded.config THEN now.config ELSE new.config
  BY WrittenIsRow
<1> HIDE DEF row
<1>2. StaysCapped(now, row)  BY <1>1 DEF StaysCapped
<1> QED  BY <1>2 DEF row

\* A refresh ends a pause only when it had not seen it.
LEMMA CommitRefreshStays ==
  ASSUME IInv, CommitRefresh
  PROVE  (StaysPaused(product, product') \/ UndonePause(product')) /\ StaysCapped(product, product')
<1> DEFINE t == refresh
           c == t.content
           new == Contracted(c, t.product, t.given, t.repo, project)
           row == Written(product, t.product, new)
<1>1. /\ t.at = "read" /\ IsRow(t.product) /\ IsLayer(t.given) /\ IsLayer(c.layer) /\ IsSettings(settings)
  BY DEF CommitRefresh, IInv, Types, IsTx
<1>2. IsRow(product)  BY <1>1 DEF IInv, Types, Exclusive
<1>3. IsRow(new)  BY <1>1, ContractedSetsUp
<1>4. StaysPaused(t.product, new) /\ StaysCapped(t.product, new)  BY <1>1, ContractedStays
<1>5. product' = row /\ refresh' = NoTx  BY DEF CommitRefresh
<1> HIDE DEF new
<1>7. StaysCapped(product, row)  BY <1>2, <1>3, <1>4, WrittenStays
<1>8. row.status = IF new.status = t.product.status THEN product.status ELSE new.status
  BY <1>2, <1>3, WrittenIsRow
<1> HIDE DEF row
<1>9. t.product.status = "Paused" => row.status = product.status  BY <1>4, <1>8 DEF StaysPaused
<1>10. row.status # product.status => row.status # t.product.status  BY <1>8
<1>11. StaysPaused(product, product') \/ UndonePause(product')
  BY <1>1, <1>5, <1>9, <1>10 DEF StaysPaused, UndonePause
<1> QED  BY <1>5, <1>7, <1>11

LEMMA CommitMirrorStays ==
  ASSUME IInv, NEW issues \in BOOLEAN, CommitMirror(issues)
  PROVE  StaysPaused(product, product') /\ StaysCapped(product, product')
<1> DEFINE loaded == mirror.product
           new == Mirrored(loaded, mirror.codes)
           row == Written(product, loaded, new)
<1>1. mirror.at = "loaded" /\ IsRow(loaded) /\ mirror.codes \subseteq MirrorCodes
  BY DEF CommitMirror, IInv, Types, IsTx
<1>2. IsRow(product)  BY <1>1 DEF IInv, Types, Exclusive
<1>3. IsRow(new) /\ new.status = loaded.status /\ new.config = loaded.config
  BY <1>1, MirroredIs
<1>4. product' = row  BY DEF CommitMirror
<1> HIDE DEF new, loaded
<1>5. row.status = product.status /\ row.config = product.config
  BY <1>2, <1>3, WrittenIsRow
<1> HIDE DEF row
<1> QED  BY <1>4, <1>5 DEF StaysPaused, StaysCapped

\* The steps that write the row of a product that is there.
LEMMA RowStays ==
  ASSUME IInv, [Next]_vars, product # None, product' # product
  PROVE  /\ StaysCapped(product, product')
         /\ \/ StaysPaused(product, product') \/ UndonePause(product')
            \/ product.state # "setup-needed" /\ product' = [product EXCEPT !.status = "Active"]
<1>1. IsRow(product) /\ IsSettings(settings)  BY DEF IInv, Types
<1>2. CASE Pause
  <2>1. product' = [product EXCEPT !.status = "Paused"]  BY <1>2 DEF Pause
  <2>2. IsRow(product') /\ product'.status = "Paused" /\ product'.config = product.config
    BY <1>1, <2>1, RowWithStatus DEF Statuses
  <2> QED  BY <2>2 DEF StaysPaused, StaysCapped
<1>3. CASE Resume
  <2>1. product' = [product EXCEPT !.status = "Active"] /\ product.state # "setup-needed"
    BY <1>3 DEF Resume
  <2>2. product'.config = product.config
    BY <1>1, <2>1, RowWithStatus DEF Statuses
  <2> QED  BY <2>1, <2>2 DEF StaysCapped
<1>4. CASE \E c \in Contents, given \in Overrides : RefreshLocally(c, given)
  <2>1. PICK c \in Contents, given \in Overrides : RefreshLocally(c, given)  BY <1>4
  <2>2. IsLayer(given) /\ IsLayer(c.layer)  BY ConstantsAssumption DEF ConstantsAssumption
  <2>3. product' = Contracted(c, product, given, repo, project)  BY <2>1 DEF RefreshLocally
  <2> QED  BY <1>1, <2>2, <2>3, ContractedStays
<1>5. CASE CommitRefresh  BY <1>5, CommitRefreshStays
<1>6. CASE \E issues \in BOOLEAN : CommitMirror(issues)  BY <1>6, CommitMirrorStays
<1>7. CASE DeliverPush \/ \E edited \in BOOLEAN : DeliverEvent(edited)
  <2>1. product' = Scheduled(product)  BY <1>7 DEF DeliverPush, DeliverEvent
  <2>2. product'.status = product.status /\ product'.config = product.config
    BY <1>1, <2>1, ScheduledIs
  <2> QED  BY <2>2 DEF StaysPaused, StaysCapped
<1>8. CASE ContractNext
  BY <1>2, <1>3, <1>4, <1>5, <1>6, <1>7, <1>8
     DEF ContractNext, Archive, SetSecret, MergePull, Push, Moved, LoadRefresh, ReadSnapshot, FailRefresh,
         LoadMirror, FailMirror, SetDefaults
<1>9. ~Adoption  BY DEF Adoption, Adopt, Unbound
<1>10. ASSUME NEW s \in Seeds,
              \/ Prepare(s) \/ Publish(s) \/ Protect(s) \/ Register(s) \/ RegisterTwice(s)
              \/ Crash(s) \/ DryRun(s)
              \/ \E gaps \in Gaps : EnsureProject(s, gaps)
              \/ \E codes \in WebhookAnswers : Bootstrap(s, codes)
              \/ \E given \in Secrets : Finish(s, given) \/ Fail(s, given)
       PROVE  FALSE
  <2>1. seeds[s].at \notin {"bootstrap", "finish"}  BY InRowsAlone DEF InRows
  <2>2. \A given : ~Finish(s, given)  BY <2>1 DEF Finish
  <2>3. \A given : Fail(s, given) => UNCHANGED product  BY <2>1 DEF Fail
  <2>4. (Register(s) => FALSE) /\ \A codes : ~Bootstrap(s, codes)  BY <2>1 DEF Register, Bootstrap
  <2>5. Prepare(s) \/ Protect(s) => UNCHANGED product  BY DEF Prepare, Protect, Beyond, Unseen
  <2>6. \A gaps : EnsureProject(s, gaps) => UNCHANGED product  BY DEF EnsureProject, Beyond, Unseen
  <2>7. Publish(s) \/ DryRun(s) => UNCHANGED product  BY DEF Publish, DryRun
  <2>8. RegisterTwice(s) \/ Crash(s) => UNCHANGED product  BY DEF RegisterTwice, Crash, contractVars
  <2> QED  BY <1>10, <2>2, <2>3, <2>4, <2>5, <2>6, <2>7, <2>8
<1>11. ~UNCHANGED vars  BY DEF vars, contractVars
<1> QED  BY <1>8, <1>9, <1>10, <1>11 DEF Next

\* Whatever overlaps, only a resumption of a product that is set up ends a pause,
\* and the commit of a refresh that had loaded the product before the pause and
\* changes the status it loaded (pause_product, resume_product,
\* refresh_product_contract).
THEOREM PauseHoldsAlways == Spec => PauseHolds
<1>1. IInv /\ [Next]_vars =>
        [product # None /\ product.status = "Paused" /\ product'.status # "Paused" =>
           \/ product.state # "setup-needed" /\ product' = [product EXCEPT !.status = "Active"]
           \/ /\ refresh.at = "read" /\ refresh' = NoTx
              /\ refresh.product.status \notin {"Paused", product'.status}]_product
  BY RowStays DEF StaysPaused, UndonePause
<1> QED  BY <1>1, Invariance, PTL DEF Spec, PauseHolds

\* A product's first contract, of an adoption or a seed, is capped as well.
LEMMA FirstIsCapped ==
  ASSUME IInv, [Next]_vars, product = None, product' # None
  PROVE  product'.config = None \/ Within(product'.config, LowerLayers)
<1>1. IsSettings(settings) /\ NewProduct.config = None  BY DEF IInv, Types, NewProduct
<1>2. IsRow(NewProduct)
  BY EmptyIsLayer, ConstantsAssumption
     DEF ConstantsAssumption, NewProduct, IsRow, Statuses, SetupStates, Supported
<1>3. CASE Adoption
  <2>1. PICK c \in Contents, snapshot \in Snapshots, gaps \in Gaps, given \in Overrides :
               Adopt(c, snapshot, gaps, given)
    BY <1>3 DEF Adoption
  <2>2. IsLayer(given) /\ IsLayer(c.layer)  BY ConstantsAssumption DEF ConstantsAssumption
  <2>3. product' = Contracted(c, NewProduct, given, [snapshot EXCEPT !.adoption = "adopting"],
                              [number |-> c.project, gaps |-> gaps])
    BY <2>1 DEF Adopt
  <2>4. StaysCapped(NewProduct, product')  BY <1>1, <1>2, <2>2, <2>3, ContractedStays
  <2> QED  BY <1>1, <2>4 DEF StaysCapped
<1>4. ASSUME NEW s \in Seeds, NEW given \in Secrets, Finish(s, given)
      PROVE  product'.config = None \/ Within(product'.config, LowerLayers)
  <2> DEFINE t == seeds[s]
             row == [NewProduct EXCEPT !.overrides = given]
             contracted == Contracted(t.bundle, row, Empty, SeededRepo, Onboard(t))
             codes == contracted.codes \cup SeedCodes(t)
             status == IF Blocks(codes) THEN "Draft" ELSE "Active"
             state == SetupState(codes)
  <2>1. product' = Again(contracted, codes, state, status)  BY <1>4 DEF Finish, Again
  <2>2. t.at \in InRows  BY <1>4 DEF Finish, InRows
  <2>3. IsRow(row) /\ row.config = None  BY NewProductIs, RequestsAssumption DEF RequestsAssumption
  <2>4. IsLayer(t.bundle.layer)  BY <2>2, InRowsAlone
  <2>5. t.codes \subseteq Codes  BY SeedOf
  <2> HIDE DEF row
  <2>6. IsRow(contracted) /\ StaysCapped(row, contracted)
    BY <1>1, <2>3, <2>4, EmptyIsLayer, ContractedSetsUp, ContractedStays
  <2> HIDE DEF contracted
  <2>7. codes \in SUBSET Codes  BY <2>5, <2>6, SeedCodesAre DEF IsRow
  <2>8. status \in Statuses /\ state \in SetupStates  BY SetupStateIs DEF Statuses
  <2> HIDE DEF codes, status, state
  <2>9. product'.config = contracted.config  BY <2>1, <2>6, <2>7, <2>8, RowAgain
  <2> QED  BY <2>3, <2>6, <2>9 DEF StaysCapped
<1>5. ASSUME NEW s \in Seeds, NEW given \in Secrets, Fail(s, given)
      PROVE  product'.config = None \/ Within(product'.config, LowerLayers)
  <2>1. product' = Registered(seeds[s], given)  BY <1>5 DEF Fail
  <2> QED  BY <2>1, RegisteredIs, RequestsAssumption DEF RequestsAssumption
<1>6. ~ContractNext
  <2>1. ~Pause /\ ~Resume /\ (\A c, given : ~RefreshLocally(c, given)) /\ \A edited : ~DeliverEvent(edited)
    BY DEF Pause, Resume, RefreshLocally, DeliverEvent, AtOnce
  <2>2. ~CommitRefresh /\ \A issues : ~CommitMirror(issues)
    BY DEF CommitRefresh, CommitMirror, IInv, Exclusive
  <2>3. ~DeliverPush  BY DEF DeliverPush
  <2> QED
    BY <2>1, <2>2, <2>3
       DEF ContractNext, Archive, SetSecret, MergePull, Push, Moved, LoadRefresh, ReadSnapshot, FailRefresh,
           LoadMirror, FailMirror, SetDefaults
<1>7. ASSUME NEW s \in Seeds,
             \/ Prepare(s) \/ Publish(s) \/ Protect(s) \/ Register(s) \/ RegisterTwice(s)
             \/ Crash(s) \/ DryRun(s)
             \/ \E gaps \in Gaps : EnsureProject(s, gaps)
             \/ \E codes \in WebhookAnswers : Bootstrap(s, codes)
      PROVE  FALSE
  <2>1. Prepare(s) \/ Protect(s) \/ Register(s) => UNCHANGED product
    BY DEF Prepare, Protect, Register, Beyond, Unseen
  <2>2. \A gaps : EnsureProject(s, gaps) => UNCHANGED product  BY DEF EnsureProject, Beyond, Unseen
  <2>3. \A codes : Bootstrap(s, codes) => UNCHANGED product  BY DEF Bootstrap, Beyond, Unseen
  <2>4. Publish(s) \/ DryRun(s) => UNCHANGED product  BY DEF Publish, DryRun
  <2>5. RegisterTwice(s) \/ Crash(s) => UNCHANGED product  BY DEF RegisterTwice, Crash, contractVars
  <2> QED  BY <1>7, <2>1, <2>2, <2>3, <2>4, <2>5
<1>8. ~UNCHANGED vars  BY DEF vars, contractVars
<1> QED  BY <1>3, <1>4, <1>5, <1>6, <1>7, <1>8 DEF Next

\* What is accepted no lower layer forbids, whoever asks and whatever platform
\* and organization say at that moment (_apply_safety_constraints).
THEOREM GovernanceIsCappedAlways == Spec => GovernanceIsCapped
<1>1. IInv /\ [Next]_vars =>
        [product' # None /\ product'.config # None /\ (product = None \/ product'.config # product.config) =>
           Within(product'.config, LowerLayers)]_product
  BY RowStays, FirstIsCapped DEF StaysCapped
<1>2. IInv /\ [Next]_vars =>
       [product' # None /\ product'.config # None /\ (product = None \/ product'.config # product.config) =>
         LET config == product'.config
         IN /\ config.merge
            /\ \A l \in LowerLayers :
                 /\ "posture" \in DOMAIN l => Strictness(config.posture) <= Strictness(l.posture)
                 /\ Writing(l) \/ "posture" \in DOMAIN l =>
                      Strictness(Writes(config)) <= Strictness(Writes(l))
                 /\ "comments" \in DOMAIN l => (config.comments => l.comments)
                 /\ "lanes" \in DOMAIN l /\ l.lanes # NoLanes => config.lanes <= l.lanes]_product
  BY <1>1 DEF Within
<1> QED  BY <1>2, Invariance, PTL DEF Spec, GovernanceIsCapped
=============================================================================

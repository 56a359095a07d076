-------------------------- MODULE FundedStudyProofs --------------------------
(***************************************************************************)
(* What holds of the funded tear sheet for every cache, frame, order and   *)
(* refusal: a load returns one snapshot (CacheInv); the books balance and  *)
(* the audit agrees (LedgerInv); a split keeps what is held worth the same *)
(* (StudyInv); the random trips match the strategy's (TripsInv).           *)
(***************************************************************************)
EXTENDS FundedStudy, SumTheorems, SequenceTheorems

(* ---- The cache --------------------------------------------------------- *)

Names == Publishable \cup {None}
Steps == {"idle", "prices", "actions", "hash", "manifest"}

\* A manifest is written for the version whose members were hashed for it.
Certificates == {NoManifest} \cup {Manifest(v, v, v) : v \in Publishable}

\* One publisher: what it hashes is what it has just written.
Written ==
  /\ disk \in [Stems -> [prices: Names, actions: Names, manifest: Certificates]]
  /\ writer \in [Writers -> [at: Steps, version: Names, manifest: Certificates]]
  /\ \A w \in Writers :
       /\ writer[w].at # "idle" => writer[w].version \in Publishable
       /\ writer[w].at \in {"actions", "hash"} =>
            disk[Stem[writer[w].version]].prices = writer[w].version
       /\ writer[w].at = "hash" => disk[Stem[writer[w].version]].actions = writer[w].version

\* A load takes what the manifest it holds names.
CacheInv ==
  /\ Written
  /\ reader \in [at: {"idle", "prices", "actions", "validate", "loaded"},
                 stem: Stems \cup {NoStem}, manifest: Certificates, prices: Names, actions: Names]
  /\ reader.at # "idle" => reader.stem \in Stems /\ reader.manifest # NoManifest
  /\ reader.at \in {"actions", "validate", "loaded"} =>
       SameHash("prices", reader.prices, reader.manifest.prices)
  /\ reader.at \in {"validate", "loaded"} =>
       SameHash("actions", reader.actions, reader.manifest.actions)

LEMMA CertificateNames ==
  ASSUME NEW m \in Certificates
  PROVE  m.source \in Names /\ m.prices = m.source /\ m.actions = m.source
BY DEF Certificates, Manifest, NoManifest, Names

LEMMA StemType == Stem \in [Publishable -> Stems]
BY DEF Stem, Stems

LEMMA StartTypes ==
  /\ NoWrite \in [at: Steps, version: Names, manifest: Certificates] /\ NoWrite.at = "idle"
  /\ NoRead \in [at: {"idle", "prices", "actions", "validate", "loaded"},
                 stem: Stems \cup {NoStem}, manifest: Certificates, prices: Names, actions: Names]
  /\ NoRead.at = "idle"
  /\ NoFiles \in [Stems -> [prices: Names, actions: Names, manifest: Certificates]]
BY DEF NoWrite, NoRead, NoFiles, Steps, Names, Certificates

LEMMA CacheInvInit ==
  ASSUME disk = NoFiles, writer = [w \in Writers |-> NoWrite], reader = NoRead
  PROVE  CacheInv
BY StartTypes DEF CacheInv, Written

LEMMA CacheInvRestart ==
  ASSUME disk' = NoFiles, writer' = [w \in Writers |-> NoWrite], reader' = NoRead
  PROVE  CacheInv'
BY StartTypes DEF CacheInv, Written

LEMMA PublishStep ==
  ASSUME Written, NEW w \in Writers, \A v \in Writers : v = w,
         Fetch(w) \/ WritePrices(w) \/ WriteActions(w) \/ HashMembers(w) \/ WriteManifest(w)
           \/ Interrupt(w)
  PROVE  Written'
<1> DEFINE Files == [prices: Names, actions: Names, manifest: Certificates]
           Places == [at: Steps, version: Names, manifest: Certificates]
           v == writer[w].version
<1>0. /\ disk \in [Stems -> Files] /\ writer \in [Writers -> Places]
      /\ writer[w] \in Places
  BY DEF Written
<1>1. CASE Fetch(w)
  <2>1. PICK new \in Publishable :
          writer' = [writer EXCEPT ![w] = [NoWrite EXCEPT !.at = "prices", !.version = new]]
    BY <1>1 DEF Fetch
  <2>2. NoWrite \in Places
    BY StartTypes
  <2>3. writer' \in [Writers -> Places] /\ writer'[w].at = "prices" /\ writer'[w].version = new
    <3> DEFINE r1 == [NoWrite EXCEPT !.at = "prices"]
               r2 == [r1 EXCEPT !.version = new]
    <3>1. r1 \in Places /\ r1.at = "prices"
      BY <2>2 DEF Steps
    <3> HIDE DEF r1
    <3>2. r2 \in Places /\ r2.at = "prices" /\ r2.version = new
      BY <3>1 DEF Names
    <3> HIDE DEF r2
    <3>3. writer' = [writer EXCEPT ![w] = r2]
      BY <2>1 DEF r1, r2
    <3>4. QED
      BY <1>0, <3>2, <3>3
  <2>4. disk' = disk
    BY <1>1 DEF Fetch
  <2>5. QED
    BY <1>0, <2>3, <2>4 DEF Written
<1>2. CASE WritePrices(w)
  <2>1. /\ writer[w].at = "prices" /\ v \in Publishable
        /\ disk' = [disk EXCEPT ![Stem[v]]["prices"] = v]
        /\ writer' = [writer EXCEPT ![w].at = "actions"]
    BY <1>2 DEF WritePrices, Writing, Put, Written
  <2>2. Stem[v] \in Stems
    BY <2>1, StemType
  <2>3. disk' \in [Stems -> Files] /\ disk'[Stem[v]].prices = v
    BY <1>0, <2>1, <2>2 DEF Names
  <2>4. writer' \in [Writers -> Places] /\ writer'[w].at = "actions" /\ writer'[w].version = v
    BY <1>0, <2>1 DEF Steps
  <2>5. QED
    BY <1>0, <2>1, <2>3, <2>4 DEF Written
<1>3. CASE WriteActions(w)
  <2>1. /\ writer[w].at = "actions" /\ v \in Publishable /\ disk[Stem[v]].prices = v
        /\ disk' = [disk EXCEPT ![Stem[v]]["actions"] = v]
        /\ writer' = [writer EXCEPT ![w].at = "hash"]
    BY <1>3 DEF WriteActions, Writing, Put, Written
  <2>2. Stem[v] \in Stems
    BY <2>1, StemType
  <2>3. disk' \in [Stems -> Files] /\ disk'[Stem[v]].actions = v /\ disk'[Stem[v]].prices = v
    BY <1>0, <2>1, <2>2 DEF Names
  <2>4. writer' \in [Writers -> Places] /\ writer'[w].at = "hash" /\ writer'[w].version = v
    BY <1>0, <2>1 DEF Steps
  <2>5. QED
    BY <1>0, <2>1, <2>3, <2>4 DEF Written
<1>4. CASE HashMembers(w)
  <2>1. /\ writer[w].at = "hash" /\ v \in Publishable
        /\ disk[Stem[v]].prices = v /\ disk[Stem[v]].actions = v
        /\ writer' = [writer EXCEPT ![w].at = "manifest", ![w].manifest = Manifest(v, v, v)]
        /\ disk' = disk
    BY <1>4 DEF HashMembers, Writing, Written
  <2>2. Manifest(v, v, v) \in Certificates
    BY <2>1 DEF Certificates
  <2>3. writer' \in [Writers -> Places] /\ writer'[w].at = "manifest" /\ writer'[w].version = v
    BY <1>0, <2>1, <2>2 DEF Steps
  <2>4. QED
    BY <1>0, <2>1, <2>3 DEF Written
<1>5. CASE WriteManifest(w)
  <2>1. /\ writer[w].at = "manifest" /\ v \in Publishable
        /\ disk' = [disk EXCEPT ![Stem[v]]["manifest"] = writer[w].manifest]
        /\ writer' = [writer EXCEPT ![w] = NoWrite]
    BY <1>5 DEF WriteManifest, Writing, Put, Written
  <2>2. Stem[v] \in Stems
    BY <2>1, StemType
  <2>3. disk' \in [Stems -> Files]
    BY <1>0, <2>1, <2>2
  <2>4. NoWrite \in Places /\ NoWrite.at = "idle"
    BY StartTypes
  <2>5. QED
    BY <1>0, <2>1, <2>3, <2>4 DEF Written
<1>6. CASE Interrupt(w)
  <2>1. disk' = disk /\ writer' = [writer EXCEPT ![w] = NoWrite]
    BY <1>6 DEF Interrupt
  <2>2. NoWrite \in Places /\ NoWrite.at = "idle"
    BY StartTypes
  <2>3. QED
    BY <1>0, <2>1, <2>2 DEF Written
<1>7. QED
  BY <1>1, <1>2, <1>3, <1>4, <1>5, <1>6

LEMMA LoadStep ==
  ASSUME CacheInv, Load
  PROVE  CacheInv'
<1> DEFINE Places == [at: {"idle", "prices", "actions", "validate", "loaded"},
                      stem: Stems \cup {NoStem}, manifest: Certificates, prices: Names, actions: Names]
           Files == [prices: Names, actions: Names, manifest: Certificates]
<1>0. /\ reader \in Places /\ disk \in [Stems -> Files]
      /\ NoRead \in Places /\ NoRead.at = "idle"
  BY DEF CacheInv, Written, NoRead, Names, Certificates
<1>1. disk' = disk /\ writer' = writer
  BY DEF Load, Resolve, ReadPrices, ReadActions, ReadMember, Validate, CacheUntouched
<1>2. Written'
  BY <1>1 DEF CacheInv, Written
<1>3. CASE reader' = reader \/ reader' = NoRead
  BY <1>0, <1>2, <1>3 DEF CacheInv
<1>4. CASE Resolve /\ reader' # reader
  <2>1. Cardinality(Published) = 1
    BY <1>4 DEF Resolve
  <2>2. Published # {}
    BY <2>1, FS_EmptySet
  <2>3. PICK s \in Published :
          reader' = [NoRead EXCEPT !.at = "prices", !.stem = s, !.manifest = disk[s].manifest]
    BY <1>4, <2>1, <2>2 DEF Resolve
  <2>4. s \in Stems /\ disk[s].manifest \in Certificates /\ disk[s].manifest # NoManifest
    BY <1>0, <2>3 DEF Published
  <2>5. reader' \in Places /\ reader'.at = "prices" /\ reader'.stem = s
        /\ reader'.manifest = disk[s].manifest
    <3> DEFINE r1 == [NoRead EXCEPT !.at = "prices"]
               r2 == [r1 EXCEPT !.stem = s]
    <3>1. r1 \in Places /\ r1.at = "prices"
      BY <1>0
    <3> HIDE DEF r1
    <3>2. r2 \in Places /\ r2.at = "prices" /\ r2.stem = s
      BY <3>1, <2>4
    <3> HIDE DEF r2
    <3>3. reader' = [r2 EXCEPT !.manifest = disk[s].manifest]
      BY <2>3 DEF r1, r2
    <3>4. QED
      BY <2>4, <3>2, <3>3
  <2>6. QED
    BY <1>2, <2>4, <2>5 DEF CacheInv
<1>5. ASSUME reader' # NoRead, ReadPrices
      PROVE  CacheInv'
  <2>1. /\ reader.at = "prices" /\ SameHash("prices", Reading("prices"), reader.manifest["prices"])
        /\ reader' = [reader EXCEPT !.at = "actions", !.prices = Reading("prices")]
    BY <1>5 DEF ReadPrices, ReadMember
  <2>2. Reading("prices") \in Names
    BY <1>0, <2>1 DEF Reading, CacheInv
  <2>3. /\ reader' \in Places /\ reader'.at = "actions" /\ reader'.prices = Reading("prices")
        /\ reader'.manifest = reader.manifest /\ reader'.stem = reader.stem
    BY <1>0, <2>1, <2>2
  <2>4. SameHash("prices", reader'.prices, reader'.manifest.prices)
    BY <2>1, <2>3
  <2>5. QED
    BY <1>2, <2>1, <2>3, <2>4 DEF CacheInv
<1>6. ASSUME reader' # NoRead, ReadActions
      PROVE  CacheInv'
  <2>1. /\ reader.at = "actions" /\ SameHash("actions", Reading("actions"), reader.manifest["actions"])
        /\ reader' = [reader EXCEPT !.at = "validate", !.actions = Reading("actions")]
    BY <1>6 DEF ReadActions, ReadMember
  <2>2. Reading("actions") \in Names
    BY <1>0, <2>1 DEF Reading, CacheInv
  <2>3. /\ reader' \in Places /\ reader'.at = "validate" /\ reader'.actions = Reading("actions")
        /\ reader'.manifest = reader.manifest /\ reader'.stem = reader.stem
        /\ reader'.prices = reader.prices
    BY <1>0, <2>1, <2>2
  <2>4. /\ SameHash("actions", reader'.actions, reader'.manifest.actions)
        /\ SameHash("prices", reader'.prices, reader'.manifest.prices)
    BY <2>1, <2>3 DEF CacheInv
  <2>5. QED
    BY <1>2, <2>1, <2>3, <2>4 DEF CacheInv
<1>7. ASSUME reader' # NoRead, Validate
      PROVE  CacheInv'
  <2>1. reader.at = "validate" /\ reader' = [reader EXCEPT !.at = "loaded"]
    BY <1>7 DEF Validate
  <2>2. /\ reader' \in Places /\ reader'.at = "loaded" /\ reader'.actions = reader.actions
        /\ reader'.manifest = reader.manifest /\ reader'.stem = reader.stem
        /\ reader'.prices = reader.prices
    BY <1>0, <2>1
  <2>3. QED
    BY <1>2, <2>1, <2>2 DEF CacheInv
<1>8. QED
  BY <1>3, <1>4, <1>5, <1>6, <1>7 DEF Load, Resolve

LEMMA CacheInvStep ==
  ASSUME \A v, w \in Writers : v = w, CacheInv, [Next]_vars
  PROVE  CacheInv'
<1>1. CASE UNCHANGED cacheVars
  <2>1. disk' = disk /\ writer' = writer /\ reader' = reader
    BY <1>1 DEF cacheVars
  <2>2. QED
    BY <2>1 DEF CacheInv, Written
<1>2. CASE Publish
  <2>1. reader' = reader
    BY <1>2 DEF Publish, Fetch, WritePrices, WriteActions, HashMembers, WriteManifest, Interrupt
  <2>2. Written'
    BY <1>2, PublishStep DEF Publish, CacheInv
  <2>3. QED
    BY <2>1, <2>2 DEF CacheInv
<1>3. CASE Load
  BY <1>3, LoadStep
<1>4. CASE LoadFrame
  BY <1>4, CacheInvRestart DEF LoadFrame, CacheStartsOver
<1>5. QED
  BY <1>1, <1>2, <1>3, <1>4 DEF Next, vars, StartStrategy, StartHold, StartRandom, Finish

\* cache_unadjusted_market_data: with one publisher, whatever snapshots it publishes and
\* wherever it is interrupted, a load returns the prices, the actions and the pay-date
\* policy of one snapshot, the one its manifest names.
THEOREM LoadsOneSnapshotCorrect ==
  ASSUME \A v, w \in Writers : v = w
  PROVE  Spec => []LoadsOneSnapshot
<1>1. Init => CacheInv
  BY CacheInvInit DEF Init, CacheInit
<1>2. CacheInv /\ [Next]_vars => CacheInv'
  BY CacheInvStep
<1>3. ASSUME CacheInv PROVE LoadsOneSnapshot
  <2>1. reader.manifest \in Certificates
    BY <1>3 DEF CacheInv
  <2>2. reader.manifest.prices = reader.manifest.source /\ reader.manifest.actions = reader.manifest.source
    BY <2>1, CertificateNames
  <2>3. QED
    BY <1>3, <2>2 DEF CacheInv, LoadsOneSnapshot, SameHash
<1>4. QED
  BY <1>1, <1>2, <1>3, PTL DEF Spec

(* ---- Sums of payments and of trades ------------------------------------ *)

Payments == [row: Nat, date: Nat, amount: Nat \ {0}]

LEMMA AmountsOnSet ==
  ASSUME NEW S, IsFiniteSet(S), S \subseteq Payments, NEW T, T \subseteq S
  PROVE  Amounts(T) = SumFunctionOnSet([p \in S |-> p.amount], T) /\ IsFiniteSet(T)
<1>1. IsFiniteSet(T)
  BY FS_Subset
<1>2. Amounts(T) = SumFunctionOnSet([p \in T |-> p.amount], T)
  BY DEF Amounts, SumFunction
<1>3. QED
  BY <1>1, <1>2, SumSame

LEMMA AmountsEmpty == Amounts({}) = 0
<1>1. Amounts({}) = SumFunctionOnSet([p \in {} |-> p.amount], {})
  BY DEF Amounts, SumFunction
<1>2. QED
  BY <1>1, SumEmpty

LEMMA AmountsPositive ==
  ASSUME NEW S, IsFiniteSet(S), S \subseteq Payments
  PROVE  Amounts(S) \in Nat /\ (S # {} => Amounts(S) > 0)
<1> DEFINE f == [p \in S |-> p.amount]
           z == [p \in S |-> 0]
           Sum(T) == SumFunctionOnSet(f, T)
<1>0. \A p \in S : p.amount \in Nat /\ p.amount > 0
  BY DEF Payments
<1>1. ASSUME NEW T \in SUBSET S
      PROVE  Sum(T) \in Nat
  <2>1. IsFiniteSet(T) /\ \A p \in T : f[p] \in Int /\ z[p] \in Int /\ z[p] = 0 /\ z[p] <= f[p]
    BY <1>0, FS_Subset
  <2> HIDE DEF f, z
  <2>2. SumFunctionOnSet(z, T) <= Sum(T) /\ SumFunctionOnSet(z, T) = 0 /\ Sum(T) \in Int
    BY <2>1, SumOrder, SumZero, SumType
  <2>3. QED
    BY <2>2
<1>2. Amounts(S) = Sum(S)
  BY DEF Amounts, SumFunction
<1>3. ASSUME NEW p \in S
      PROVE  Sum(S) > 0
  <2>1. \A q \in S : f[q] \in Int /\ f[q] > 0
    BY <1>0
  <2> HIDE DEF f
  <2>2. Sum(S) = f[p] + Sum(S \ {p})
    BY <2>1, SumElement
  <2>3. Sum(S \ {p}) \in Nat
    BY <1>1
  <2>4. QED
    BY <2>1, <2>2, <2>3
<1>4. QED
  BY <1>1, <1>2, <1>3

LEMMA AmountsAdded ==
  ASSUME NEW S, IsFiniteSet(S), S \subseteq Payments, NEW p \in Payments, p \notin S
  PROVE  /\ IsFiniteSet(S \cup {p}) /\ S \cup {p} \subseteq Payments
         /\ Amounts(S \cup {p}) = Amounts(S) + p.amount
<1> DEFINE U == S \cup {p}
           f == [q \in U |-> q.amount]
<1>1. IsFiniteSet(U) /\ U \subseteq Payments /\ U \ {p} = S
  BY FS_AddElement
<1>2. Amounts(S) = SumFunctionOnSet(f, S) /\ Amounts(U) = SumFunctionOnSet(f, U)
  <2>1. S \subseteq U /\ U \subseteq U
    OBVIOUS
  <2> HIDE DEF U
  <2>2. QED
    BY <1>1, <2>1, AmountsOnSet
<1>3. (\A q \in U : f[q] \in Int) /\ f[p] = p.amount
  BY <1>1 DEF Payments
<1>4. SumFunctionOnSet(f, S) \in Int
  BY <1>1, <1>3, SumType
<1> HIDE DEF f
<1>5. SumFunctionOnSet(f, U) = f[p] + SumFunctionOnSet(f, U \ {p})
  BY <1>1, <1>3, SumElement
<1>6. QED
  BY <1>1, <1>2, <1>3, <1>4, <1>5 DEF Payments

LEMMA AmountsParted ==
  ASSUME NEW S, IsFiniteSet(S), S \subseteq Payments, NEW T, NEW U, S = T \cup U, T \cap U = {}
  PROVE  Amounts(S) = Amounts(T) + Amounts(U)
<1> DEFINE f == [q \in S |-> q.amount]
<1>1. /\ Amounts(S) = SumFunctionOnSet(f, S) /\ Amounts(T) = SumFunctionOnSet(f, T)
      /\ Amounts(U) = SumFunctionOnSet(f, U) /\ IsFiniteSet(T) /\ IsFiniteSet(U)
  <2>1. S \subseteq S /\ T \subseteq S /\ U \subseteq S
    OBVIOUS
  <2>2. QED
    BY <2>1, AmountsOnSet
<1>2. \A q \in S : f[q] \in Int
  BY DEF Payments
<1> HIDE DEF f
<1>3. SumFunctionOnSet(f, T \cup U) = SumFunctionOnSet(f, T) + SumFunctionOnSet(f, U)
  BY <1>1, <1>2, SumUnion
<1>4. QED
  BY <1>1, <1>3

Trade == [from: Int, to: Int, pnl: Int]
Log == Seq(Trade)
Earned(log) == SumFunction([i \in DOMAIN log |-> log[i].pnl])

LEMMA EarnedNothing == Earned(<<>>) = 0
<1> DEFINE f == [i \in DOMAIN <<>> |-> <<>>[i].pnl]
<1>1. DOMAIN f = {} /\ Earned(<<>>) = SumFunctionOnSet(f, DOMAIN f)
  BY DEF Earned, SumFunction
<1>2. QED
  BY <1>1, SumEmpty

LEMMA EarnedMore ==
  ASSUME NEW log \in Log, NEW t \in Trade
  PROVE  /\ Append(log, t) \in Log /\ Earned(log) \in Int
         /\ Earned(Append(log, t)) = Earned(log) + t.pnl
<1> DEFINE n == Len(log)
           more == Append(log, t)
           f == [i \in 1..n |-> log[i].pnl]
           g == [i \in 1..(n + 1) |-> more[i].pnl]
<1>0. more \in Log
  BY DEF Log
<1>1. /\ n \in Nat /\ DOMAIN log = 1..n /\ DOMAIN more = 1..(n + 1)
      /\ more[n + 1] = t /\ (\A i \in 1..n : more[i] = log[i])
  BY DEF Log
<1>2. /\ \A i \in 1..n : log[i].pnl \in Int
      /\ \A i \in 1..(n + 1) : more[i].pnl \in Int
      /\ t.pnl \in Int
  <2>1. t.pnl \in Int
    BY DEF Trade
  <2>2. ASSUME NEW i \in 1..n
        PROVE  log[i].pnl \in Int
    <3>1. log[i] \in Trade
      BY <1>1 DEF Log
    <3>2. QED
      BY <3>1 DEF Trade
  <2> HIDE DEF n, more
  <2>3. \A i \in 1..(n + 1) : i \in 1..n \/ i = n + 1
    BY <1>1
  <2>4. QED
    BY <1>1, <2>1, <2>2, <2>3
<1>3. Earned(log) = SumFunctionOnSet(f, 1..n) /\ Earned(more) = SumFunctionOnSet(g, 1..(n + 1))
  BY <1>1 DEF Earned, SumFunction
<1> HIDE DEF n, more
<1>4. IsFiniteSet(1..n) /\ IsFiniteSet(1..(n + 1)) /\ (1..(n + 1)) \ {n + 1} = 1..n /\ n + 1 \in 1..(n + 1)
  <2>1. IsFiniteSet(1..n) /\ IsFiniteSet(1..(n + 1))
    BY <1>1, FS_Interval
  <2>2. QED
    BY <1>1, <2>1
<1>5. /\ \A i \in 1..(n + 1) : g[i] \in Int
      /\ \A i \in 1..n : f[i] = g[i] /\ f[i] \in Int
      /\ g[n + 1] = t.pnl
  BY <1>1, <1>2, <1>4
<1> HIDE DEF f, g
<1>6. SumFunctionOnSet(g, 1..(n + 1)) = g[n + 1] + SumFunctionOnSet(g, (1..(n + 1)) \ {n + 1})
  BY <1>4, <1>5, SumElement
<1>7. SumFunctionOnSet(f, 1..n) = SumFunctionOnSet(g, 1..n) /\ SumFunctionOnSet(f, 1..n) \in Int
  BY <1>4, <1>5, SumSame, SumType
<1>8. Earned(log) \in Int /\ Earned(more) = Earned(log) + t.pnl
  <2>1. Earned(log) \in Int
    BY <1>3, <1>7
  <2>2. Earned(more) = t.pnl + SumFunctionOnSet(g, 1..n)
    BY <1>3, <1>4, <1>5, <1>6
  <2>3. Earned(log) = SumFunctionOnSet(g, 1..n)
    BY <1>3, <1>7
  <2> HIDE DEF Earned
  <2>4. QED
    BY <1>2, <2>1, <2>2, <2>3
<1>9. QED
  BY <1>0, <1>8 DEF more

(* ---- The two accounts --------------------------------------------------- *)

Positions == [row: Int, cost: Int, income: Int]
Accounts == [cash: Nat, quantity: Nat, entry: Positions, receivable: Nat, payments: SUBSET Payments]
Auditors == [cash: Int, quantity: Nat, entry: Positions, receivable: Int, pending: SUBSET Payments,
             trades: Log, agrees: BOOLEAN]

\* What the log of trades explains of an account.
Balanced(a, log) ==
  /\ a \in Accounts /\ IsFiniteSet(a.payments) /\ log \in Log
  /\ a.quantity = 0 => a.entry = Flat
  /\ a.cash + a.receivable + a.entry.cost - a.entry.income = Capital + Earned(log)
  /\ a.receivable = Amounts(a.payments)

\* The auditor has the same account, and its own copy of an open position.
Mirrored(u, a, log) ==
  /\ u \in Auditors
  /\ u.cash = a.cash /\ u.quantity = a.quantity /\ u.receivable = a.receivable
  /\ u.pending = a.payments /\ u.trades = log /\ u.agrees = TRUE
  /\ a.quantity > 0 => u.entry = a.entry

LEMMA OpenedBalances == Balanced(Opened, <<>>) /\ Mirrored(Replayed, Opened, <<>>)
<1>1. Flat \in Positions /\ Flat.cost = 0 /\ Flat.income = 0
  BY DEF Flat, Positions
<1>2. <<>> \in Log
  BY DEF Log
<1>3. Capital \in Nat
  BY AccountAssumption
<1>4. Opened \in Accounts /\ Opened.payments = {} /\ Opened.quantity = 0 /\ Opened.entry = Flat
      /\ Opened.cash = Capital /\ Opened.receivable = 0
  BY <1>1, <1>3 DEF Opened, Accounts
<1>5. Replayed \in Auditors /\ Replayed.pending = {} /\ Replayed.quantity = 0
      /\ Replayed.cash = Capital /\ Replayed.receivable = 0 /\ Replayed.trades = <<>>
      /\ Replayed.agrees = TRUE
  BY <1>1, <1>2, <1>3 DEF Replayed, Auditors
<1>6. Balanced(Opened, <<>>)
  BY <1>1, <1>2, <1>3, <1>4, AmountsEmpty, EarnedNothing, FS_EmptySet DEF Balanced
<1>7. QED
  BY <1>4, <1>5, <1>6 DEF Mirrored

LEMMA AuditedMirrors ==
  ASSUME NEW event, NEW a \in Accounts, NEW log, Moved(event) \in Auditors,
         Moved(event).agrees = TRUE, Accepted(event, a),
         Moved(event).cash = a.cash, Moved(event).receivable = a.receivable,
         Moved(event).pending = a.payments, Moved(event).trades = log,
         a.quantity > 0 => Moved(event).entry = a.entry
  PROVE  Mirrored(Audited(event, a), a, log)
<1> DEFINE u == Moved(event)
           agreed == /\ u.agrees /\ Accepted(event, a) /\ a.cash >= 0
                     /\ u.cash = a.cash /\ u.receivable = a.receivable /\ a.receivable >= 0
           v == [u EXCEPT !.quantity = a.quantity]
           w == [v EXCEPT !.agrees = agreed]
<1>1. Audited(event, a) = w
  BY DEF Audited, Auditors
<1>2. a.quantity \in Nat /\ a.cash >= 0 /\ a.receivable >= 0
  BY DEF Accounts
<1>3. agreed = TRUE
  BY <1>2
<1> HIDE DEF u, agreed
<1>4. /\ v \in Auditors /\ v.quantity = a.quantity /\ v.cash = u.cash /\ v.receivable = u.receivable
      /\ v.pending = u.pending /\ v.trades = u.trades /\ v.entry = u.entry
  BY <1>2 DEF Auditors, u
<1> HIDE DEF v
<1>5. /\ w \in Auditors /\ w.quantity = v.quantity /\ w.cash = v.cash /\ w.receivable = v.receivable
      /\ w.pending = v.pending /\ w.trades = v.trades /\ w.entry = v.entry /\ w.agrees = TRUE
  BY <1>3, <1>4 DEF Auditors
<1> HIDE DEF w
<1>6. QED
  BY <1>1, <1>4, <1>5 DEF Mirrored, u

\* An event that moves nothing.
LEMMA AuditNothing ==
  ASSUME NEW log, Mirrored(audit, account, log), account \in Accounts,
         NEW kind \in {"mark", "rejected", "cost_refused"}
  PROVE  Mirrored(Audited([kind |-> kind], account), account, log)
<1> DEFINE event == [kind |-> kind]
<1>1. Moved(event) = audit /\ Accepted(event, account)
  BY DEF Moved, Accepted, Mirrored
<1> HIDE DEF event
<1>2. QED
  BY <1>1, AuditedMirrors DEF Mirrored, event

LEMMA AuditBuy ==
  ASSUME NEW log, Mirrored(audit, account, log), session \in Int, NEW cost \in Int,
         account.quantity = 0, NEW a \in Accounts, a.quantity > 0,
         a.cash = account.cash - cost, a.receivable = account.receivable,
         a.payments = account.payments, a.entry = [row |-> session, cost |-> cost, income |-> 0]
  PROVE  Mirrored(Audited([kind |-> "buy", cost |-> cost], a), a, log)
<1> DEFINE event == [kind |-> "buy", cost |-> cost]
           u == [audit EXCEPT !.cash = @ - cost]
           v == [u EXCEPT !.entry = [row |-> session, cost |-> cost, income |-> 0]]
<1>1. Moved(event) = v /\ Accepted(event, a)
  BY DEF Moved, Accepted, Mirrored, Auditors
<1> HIDE DEF event
<1>2. /\ u \in Auditors /\ u.cash = a.cash /\ u.receivable = a.receivable /\ u.agrees = TRUE
      /\ u.pending = a.payments /\ u.trades = log
  BY DEF Mirrored, Auditors
<1> HIDE DEF u
<1>3. a.entry \in Positions
  BY DEF Accounts
<1>4. /\ v \in Auditors /\ v.cash = a.cash /\ v.receivable = a.receivable /\ v.agrees = TRUE
      /\ v.pending = a.payments /\ v.trades = log /\ v.entry = a.entry
  BY <1>2, <1>3 DEF Auditors
<1> HIDE DEF v
<1>5. QED
  BY <1>1, <1>4, AuditedMirrors DEF event

\* What a sale of the whole position at a quote brings.
Proceeds(quote) == account.quantity * (quote - Adverse(quote)) - Commission

LEMMA AuditSell ==
  ASSUME NEW log \in Log, Mirrored(audit, account, log), session \in Int, account \in Accounts,
         NEW quote, Adverse(quote) \in Int, quote \in Int, account.quantity > 0,
         NEW proceeds, proceeds = Proceeds(quote),
         NEW a \in Accounts, a.quantity = 0,
         a.cash = account.cash + proceeds, a.receivable = account.receivable,
         a.payments = account.payments
  PROVE  /\ Closed(account.entry, proceeds) \in Trade /\ proceeds \in Int
         /\ Mirrored(Audited([kind |-> "sell", quote |-> quote], a), a,
                     Append(log, Closed(account.entry, proceeds)))
<1> DEFINE event == [kind |-> "sell", quote |-> quote]
           t == Closed(account.entry, proceeds)
           u == [audit EXCEPT !.cash = @ + proceeds]
           v == [u EXCEPT !.trades = Append(@, t)]
<1>0. /\ audit \in Auditors /\ audit.quantity = account.quantity /\ audit.entry = account.entry
      /\ audit.cash = account.cash /\ audit.trades = log
  BY DEF Mirrored
<1>1. account.quantity \in Nat /\ account.entry \in Positions
  BY DEF Accounts
<1>2. proceeds \in Int
  BY <1>1, AccountAssumption DEF Proceeds
<1>3. t \in Trade
  BY <1>1, <1>2 DEF Closed, Trade, Positions
<1>4. Moved(event) = v /\ Accepted(event, a)
  BY <1>0 DEF Moved, Accepted, Auditors, Proceeds
<1> HIDE DEF event, t
<1>5. /\ u \in Auditors /\ u.cash = a.cash /\ u.receivable = a.receivable /\ u.agrees = TRUE
      /\ u.pending = a.payments /\ u.trades = log
  BY <1>0, <1>2 DEF Mirrored, Auditors
<1> HIDE DEF u
<1>6. Append(log, t) \in Log
  BY <1>3 DEF Log
<1>7. /\ v \in Auditors /\ v.cash = a.cash /\ v.receivable = a.receivable /\ v.agrees = TRUE
      /\ v.pending = a.payments /\ v.trades = Append(log, t)
  BY <1>5, <1>6 DEF Auditors
<1> HIDE DEF v
<1>8. QED
  <2> DEFINE more == Append(log, t)
  <2>1. v.trades = more
    BY <1>7
  <2> HIDE DEF more
  <2>2. /\ Moved(event) \in Auditors /\ Moved(event).agrees = TRUE /\ Moved(event).cash = a.cash
        /\ Moved(event).receivable = a.receivable /\ Moved(event).pending = a.payments
        /\ Moved(event).trades = more
    BY <1>4, <1>7, <2>1
  <2>3. ~(a.quantity > 0)
    OBVIOUS
  <2>4. Mirrored(Audited(event, a), a, more)
    BY <1>4, <2>2, <2>3, AuditedMirrors
  <2>5. QED
    BY <1>2, <1>3, <2>4 DEF event, t, more

LEMMA AuditSplit ==
  ASSUME NEW log, Mirrored(audit, account, log), NEW a \in Accounts,
         a.quantity * Row.split[2] = account.quantity * Row.split[1],
         account.quantity > 0,
         a.cash = account.cash, a.receivable = account.receivable, a.entry = account.entry,
         a.payments = account.payments
  PROVE  Mirrored(Audited([kind |-> "split"], a), a, log)
<1> DEFINE event == [kind |-> "split"]
<1>1. Moved(event) = audit /\ Accepted(event, a)
  BY DEF Moved, Accepted, Mirrored
<1>2. /\ audit \in Auditors /\ audit.cash = a.cash /\ audit.receivable = a.receivable
      /\ audit.pending = a.payments /\ audit.trades = log /\ audit.agrees = TRUE
      /\ audit.entry = a.entry
  BY DEF Mirrored
<1> HIDE DEF event
<1>3. Mirrored(Audited(event, a), a, log)
  BY <1>1, <1>2, AuditedMirrors
<1>4. QED
  BY <1>3 DEF event

LEMMA AuditDividend ==
  ASSUME NEW log, Mirrored(audit, account, log), account.quantity > 0, account \in Accounts,
         NEW income \in Nat, income = account.quantity * Row.dividend,
         Entitled(income) \in Payments,
         NEW a \in Accounts, a.quantity = account.quantity,
         a.cash = account.cash, a.receivable = account.receivable + income,
         a.payments = account.payments \cup {Entitled(income)},
         a.entry = [account.entry EXCEPT !.income = @ + income]
  PROVE  Mirrored(Audited([kind |-> "dividend", action |-> income], a), a, log)
<1> DEFINE event == [kind |-> "dividend", action |-> income]
           p == Entitled(income)
           u == [audit EXCEPT !.receivable = @ + income]
           v == [u EXCEPT !.entry.income = @ + income]
           w == [v EXCEPT !.pending = @ \cup {p}]
<1>0. /\ audit \in Auditors /\ audit.quantity = account.quantity /\ audit.entry = account.entry
      /\ audit.agrees = TRUE /\ audit.pending = account.payments /\ audit.trades = log
      /\ audit.receivable = account.receivable /\ audit.cash = account.cash
  BY DEF Mirrored
<1>1. Moved(event) = w /\ Accepted(event, a)
  BY <1>0 DEF Moved, Accepted, Auditors
<1> HIDE DEF event, p
<1>2. /\ u \in Auditors /\ u.cash = a.cash /\ u.receivable = a.receivable /\ u.agrees = TRUE
      /\ u.pending = account.payments /\ u.trades = log /\ u.entry = account.entry
  BY <1>0 DEF Auditors, Accounts
<1> HIDE DEF u
<1>3. [account.entry EXCEPT !.income = @ + income] \in Positions
  BY DEF Accounts, Positions
<1>4. /\ v \in Auditors /\ v.cash = a.cash /\ v.receivable = a.receivable /\ v.agrees = TRUE
      /\ v.pending = account.payments /\ v.trades = log /\ v.entry = a.entry
  BY <1>2, <1>3 DEF Auditors
<1> HIDE DEF v
<1>5. account.payments \cup {p} \in SUBSET Payments
  BY DEF Accounts, p
<1>6. /\ w \in Auditors /\ w.cash = a.cash /\ w.receivable = a.receivable /\ w.agrees = TRUE
      /\ w.pending = account.payments \cup {p} /\ w.trades = log /\ w.entry = a.entry
  BY <1>4, <1>5 DEF Auditors
<1> HIDE DEF w
<1>7. QED
  BY <1>1, <1>6, AuditedMirrors DEF event, p

LEMMA AuditPayment ==
  ASSUME NEW log, Mirrored(audit, account, log), account \in Accounts,
         NEW due \in Nat, due = Amounts(Due(account.payments)),
         NEW a \in Accounts, a.quantity = account.quantity,
         a.cash = account.cash + due, a.receivable = account.receivable - due,
         a.payments = NotDue(account.payments), a.entry = account.entry
  PROVE  Mirrored(Audited([kind |-> "payment", action |-> due], a), a, log)
<1> DEFINE event == [kind |-> "payment", action |-> due]
           rest == NotDue(account.payments)
           u == [audit EXCEPT !.cash = @ + due]
           v == [u EXCEPT !.receivable = @ - due]
           w == [v EXCEPT !.pending = rest]
<1>0. /\ audit \in Auditors /\ audit.quantity = account.quantity
      /\ audit.agrees = TRUE /\ audit.pending = account.payments /\ audit.trades = log
      /\ audit.receivable = account.receivable /\ audit.cash = account.cash
      /\ a.quantity > 0 => audit.entry = a.entry
  BY DEF Mirrored
<1>1. Moved(event) = w /\ Accepted(event, a)
  BY <1>0 DEF Moved, Accepted, Auditors
<1>2. rest \in SUBSET Payments
  BY DEF Accounts, NotDue
<1> HIDE DEF event, rest
<1>3. /\ u \in Auditors /\ u.cash = a.cash /\ u.receivable = account.receivable /\ u.agrees = TRUE
      /\ u.pending = account.payments /\ u.trades = log /\ u.entry = audit.entry
  BY <1>0 DEF Auditors, Accounts
<1> HIDE DEF u
<1>4. /\ v \in Auditors /\ v.cash = a.cash /\ v.receivable = a.receivable /\ v.agrees = TRUE
      /\ v.pending = account.payments /\ v.trades = log /\ v.entry = audit.entry
  BY <1>3 DEF Auditors, Accounts
<1> HIDE DEF v
<1>5. /\ w \in Auditors /\ w.cash = a.cash /\ w.receivable = a.receivable /\ w.agrees = TRUE
      /\ w.pending = rest /\ w.trades = log /\ w.entry = audit.entry
  BY <1>2, <1>4 DEF Auditors
<1> HIDE DEF w
<1>6. QED
  BY <1>0, <1>1, <1>5, AuditedMirrors DEF event, rest

(* ---- The ledger --------------------------------------------------------- *)

\* After the payments of an open nothing is due; what a row earned is owed to that row.
Timely ==
  /\ step \in {"payment", "split", "dividend"} => \A p \in account.payments : p.row < session
  /\ step \in {"sameDay", "order", "mark", "end", "done"} =>
       \A p \in account.payments : p.row <= session
  /\ step \in {"split", "dividend", "order", "mark", "end", "done"} =>
       \A p \in account.payments : p.date > Row.day
  /\ step = "sameDay" =>
       LET income == account.quantity * Row.dividend IN
         /\ \A p \in account.payments : p.date > Row.day \/ (income # 0 /\ p = Entitled(income))
         /\ income # 0 => Entitled(income) \in account.payments

LedgerInv ==
  /\ Balanced(account, trades)
  /\ Mirrored(audit, account, trades)
  /\ step \in {"idle", "payment", "split", "dividend", "sameDay", "order", "mark", "end", "done", "raised"}
  /\ step # "idle" => Executable(rows) /\ session \in 1..Len(rows)
  /\ Timely

\* The unit of a share is small enough for every split of the run to give whole ones.
EvenSplits ==
  step = "split" /\ account.quantity > 0 =>
    \E whole \in Nat : account.quantity * Row.split[1] = whole * Row.split[2]

LEMMA RowType ==
  ASSUME Executable(rows), session \in 1..Len(rows)
  PROVE  /\ Row.day \in Nat /\ Row.open \in Nat /\ Row.open > 0 /\ Row.close \in Nat /\ Row.close > 0
         /\ Row.split[1] \in Nat /\ Row.split[1] > 0 /\ Row.split[2] \in Nat /\ Row.split[2] > 0
         /\ Row.dividend \in Nat /\ Row.pay \in Nat /\ session \in Nat
         /\ Row.dividend > 0 => Row.pay >= Row.day
<1> DEFINE Bars == [day: Nat, open: Positive, close: Positive, split: Positive \X Positive, dividend: Nat, pay: Nat]
<1>1. rows \in Seq(Bars)
  BY DEF Executable, Frames
<1> HIDE DEF Bars
<1>2. Row \in Bars /\ session \in DOMAIN rows /\ session \in Nat
  BY <1>1, ElementOfSeq DEF Row
<1>3. Row.dividend > 0 => Row.pay >= Row.day
  BY <1>2 DEF Executable, Row
<1>4. QED
  BY <1>2, <1>3 DEF Bars, Positive

LEMMA AdverseType ==
  ASSUME NEW quote \in Nat
  PROVE  Adverse(quote) \in Int
BY AccountAssumption DEF Adverse

LEMMA BalancedTypes ==
  ASSUME Balanced(account, trades)
  PROVE  /\ account \in Accounts /\ account.cash \in Nat /\ account.quantity \in Nat
         /\ account.receivable \in Nat /\ account.receivable = Amounts(account.payments)
         /\ IsFiniteSet(account.payments) /\ account.payments \subseteq Payments
         /\ account.entry \in Positions /\ account.entry.cost \in Int /\ account.entry.income \in Int
         /\ Earned(trades) \in Int /\ trades \in Log
         /\ account.cash + account.receivable + account.entry.cost - account.entry.income
              = Capital + Earned(trades)
<1>1. Earned(trades) \in Int
  <2>1. [from |-> 0, to |-> 0, pnl |-> 0] \in Trade
    BY DEF Trade
  <2>2. QED
    BY <2>1, EarnedMore DEF Balanced
<1>2. QED
  BY <1>1 DEF Balanced, Accounts, Positions

\* What is due and what is not part the payments.
LEMMA DueParts ==
  ASSUME Balanced(account, trades), Row.day \in Nat
  PROVE  /\ Amounts(Due(account.payments)) \in Nat /\ Amounts(NotDue(account.payments)) \in Nat
         /\ Amounts(account.payments) = Amounts(Due(account.payments)) + Amounts(NotDue(account.payments))
         /\ Amounts(Due(account.payments)) = 0 => Due(account.payments) = {}
         /\ IsFiniteSet(NotDue(account.payments)) /\ NotDue(account.payments) \subseteq account.payments
<1> DEFINE S == account.payments
           T == Due(S)
           U == NotDue(S)
<1>0. IsFiniteSet(S) /\ S \subseteq Payments
  BY BalancedTypes
<1>1. \A p \in S : p.date \in Nat
  BY <1>0 DEF Payments
<1>2. S = T \cup U /\ T \cap U = {} /\ T \subseteq S /\ U \subseteq S
  BY <1>1 DEF Due, NotDue
<1>3. IsFiniteSet(T) /\ IsFiniteSet(U) /\ T \subseteq Payments /\ U \subseteq Payments
  BY <1>0, <1>2, FS_Subset
<1> HIDE DEF S, T, U
<1>4. Amounts(T) \in Nat /\ Amounts(U) \in Nat /\ (T # {} => Amounts(T) > 0)
  BY <1>3, AmountsPositive
<1>5. Amounts(S) = Amounts(T) + Amounts(U)
  BY <1>0, <1>2, AmountsParted
<1>6. QED
  BY <1>2, <1>3, <1>4, <1>5 DEF S, T, U

LEMMA PayDueStep ==
  ASSUME LedgerInv, PayDue
  PROVE  LedgerInv'
<1> DEFINE due == Amounts(Due(account.payments))
           rest == NotDue(account.payments)
<1>0. /\ step = "payment" /\ step' = "split" /\ rows' = rows /\ session' = session /\ trades' = trades
      /\ Executable(rows) /\ session \in 1..Len(rows)
      /\ Balanced(account, trades) /\ Mirrored(audit, account, trades)
      /\ \A p \in account.payments : p.row < session
  BY DEF PayDue, Goto, LedgerInv, Timely
<1>1. Row' = Row /\ Row.day \in Nat
  BY <1>0, RowType DEF Row
<1>2. /\ due \in Nat /\ Amounts(rest) \in Nat /\ account.receivable = due + Amounts(rest)
      /\ due = 0 => Due(account.payments) = {}
      /\ IsFiniteSet(rest) /\ rest \subseteq account.payments
  BY <1>0, <1>1, DueParts, BalancedTypes
<1>3. \A p \in rest : p.date > Row.day
  BY DEF NotDue
<1>4. CASE due = 0
  <2>1. account' = account /\ audit' = audit
    BY <1>4 DEF PayDue, Nothing
  <2>2. \A p \in account.payments : p.date > Row.day
    <3>1. \A p \in account.payments : p.date \in Nat
      BY <1>0, BalancedTypes DEF Payments
    <3>2. QED
      BY <1>1, <1>2, <1>4, <3>1 DEF Due
  <2>3. QED
    BY <1>0, <1>1, <2>1, <2>2 DEF LedgerInv, Timely
<1>5. CASE due # 0
  <2> DEFINE r1 == [account EXCEPT !.cash = @ + due]
             r2 == [r1 EXCEPT !.receivable = @ - due]
             a == [r2 EXCEPT !.payments = rest]
  <2>1. account' = a /\ audit' = Audited([kind |-> "payment", action |-> due], a)
    BY <1>0, <1>5, BalancedTypes DEF PayDue, Record, Accounts
  <2> HIDE DEF due, rest
  <2>2. /\ r1 \in Accounts /\ r1.cash = account.cash + due /\ r1.receivable = account.receivable
        /\ r1.quantity = account.quantity /\ r1.entry = account.entry
    <3>1. account \in Accounts /\ account.cash + due \in Nat
      BY <1>0, <1>2, BalancedTypes
    <3>2. QED
      BY <3>1 DEF Accounts
  <2> HIDE DEF r1
  <2>3. /\ r2 \in Accounts /\ r2.cash = account.cash + due /\ r2.receivable = account.receivable - due
        /\ r2.quantity = account.quantity /\ r2.entry = account.entry
    <3>1. account.receivable - due \in Nat
      BY <1>0, <1>2, BalancedTypes
    <3>2. QED
      BY <2>2, <3>1 DEF Accounts
  <2> HIDE DEF r2
  <2>4. /\ a \in Accounts /\ a.cash = account.cash + due /\ a.receivable = account.receivable - due
        /\ a.quantity = account.quantity /\ a.entry = account.entry /\ a.payments = rest
    <3>1. rest \in SUBSET Payments
      BY <1>0, <1>2, BalancedTypes
    <3>2. QED
      BY <2>3, <3>1 DEF Accounts
  <2> HIDE DEF a
  <2>5. Balanced(a, trades)
    BY <1>0, <1>2, <2>4, BalancedTypes DEF Balanced
  <2>6. Mirrored(audit', a, trades)
    BY <1>0, <1>2, <2>1, <2>4, AuditPayment, BalancedTypes DEF due, rest
  <2>7. \A p \in a.payments : p.row < session /\ p.date > Row.day
    BY <1>0, <1>2, <1>3, <2>4
  <2>8. QED
    BY <1>0, <1>1, <2>1, <2>5, <2>6, <2>7 DEF LedgerInv, Timely
<1>6. QED
  BY <1>4, <1>5

LEMMA ApplySplitStep ==
  ASSUME LedgerInv, EvenSplits, ApplySplit
  PROVE  LedgerInv'
<1> DEFINE held == (account.quantity * Row.split[1]) \div Row.split[2]
<1>0. /\ step = "split" /\ step' = "dividend" /\ rows' = rows /\ session' = session /\ trades' = trades
      /\ Executable(rows) /\ session \in 1..Len(rows)
      /\ Balanced(account, trades) /\ Mirrored(audit, account, trades)
      /\ \A p \in account.payments : p.row < session /\ p.date > Row.day
  BY DEF ApplySplit, Goto, LedgerInv, Timely
<1>1. Row' = Row
  BY <1>0 DEF Row
<1>2. CASE account' = account /\ audit' = audit
  BY <1>0, <1>1, <1>2 DEF LedgerInv, Timely
<1>3. CASE ~(account.quantity = 0 \/ Row.split = <<1, 1>>)
  <2> DEFINE a == [account EXCEPT !.quantity = held]
  <2>0. account' = a /\ audit' = Audited([kind |-> "split"], a)
    BY <1>3 DEF ApplySplit, Record
  <2>1. account.quantity \in Nat /\ account.quantity > 0
    BY <1>0, <1>3, BalancedTypes
  <2>2. PICK whole \in Nat : account.quantity * Row.split[1] = whole * Row.split[2]
    BY <1>0, <2>1 DEF EvenSplits
  <2>3. held = whole /\ whole > 0
    <3>1. Row.split[1] \in Nat /\ Row.split[1] > 0 /\ Row.split[2] \in Nat /\ Row.split[2] > 0
      BY <1>0, RowType
    <3>2. \A q, n, d \in Nat : d > 0 /\ q = n * d => q \div d = n
      OBVIOUS
    <3>3. \A q, n \in Nat : q > 0 /\ n > 0 => q * n \in Nat /\ q * n > 0
      OBVIOUS
    <3>4. account.quantity * Row.split[1] \in Nat /\ account.quantity * Row.split[1] > 0
      BY <2>1, <3>1, <3>3
    <3>5. held = whole
      BY <2>2, <3>1, <3>2, <3>4
    <3>6. whole # 0
      BY <2>2, <3>1, <3>4
    <3>7. QED
      BY <3>5, <3>6
  <2> HIDE DEF held
  <2>4. /\ a \in Accounts /\ a.cash = account.cash /\ a.receivable = account.receivable
        /\ a.quantity = whole /\ a.entry = account.entry /\ a.payments = account.payments
    BY <1>0, <2>3, BalancedTypes DEF Accounts
  <2> HIDE DEF a
  <2>5. Balanced(a, trades)
    BY <1>0, <2>3, <2>4, BalancedTypes DEF Balanced
  <2>6. a.quantity * Row.split[2] = account.quantity * Row.split[1]
    BY <2>2, <2>4
  <2>7. Mirrored(audit', a, trades)
    BY <1>0, <2>0, <2>1, <2>4, <2>6, AuditSplit
  <2>8. QED
    BY <1>0, <1>1, <2>0, <2>4, <2>5, <2>7 DEF LedgerInv, Timely
<1>4. QED
  BY <1>2, <1>3 DEF ApplySplit, Nothing

LEMMA EarnDividendStep ==
  ASSUME LedgerInv, EarnDividend
  PROVE  LedgerInv'
<1> DEFINE income == account.quantity * Row.dividend
           p == Entitled(income)
           all == account.payments \cup {p}
<1>0. /\ step = "dividend" /\ step' = "sameDay" /\ rows' = rows /\ session' = session /\ trades' = trades
      /\ Executable(rows) /\ session \in 1..Len(rows)
      /\ Balanced(account, trades) /\ Mirrored(audit, account, trades)
      /\ \A q \in account.payments : q.row < session /\ q.date > Row.day
  BY DEF EarnDividend, Goto, LedgerInv, Timely
<1>1. Row' = Row /\ Row.dividend \in Nat /\ Row.pay \in Nat /\ session \in Nat
  BY <1>0, RowType DEF Row
<1>2. income \in Nat
  <2>1. \A m, n \in Nat : m * n \in Nat
    OBVIOUS
  <2>2. account.quantity \in Nat
    BY <1>0, BalancedTypes
  <2>3. QED
    BY <1>1, <2>1, <2>2
<1>3. \A q \in account.payments : q.row <= session
  <2>1. \A q \in account.payments : q.row \in Nat
    BY <1>0, BalancedTypes DEF Payments
  <2>2. QED
    BY <1>0, <1>1, <2>1
<1>4. CASE income = 0
  <2>1. account' = account /\ audit' = audit
    BY <1>4 DEF EarnDividend, Nothing
  <2>2. account'.quantity * Row'.dividend = 0
    BY <1>1, <1>4, <2>1
  <2>3. Timely'
    BY <1>0, <1>1, <1>3, <2>1, <2>2 DEF Timely
  <2>4. QED
    BY <1>0, <2>1, <2>3 DEF LedgerInv
<1>5. CASE income # 0
  <2> DEFINE r1 == [account EXCEPT !.entry.income = @ + income]
             r2 == [r1 EXCEPT !.receivable = @ + income]
             a == [r2 EXCEPT !.payments = all]
  <2>0. account' = a /\ audit' = Audited([kind |-> "dividend", action |-> income], a)
    BY <1>0, <1>5, BalancedTypes DEF EarnDividend, Record, Accounts, Positions
  <2>1. account.quantity \in Nat /\ account.quantity > 0
    <3>1. \A n \in Nat : 0 * n = 0
      OBVIOUS
    <3>2. QED
      BY <1>0, <1>1, <1>5, <3>1, BalancedTypes
  <2>2. p \in Payments /\ p \notin account.payments /\ p.row = session /\ p.amount = income
    BY <1>0, <1>1, <1>2, <1>5 DEF Payments, Entitled
  <2> HIDE DEF income, p
  <2>3. /\ IsFiniteSet(all) /\ all \in SUBSET Payments
        /\ Amounts(all) = account.receivable + income
    BY <1>0, <2>2, AmountsAdded, BalancedTypes
  <2> HIDE DEF all
  <2>4. /\ r1 \in Accounts /\ r1.cash = account.cash /\ r1.receivable = account.receivable
        /\ r1.quantity = account.quantity /\ r1.entry = [account.entry EXCEPT !.income = @ + income]
        /\ r1.entry.cost = account.entry.cost /\ r1.entry.income = account.entry.income + income
    <3>1. account \in Accounts /\ account.entry \in Positions
      BY <1>0, BalancedTypes
    <3>2. [account.entry EXCEPT !.income = @ + income] \in Positions
      BY <1>2, <3>1 DEF Positions
    <3>3. r1.entry = [account.entry EXCEPT !.income = @ + income]
      BY <3>1 DEF Accounts
    <3>4. r1.entry.cost = account.entry.cost /\ r1.entry.income = account.entry.income + income
      BY <3>1, <3>3 DEF Positions
    <3>5. QED
      BY <3>1, <3>2, <3>3, <3>4 DEF Accounts
  <2> HIDE DEF r1
  <2>5. /\ r2 \in Accounts /\ r2.cash = account.cash /\ r2.receivable = account.receivable + income
        /\ r2.quantity = account.quantity /\ r2.entry = r1.entry
    <3>1. account.receivable + income \in Nat
      BY <1>0, <1>2, BalancedTypes
    <3>2. QED
      BY <2>4, <3>1 DEF Accounts
  <2> HIDE DEF r2
  <2>6. /\ a \in Accounts /\ a.cash = account.cash /\ a.receivable = account.receivable + income
        /\ a.quantity = account.quantity /\ a.entry = r1.entry /\ a.payments = all
    BY <2>3, <2>5 DEF Accounts
  <2> HIDE DEF a
  <2>7. Balanced(a, trades)
    <3>1. a.entry.cost = account.entry.cost /\ a.entry.income = account.entry.income + income
      BY <2>4, <2>6
    <3>2. a.cash + a.receivable + a.entry.cost - a.entry.income = Capital + Earned(trades)
      <4>1. /\ account.cash \in Int /\ account.receivable \in Int /\ income \in Int
            /\ account.entry.cost \in Int /\ account.entry.income \in Int
            /\ account.cash + account.receivable + account.entry.cost - account.entry.income
                 = Capital + Earned(trades)
        BY <1>0, <1>2, BalancedTypes
      <4>2. \A c, r, k, i, n \in Int : c + r + k - i = c + (r + n) + k - (i + n)
        OBVIOUS
      <4>3. account.cash + (account.receivable + income) + account.entry.cost
              - (account.entry.income + income) = Capital + Earned(trades)
        BY <4>1, <4>2
      <4>4. QED
        BY <2>6, <3>1, <4>3
    <3>3. IsFiniteSet(a.payments) /\ a.receivable = Amounts(a.payments) /\ a.quantity # 0
      BY <2>1, <2>3, <2>6
    <3>4. QED
      BY <1>0, <2>6, <3>2, <3>3 DEF Balanced
  <2>8. Mirrored(audit', a, trades)
    <3>1. account \in Accounts
      BY <1>0, BalancedTypes
    <3>2. /\ a.payments = account.payments \cup {Entitled(income)} /\ Entitled(income) \in Payments
          /\ a.entry = [account.entry EXCEPT !.income = @ + income]
      BY <2>2, <2>4, <2>6 DEF all, p
    <3>3. income = account.quantity * Row.dividend
      BY DEF income
    <3>4. Mirrored(Audited([kind |-> "dividend", action |-> income], a), a, trades)
      BY <1>0, <1>2, <2>1, <2>6, <3>1, <3>2, <3>3, AuditDividend
    <3>5. QED
      BY <2>0, <3>4
  <2>9. Timely'
    <3>1. /\ account'.payments = account.payments \cup {p} /\ p = Entitled(income)
          /\ account'.quantity * Row'.dividend = income
      BY <1>1, <2>0, <2>6 DEF all, p, income
    <3>3. p.row = session /\ session <= session
      BY <1>1, <2>2
    <3>4. [row |-> session', date |-> Row'.pay, amount |-> income] = p
      BY <1>0, <1>1 DEF p, Entitled
    <3>5. QED
      BY <1>0, <1>1, <1>3, <1>5, <3>1, <3>3, <3>4 DEF Timely, Entitled
  <2>10. QED
    BY <1>0, <2>0, <2>7, <2>8, <2>9 DEF LedgerInv
<1>6. QED
  BY <1>4, <1>5

LEMMA PaySameDayStep ==
  ASSUME LedgerInv, PaySameDay
  PROVE  LedgerInv'
<1> DEFINE income == account.quantity * Row.dividend
           p == Entitled(income)
           rest == account.payments \ {p}
<1>0. /\ step = "sameDay" /\ step' = "order" /\ rows' = rows /\ session' = session /\ trades' = trades
      /\ Executable(rows) /\ session \in 1..Len(rows)
      /\ Balanced(account, trades) /\ Mirrored(audit, account, trades)
      /\ \A q \in account.payments : q.row <= session /\ (q.date > Row.day \/ (income # 0 /\ q = p))
      /\ income # 0 => p \in account.payments
  BY DEF PaySameDay, Goto, LedgerInv, Timely
<1>1. /\ Row' = Row /\ Row.dividend \in Nat /\ Row.pay \in Nat /\ session \in Nat /\ Row.day \in Nat
      /\ Row.dividend > 0 => Row.pay >= Row.day
  BY <1>0, RowType DEF Row
<1>2. income \in Nat
  <2>1. \A m, n \in Nat : m * n \in Nat
    OBVIOUS
  <2>2. account.quantity \in Nat
    BY <1>0, BalancedTypes
  <2>3. QED
    BY <1>1, <2>1, <2>2
<1>3. income # 0 => Row.dividend > 0
  <2>1. \A n \in Nat : n * 0 = 0
    OBVIOUS
  <2>2. account.quantity \in Nat
    BY <1>0, BalancedTypes
  <2>3. QED
    BY <1>1, <2>1, <2>2
<1>4. p.date = Row.pay /\ p.amount = income /\ p.row = session
  BY DEF Entitled
<1>5. CASE income = 0 \/ Row.pay # Row.day
  <2>1. account' = account /\ audit' = audit
    BY <1>5 DEF PaySameDay, Nothing
  <2> HIDE DEF income, p
  <2>2. \A q \in account.payments : q.date > Row.day
    BY <1>0, <1>1, <1>3, <1>4, <1>5
  <2>3. QED
    BY <1>0, <1>1, <2>1, <2>2 DEF LedgerInv, Timely
<1>6. CASE income # 0 /\ Row.pay = Row.day
  <2> DEFINE r1 == [account EXCEPT !.cash = @ + income]
             r2 == [r1 EXCEPT !.receivable = @ - income]
             a == [r2 EXCEPT !.payments = rest]
  <2>0. account' = a /\ audit' = Audited([kind |-> "payment", action |-> income], a)
    BY <1>0, <1>6, BalancedTypes DEF PaySameDay, Record, Accounts
  <2> HIDE DEF income, p
  <2>1. /\ Due(account.payments) = {p} /\ NotDue(account.payments) = rest
        /\ \A q \in rest : q.date > Row.day
    <3>1. \A q \in account.payments : q.date \in Nat
      BY <1>0, BalancedTypes DEF Payments
    <3>2. p \in account.payments /\ ~ (p.date > Row.day) /\ p.date <= Row.day
      BY <1>0, <1>1, <1>4, <1>6
    <3>3. \A q \in rest : q.date > Row.day /\ ~ (q.date <= Row.day)
      BY <1>0, <1>1, <3>1
    <3>4. \A q \in account.payments : q = p \/ q \in rest
      OBVIOUS
    <3> HIDE DEF rest
    <3>5. rest \subseteq account.payments /\ p \notin rest
      BY DEF rest
    <3>6. QED
      BY <3>2, <3>3, <3>4, <3>5 DEF Due, NotDue
  <2>2. Amounts({p}) = income
    <3>1. p \in Payments
      BY <1>0, <1>6, BalancedTypes
    <3>2. Amounts({} \cup {p}) = Amounts({}) + p.amount
      BY <3>1, AmountsAdded, FS_EmptySet
    <3>3. {} \cup {p} = {p}
      OBVIOUS
    <3>4. QED
      BY <1>2, <1>4, <3>2, <3>3, AmountsEmpty
  <2>3. /\ account.receivable = income + Amounts(rest) /\ Amounts(rest) \in Nat
        /\ IsFiniteSet(rest) /\ rest \subseteq account.payments
    BY <1>0, <1>1, <2>1, <2>2, DueParts, BalancedTypes
  <2> HIDE DEF rest
  <2>4. /\ r1 \in Accounts /\ r1.cash = account.cash + income /\ r1.receivable = account.receivable
        /\ r1.quantity = account.quantity /\ r1.entry = account.entry
    <3>1. account \in Accounts /\ account.cash + income \in Nat
      BY <1>0, <1>2, BalancedTypes
    <3>2. QED
      BY <3>1 DEF Accounts
  <2> HIDE DEF r1
  <2>5. /\ r2 \in Accounts /\ r2.cash = account.cash + income
        /\ r2.receivable = account.receivable - income
        /\ r2.quantity = account.quantity /\ r2.entry = account.entry
    <3>1. account.receivable - income \in Nat
      BY <1>2, <2>3
    <3>2. QED
      BY <2>4, <3>1 DEF Accounts
  <2> HIDE DEF r2
  <2>6. /\ a \in Accounts /\ a.cash = account.cash + income
        /\ a.receivable = account.receivable - income
        /\ a.quantity = account.quantity /\ a.entry = account.entry /\ a.payments = rest
    <3>1. rest \in SUBSET Payments
      BY <1>0, <2>3, BalancedTypes
    <3>2. QED
      BY <2>5, <3>1 DEF Accounts
  <2> HIDE DEF a
  <2>7. Balanced(a, trades)
    BY <1>0, <1>2, <2>3, <2>6, BalancedTypes DEF Balanced
  <2>8. Mirrored(audit', a, trades)
    BY <1>0, <1>2, <2>0, <2>1, <2>2, <2>6, AuditPayment, BalancedTypes
  <2>9. \A q \in a.payments : q.row <= session /\ q.date > Row.day
    BY <1>0, <2>1, <2>3, <2>6
  <2>10. QED
    BY <1>0, <1>1, <2>0, <2>7, <2>8, <2>9 DEF LedgerInv, Timely
<1>7. QED
  BY <1>5, <1>6

\* Where an order, a mark and a liquidation may come.
Settled ==
  /\ Balanced(account, trades) /\ Mirrored(audit, account, trades)
  /\ Executable(rows) /\ session \in 1..Len(rows)
  /\ \A p \in account.payments : p.row <= session /\ p.date > Row.day

LEMMA SettledSteps ==
  ASSUME LedgerInv, step \in {"order", "mark", "end"}
  PROVE  Settled
BY DEF LedgerInv, Timely, Settled

LEMMA StaysSettled ==
  ASSUME Settled', step' \in {"order", "mark", "end", "done", "raised"}
  PROVE  LedgerInv'
BY DEF LedgerInv, Timely, Settled

\* An event that only says what was not done.
LEMMA RecordStep ==
  ASSUME Settled, NEW kind \in {"mark", "rejected", "cost_refused"}, Record([kind |-> kind], account),
         rows' = rows, session' = session, trades' = trades
  PROVE  Settled'
<1>1. account' = account /\ audit' = Audited([kind |-> kind], account)
  BY DEF Record
<1>2. Mirrored(audit', account, trades)
  BY <1>1, AuditNothing DEF Settled, Balanced
<1>3. Row' = Row
  BY DEF Row
<1>4. QED
  BY <1>1, <1>2, <1>3 DEF Settled

LEMMA NothingStep ==
  ASSUME Settled, Nothing, rows' = rows, session' = session, trades' = trades
  PROVE  Settled'
<1>1. Row' = Row
  BY DEF Row
<1>2. QED
  BY <1>1 DEF Settled, Nothing

LEMMA SellStep ==
  ASSUME Settled, account.quantity > 0, NEW quote \in Nat, NEW next \in {"mark", "done"},
         Sell(quote, next)
  PROVE  Settled' /\ step' \in {next, "raised"}
<1> DEFINE proceeds == Proceeds(quote)
           t == Closed(account.entry, proceeds)
<1>1. CASE account.cash + proceeds < 0
  BY <1>1, NothingStep DEF Sell, Proceeds, Goto
<1>2. CASE ~(account.cash + proceeds < 0)
  <2> DEFINE r1 == [account EXCEPT !.cash = @ + proceeds]
             r2 == [r1 EXCEPT !.quantity = 0]
             a == [r2 EXCEPT !.entry = Flat]
  <2>1. /\ account' = a /\ audit' = Audited([kind |-> "sell", quote |-> quote], a)
        /\ trades' = Append(trades, t)
        /\ step' = next /\ rows' = rows /\ session' = session
    BY <1>2, BalancedTypes DEF Sell, Record, Goto, Accounts, Proceeds, Settled
  <2>2. Adverse(quote) \in Int /\ session \in Int
    BY AdverseType, RowType DEF Settled
  <2>3. proceeds \in Int
    BY <2>2, BalancedTypes, AccountAssumption DEF Proceeds, Settled
  <2>4. t.pnl = proceeds - account.entry.cost + account.entry.income
    BY DEF Closed
  <2> HIDE DEF proceeds, t
  <2>5. account.cash + proceeds \in Nat
    BY <1>2, <2>3, BalancedTypes DEF Settled
  <2>6. /\ r1 \in Accounts /\ r1.cash = account.cash + proceeds /\ r1.receivable = account.receivable
        /\ r1.payments = account.payments
    BY <2>5, BalancedTypes DEF Accounts, Settled
  <2> HIDE DEF r1
  <2>7. /\ r2 \in Accounts /\ r2.cash = account.cash + proceeds /\ r2.receivable = account.receivable
        /\ r2.payments = account.payments /\ r2.quantity = 0
    BY <2>6 DEF Accounts
  <2> HIDE DEF r2
  <2>8. Flat \in Positions /\ Flat.cost = 0 /\ Flat.income = 0
    BY DEF Flat, Positions
  <2>9. /\ a \in Accounts /\ a.cash = account.cash + proceeds /\ a.receivable = account.receivable
        /\ a.payments = account.payments /\ a.quantity = 0 /\ a.entry = Flat
    BY <2>7, <2>8 DEF Accounts
  <2> HIDE DEF a
  <2>10. t \in Trade /\ Mirrored(audit', a, trades')
    <3>1. trades \in Log /\ account \in Accounts
      BY BalancedTypes DEF Settled
    <3>2. proceeds = Proceeds(quote)
      BY DEF proceeds
    <3>3. /\ Closed(account.entry, proceeds) \in Trade
          /\ Mirrored(Audited([kind |-> "sell", quote |-> quote], a), a,
                      Append(trades, Closed(account.entry, proceeds)))
      BY <2>2, <2>9, <3>1, <3>2, AuditSell DEF Settled
    <3>4. QED
      BY <2>1, <3>3 DEF t
  <2>11. trades' \in Log /\ Earned(trades') = Earned(trades) + t.pnl
    BY <2>1, <2>10, EarnedMore, BalancedTypes DEF Settled
  <2>12. a.cash + a.receivable + a.entry.cost - a.entry.income = Capital + Earned(trades')
    <3>1. /\ account.cash \in Int /\ account.receivable \in Int /\ Earned(trades) \in Int
          /\ account.entry.cost \in Int /\ account.entry.income \in Int /\ Capital \in Int
          /\ account.cash + account.receivable + account.entry.cost - account.entry.income
               = Capital + Earned(trades)
      BY BalancedTypes, AccountAssumption DEF Settled
    <3> DEFINE c == account.cash
               r == account.receivable
               k == account.entry.cost
               n == account.entry.income
               e == Earned(trades)
               earned == proceeds - k + n
    <3>2. /\ c \in Int /\ r \in Int /\ k \in Int /\ n \in Int /\ e \in Int /\ Capital \in Int
          /\ c + r + k - n = Capital + e
      BY <3>1
    <3>3. (c + proceeds) + r = Capital + (e + earned)
      <4> HIDE DEF c, r, k, n, e
      <4>1. QED
        BY <2>3, <3>2
    <3>4. a.cash + a.receivable + a.entry.cost - a.entry.income
            = (account.cash + proceeds) + account.receivable
      BY <2>3, <2>8, <2>9, <3>1
    <3>5. QED
      BY <2>4, <2>11, <3>3, <3>4
  <2>13. Balanced(a, trades')
    BY <2>9, <2>11, <2>12, BalancedTypes DEF Balanced, Settled
  <2>14. Row' = Row
    BY <2>1 DEF Row
  <2>15. QED
    BY <2>1, <2>9, <2>10, <2>13, <2>14 DEF Settled
<1>3. QED
  BY <1>1, <1>2

LEMMA BuyStep ==
  ASSUME Settled, account.quantity = 0, NEW required \in Int, required <= account.cash,
         Record([kind |-> "buy", cost |-> required],
                [account EXCEPT !.cash = @ - required, !.quantity = Shares,
                                !.entry = [row |-> session, cost |-> required, income |-> 0]]),
         rows' = rows, session' = session, trades' = trades
  PROVE  Settled'
<1> DEFINE entry == [row |-> session, cost |-> required, income |-> 0]
           r1 == [account EXCEPT !.cash = @ - required]
           r2 == [r1 EXCEPT !.quantity = Shares]
           a == [r2 EXCEPT !.entry = entry]
<1>1. account' = a /\ audit' = Audited([kind |-> "buy", cost |-> required], a)
  BY BalancedTypes DEF Record, Accounts, Settled
<1>2. session \in Int /\ Shares \in Nat /\ Shares > 0
  BY RowType, AccountAssumption DEF Settled
<1>3. entry \in Positions /\ entry.cost = required /\ entry.income = 0
  BY <1>2 DEF Positions
<1>4. account.cash - required \in Nat
  BY BalancedTypes DEF Settled
<1> HIDE DEF entry
<1>5. /\ r1 \in Accounts /\ r1.cash = account.cash - required /\ r1.receivable = account.receivable
      /\ r1.payments = account.payments
  BY <1>4, BalancedTypes DEF Accounts, Settled
<1> HIDE DEF r1
<1>6. /\ r2 \in Accounts /\ r2.cash = account.cash - required /\ r2.receivable = account.receivable
      /\ r2.payments = account.payments /\ r2.quantity = Shares
  BY <1>2, <1>5 DEF Accounts
<1> HIDE DEF r2
<1>7. /\ a \in Accounts /\ a.cash = account.cash - required /\ a.receivable = account.receivable
      /\ a.payments = account.payments /\ a.quantity = Shares /\ a.entry = entry
  BY <1>3, <1>6 DEF Accounts
<1> HIDE DEF a
<1>8. Mirrored(audit', a, trades)
  <2>1. a.entry = [row |-> session, cost |-> required, income |-> 0]
    BY <1>7 DEF entry
  <2>2. QED
    BY <1>1, <1>2, <1>7, <2>1, AuditBuy DEF Settled
<1>9. Balanced(a, trades)
  <2>1. account.entry.cost = 0 /\ account.entry.income = 0
    BY DEF Settled, Balanced, Flat
  <2>2. a.cash + a.receivable + a.entry.cost - a.entry.income = Capital + Earned(trades)
    <3>1. /\ account.cash \in Int /\ account.receivable \in Int
          /\ account.cash + account.receivable = Capital + Earned(trades)
      BY <2>1, BalancedTypes, AccountAssumption DEF Settled
    <3>2. (account.cash - required) + account.receivable + required - 0 = Capital + Earned(trades)
      BY <3>1
    <3>3. QED
      BY <1>3, <1>7, <3>2
  <2>3. QED
    BY <1>2, <1>7, <2>2, BalancedTypes DEF Balanced, Settled
<1>10. Row' = Row
  BY DEF Row
<1>11. QED
  BY <1>1, <1>7, <1>8, <1>9, <1>10 DEF Settled

LEMMA OrderStep ==
  ASSUME LedgerInv, SellAtOpen \/ BuyAtOpen \/ NoOrder
  PROVE  LedgerInv'
<1>0. step = "order" /\ Settled
  <2>1. step = "order"
    BY DEF SellAtOpen, BuyAtOpen, NoOrder
  <2>2. QED
    BY <2>1, SettledSteps
<1>1. Row.open \in Nat
  BY <1>0, RowType DEF Settled
<1>2. CASE Refuse("mark")
  BY <1>0, <1>2, RecordStep, StaysSettled DEF Refuse, Goto
<1>3. CASE SellAtOpen /\ ~ Refuse("mark")
  <2>1. account.quantity > 0 /\ Sell(Row.open, "mark")
    BY <1>3 DEF SellAtOpen
  <2>2. QED
    BY <1>0, <1>1, <2>1, SellStep, StaysSettled
<1>4. CASE BuyAtOpen /\ ~ Refuse("mark")
  <2> DEFINE required == Shares * (Row.open + Adverse(Row.open)) + Commission
  <2>0. account.quantity = 0 /\ Goto("mark") /\ trades' = trades
    BY <1>4 DEF BuyAtOpen
  <2>1. required \in Int
    <3>1. \A m, n \in Int : m * n \in Int
      OBVIOUS
    <3>2. QED
      BY <1>1, <3>1, AdverseType, AccountAssumption
  <2>2. CASE required > account.cash
    <3>1. Record([kind |-> "rejected"], account)
      BY <1>4, <2>2 DEF BuyAtOpen
    <3>2. QED
      BY <1>0, <2>0, <3>1, RecordStep, StaysSettled DEF Goto
  <2>3. CASE ~ (required > account.cash)
    <3>1. Record([kind |-> "buy", cost |-> required],
                 [account EXCEPT !.cash = @ - required, !.quantity = Shares,
                                 !.entry = [row |-> session, cost |-> required, income |-> 0]])
      BY <1>4, <2>3 DEF BuyAtOpen
    <3> HIDE DEF required
    <3>2. required <= account.cash
      BY <1>0, <2>1, <2>3, BalancedTypes DEF Settled
    <3>3. Settled'
      BY <1>0, <2>0, <2>1, <3>1, <3>2, BuyStep DEF Goto
    <3>4. QED
      BY <2>0, <3>3, StaysSettled DEF Goto
  <2>4. QED
    BY <2>2, <2>3
<1>5. CASE NoOrder
  BY <1>0, <1>5, NothingStep, StaysSettled DEF NoOrder, Goto
<1>6. QED
  BY <1>2, <1>3, <1>4, <1>5

LEMMA MarkStep ==
  ASSUME LedgerInv, Mark
  PROVE  LedgerInv'
<1>0. step = "mark" /\ Settled
  BY SettledSteps DEF Mark
<1>1. rows' = rows /\ trades' = trades /\ Record([kind |-> "mark"], account)
  BY DEF Mark
<1>2. account' = account /\ Mirrored(audit', account, trades)
  <2>1. account' = account /\ audit' = Audited([kind |-> "mark"], account)
    BY <1>1 DEF Record
  <2>2. QED
    BY <1>0, <2>1, AuditNothing DEF Settled, Balanced
<1>3. CASE session < Len(rows)
  <2>1. session' = session + 1 /\ step' = "payment"
    BY <1>3 DEF Mark
  <2>2. session \in Nat /\ session + 1 \in 1..Len(rows)
    <3>1. Len(rows) \in Nat
      BY <1>0 DEF Settled, Executable, Frames
    <3>2. QED
      BY <1>0, <1>3, <3>1 DEF Settled
  <2>3. \A p \in account.payments : p.row < session + 1
    <3>1. \A p \in account.payments : p.row \in Nat
      BY <1>0, BalancedTypes DEF Payments, Settled
    <3>2. QED
      BY <1>0, <2>2, <3>1 DEF Settled
  <2>4. QED
    BY <1>0, <1>1, <1>2, <2>1, <2>2, <2>3 DEF LedgerInv, Timely, Settled
<1>4. CASE ~ (session < Len(rows))
  <2>1. session' = session /\ step' = "end"
    BY <1>4 DEF Mark
  <2>2. Settled'
    BY <1>0, <1>1, <2>1, RecordStep
  <2>3. QED
    BY <2>1, <2>2, StaysSettled
<1>5. QED
  BY <1>3, <1>4

LEMMA LiquidateStep ==
  ASSUME LedgerInv, LiquidateAtEnd
  PROVE  LedgerInv'
<1>0. step = "end" /\ Settled
  BY SettledSteps DEF LiquidateAtEnd
<1>1. CASE Goto("done") /\ Nothing /\ trades' = trades
  BY <1>0, <1>1, NothingStep, StaysSettled DEF Goto
<1>2. CASE account.quantity > 0 /\ Sell(Row.close, "done")
  BY <1>0, <1>2, SellStep, StaysSettled, RowType DEF Settled
<1>3. CASE Refuse("done")
  BY <1>0, <1>3, RecordStep, StaysSettled DEF Refuse, Goto
<1>4. QED
  BY <1>1, <1>2, <1>3 DEF LiquidateAtEnd

LEMMA WalkStep ==
  ASSUME LedgerInv, EvenSplits, Walk
  PROVE  LedgerInv'
BY PayDueStep, ApplySplitStep, EarnDividendStep, PaySameDayStep, OrderStep, MarkStep, LiquidateStep
   DEF Walk

\* A ledger that opens: before a run, and at its first row.
LEMMA OpensSteps ==
  ASSUME account' = Opened, trades' = <<>>, audit' = Replayed,
         \/ step' = "idle"
         \/ step' = "payment" /\ Executable(rows') /\ session' = 1
  PROVE  LedgerInv'
<1>1. Balanced(account', trades') /\ Mirrored(audit', account', trades')
  BY OpenedBalances
<1>2. account'.payments = {}
  BY DEF Opened
<1>3. step' # "idle" => session' \in 1..Len(rows')
  <2>1. ASSUME NEW frame, Executable(frame)
        PROVE  1 \in 1..Len(frame)
    <3>1. frame # <<>> /\ frame \in Frames
      BY <2>1 DEF Executable
    <3>2. QED
      BY <3>1 DEF Frames
  <2>2. QED
    BY <2>1
<1>4. Timely'
  BY <1>2 DEF Timely
<1>5. QED
  BY <1>1, <1>3, <1>4 DEF LedgerInv

(* ---- The study ------------------------------------------------------------ *)

\* A declared split is the discontinuity of its row, to a quarter.
Explains(before, split, open) ==
  LET observed == before * split[2]
      declared == open * split[1]
  IN 4 * (IF observed > declared THEN observed - declared ELSE declared - observed) <= declared
SplitsExplain(frame) ==
  Executable(frame) =>
    \A i \in DOMAIN frame :
      frame[i].split # <<1, 1>> => i > 1 /\ Explains(frame[i - 1].close, frame[i].split, frame[i].open)

\* A frame is walked once it is loaded, and loaded once it is sound.
StudyInv ==
  /\ LedgerInv
  /\ stage \in {"load", "signals", "strategy", "hold", "random"}
  /\ step = "idle" => stage \in {"load", "signals"}
  /\ stage \in {"load", "signals"} => step = "idle"
  /\ DOMAIN reader = DOMAIN NoRead
  /\ stage # "load" => reader.at # "loaded" /\ SplitsExplain(rows)
  /\ reader.at = "loaded" => Sound(Loaded)

LEMMA SplitOfRow ==
  ASSUME NEW prices, NEW actions, NEW policy, SplitsReconcile(actions, prices)
  PROVE  SplitsExplain(Merged(prices, actions, policy))
<1> DEFINE frame == Merged(prices, actions, policy)
<1>1. SUFFICES ASSUME Executable(frame), NEW i \in DOMAIN frame, frame[i].split # <<1, 1>>
               PROVE  i > 1 /\ Explains(frame[i - 1].close, frame[i].split, frame[i].open)
  BY DEF SplitsExplain
<1> DEFINE splits == {a \in Range(actions) : a.kind = "split" /\ a.day = prices[i].day}
<1>2. DOMAIN frame = DOMAIN prices
  BY DEF Merged
<1>3. frame[i].split = Only({a.value : a \in splits}, NoSplit) /\ frame[i].open = prices[i].open
  BY <1>2 DEF Merged
<1>4. {a.value : a \in splits} # {}
  BY <1>1, <1>3 DEF Only, NoSplit
<1>5. frame[i].split \in {a.value : a \in splits}
  <2> DEFINE values == {a.value : a \in splits}
  <2>1. values # {} => Only(values, NoSplit) \in values
    BY DEF Only
  <2>2. QED
    BY <1>3, <1>4, <2>1
<1>6. PICK a \in splits : frame[i].split = a.value
  BY <1>5
<1>7. PICK k \in DOMAIN actions : actions[k] = a
  BY <1>6 DEF Range
<1>8. i > 1 /\ Reconciles(a, prices[i - 1], prices[i])
  BY <1>2, <1>6, <1>7 DEF SplitsReconcile
<1>9. Explains(prices[i - 1].close, frame[i].split, frame[i].open)
  BY <1>3, <1>6, <1>8 DEF Reconciles, Explains
<1>10. frame[i - 1].close = prices[i - 1].close
  <2>1. i - 1 \in DOMAIN frame
    <3>1. frame \in Frames
      BY <1>1 DEF Executable
    <3> HIDE DEF frame
    <3>2. i \in 1..Len(frame) /\ DOMAIN frame = 1..Len(frame) /\ Len(frame) \in Nat
      BY <1>1, <3>1 DEF Frames
    <3>3. QED
      BY <1>8, <3>2
  <2>2. QED
    BY <1>2, <2>1 DEF Merged
<1>11. QED
  BY <1>8, <1>9, <1>10

LEMMA LoadKeeps ==
  ASSUME DOMAIN reader = DOMAIN NoRead, reader.at = "loaded" => Sound(Loaded), Load
  PROVE  DOMAIN reader' = DOMAIN NoRead /\ (reader'.at = "loaded" => Sound(Loaded)')
<1>0. NoRead.at = "idle" /\ DOMAIN NoRead = {"at", "stem", "manifest", "prices", "actions"}
  BY DEF NoRead
<1>1. CASE reader' = reader
  BY <1>1 DEF Loaded
<1>2. CASE reader' = NoRead
  BY <1>0, <1>2
<1>3. CASE Resolve /\ reader' # reader
  BY <1>0, <1>3 DEF Resolve
<1>4. CASE (ReadPrices \/ ReadActions) /\ reader' # NoRead
  BY <1>0, <1>4 DEF ReadPrices, ReadActions, ReadMember
<1>5. CASE Validate /\ reader' # NoRead
  <2>1. reader' = [reader EXCEPT !.at = "loaded"] /\ Sound(Loaded)
    BY <1>5 DEF Validate
  <2>2. /\ reader'.prices = reader.prices /\ reader'.actions = reader.actions
        /\ reader'.manifest = reader.manifest /\ DOMAIN reader' = DOMAIN reader
    BY <1>0, <2>1
  <2>3. Loaded' = Loaded
    BY <2>2 DEF Loaded
  <2>4. QED
    BY <2>1, <2>2, <2>3
<1>6. QED
  BY <1>1, <1>2, <1>3, <1>4, <1>5 DEF Load

LEMMA StudyStep ==
  ASSUME StudyInv, EvenSplits, [Next]_vars
  PROVE  StudyInv'
<1>0. LedgerInv /\ DOMAIN reader = DOMAIN NoRead /\ NoRead.at = "idle"
  BY DEF StudyInv, NoRead
<1>1. CASE UNCHANGED vars
  <2>1. /\ UNCHANGED <<rows, session, step, account, trades, audit>> /\ UNCHANGED <<reader, stage>>
    BY <1>1 DEF vars, cacheVars, ledgerVars
  <2>2. LedgerInv' /\ Loaded' = Loaded
    BY <2>1 DEF StudyInv, LedgerInv, Timely, Row, Entitled, Loaded
  <2>3. QED
    BY <2>1, <2>2 DEF StudyInv
<1>2. CASE stage = "load" /\ (Publish \/ Load) /\ UNCHANGED <<ledgerVars, stage, matched>>
  <2>1. UNCHANGED <<rows, session, step, account, trades, audit>> /\ stage' = stage
    BY <1>2 DEF ledgerVars
  <2>2. LedgerInv'
    BY <1>0, <2>1 DEF LedgerInv, Timely, Row, Entitled
  <2>3. CASE Publish
    <3>1. reader' = reader
      BY <2>3 DEF Publish, Fetch, WritePrices, WriteActions, HashMembers, WriteManifest, Interrupt
    <3>2. Loaded' = Loaded
      BY <3>1 DEF Loaded
    <3>3. QED
      BY <2>1, <2>2, <3>1, <3>2 DEF StudyInv
  <2>4. CASE Load
    <3>1. DOMAIN reader' = DOMAIN NoRead /\ (reader'.at = "loaded" => Sound(Loaded)')
      BY <2>4, LoadKeeps DEF StudyInv
    <3>2. QED
      BY <1>2, <2>1, <2>2, <3>1 DEF StudyInv
  <2>5. QED
    BY <1>2, <2>3, <2>4
<1>3. CASE Walk /\ UNCHANGED <<cacheVars, stage, matched>>
  <2>1. reader' = reader /\ stage' = stage /\ LedgerInv'
    BY <1>0, <1>3, WalkStep DEF cacheVars
  <2>2. Loaded' = Loaded
    BY <2>1 DEF Loaded
  <2>3. rows' = rows /\ step # "idle" /\ step' # "idle"
    BY <1>3 DEF Walk, PayDue, ApplySplit, EarnDividend, PaySameDay, SellAtOpen, BuyAtOpen, NoOrder,
                Mark, LiquidateAtEnd, Sell, Refuse, Goto
  <2>4. stage \notin {"load", "signals"}
    BY <2>3 DEF StudyInv
  <2>5. QED
    BY <2>1, <2>2, <2>3, <2>4 DEF StudyInv
<1>4. CASE LoadFrame
  <2>1. /\ reader.at = "loaded" /\ reader' = NoRead /\ stage' = "signals"
        /\ rows' = Merged(Loaded.prices, Loaded.actions, Loaded.policy)
        /\ UNCHANGED <<session, step, account, trades, audit>>
    BY <1>4 DEF LoadFrame, CacheStartsOver
  <2>2. stage = "load" /\ step = "idle" /\ Sound(Loaded)
    BY <2>1 DEF StudyInv
  <2>3. SplitsExplain(rows')
    <3>1. SplitsReconcile(Loaded.actions, Loaded.prices)
      BY <2>2 DEF Sound
    <3>2. QED
      BY <2>1, <3>1, SplitOfRow
  <2>4. LedgerInv'
    BY <1>0, <2>1, <2>2 DEF LedgerInv, Timely
  <2>5. QED
    BY <1>0, <2>1, <2>2, <2>3, <2>4 DEF StudyInv
<1>5. CASE StartStrategy \/ StartHold \/ StartRandom
  <2>1. /\ account' = Opened /\ trades' = <<>> /\ audit' = Replayed /\ rows' = rows
        /\ step' = "payment" /\ session' = 1
        /\ stage' \in {"strategy", "hold", "random"} /\ reader' = reader
    BY <1>5 DEF StartStrategy, StartHold, StartRandom, Started, Begin, cacheVars
  <2>2. Executable(rows)
    BY <1>5 DEF StartStrategy, StartHold, StartRandom, StudyInv, LedgerInv
  <2>3. stage # "load"
    BY <1>5 DEF StartStrategy, StartHold, StartRandom
  <2>4. LedgerInv'
    BY <2>1, <2>2, OpensSteps
  <2>5. Loaded' = Loaded
    BY <2>1 DEF Loaded
  <2>6. QED
    BY <2>1, <2>3, <2>4, <2>5 DEF StudyInv
<1>6. CASE Finish
  <2>1. /\ account' = Opened /\ trades' = <<>> /\ audit' = Replayed
        /\ step' = "idle" /\ stage' = "load" /\ reader' = reader
    BY <1>6 DEF Finish, cacheVars
  <2>2. LedgerInv'
    BY <2>1, OpensSteps
  <2>3. Loaded' = Loaded
    BY <2>1 DEF Loaded
  <2>4. QED
    BY <2>1, <2>2, <2>3 DEF StudyInv
<1>7. QED
  BY <1>1, <1>2, <1>3, <1>4, <1>5, <1>6 DEF Next

LEMMA StudyInit == Init => StudyInv
<1>1. SUFFICES ASSUME Init PROVE StudyInv
  OBVIOUS
<1>2. /\ step = "idle" /\ stage = "load" /\ reader = NoRead /\ account = Opened /\ trades = <<>>
      /\ audit = Replayed
  BY <1>1 DEF Init, CacheInit, LedgerInit
<1>3. LedgerInv
  BY <1>2, OpenedBalances DEF LedgerInv, Timely
<1>4. NoRead.at = "idle"
  BY DEF NoRead
<1>5. QED
  BY <1>2, <1>3, <1>4 DEF StudyInv

\* run_backtest: whatever the frame, the orders and the refusals, realized P&L, dividends and
\* the cost of what is held explain cash and receivable to the unit; nothing is borrowed; and a
\* dividend is owed from its ex-date to its pay date and paid once.
THEOREM BooksBalanceCorrect == Spec /\ []EvenSplits => []BooksBalance
<1>1. StudyInv => BooksBalance
  <2>1. SUFFICES ASSUME StudyInv PROVE BooksBalance
    OBVIOUS
  <2>2. LedgerInv /\ Balanced(account, trades)
    BY <2>1 DEF StudyInv, LedgerInv
  <2>3. /\ account.cash + account.receivable + account.entry.cost - account.entry.income
             = Capital + SumFunction([i \in DOMAIN trades |-> trades[i].pnl])
        /\ account.cash >= 0 /\ account.receivable = Amounts(account.payments)
    BY <2>2, BalancedTypes DEF Earned
  <2>4. ASSUME step \in {"order", "mark", "end", "done"}
        PROVE  Due(account.payments) = {}
    <3>1. Row.day \in Nat /\ \A p \in account.payments : p.date > Row.day /\ p.date \in Nat
      BY <2>2, <2>4, RowType, BalancedTypes DEF LedgerInv, Timely, Payments
    <3>2. QED
      BY <3>1 DEF Due
  <2>5. QED
    BY <2>3, <2>4 DEF BooksBalance
<1>2. QED
  BY <1>1, StudyInit, StudyStep, PTL DEF Spec

\* equity_curve: the audit of the recorded events accepts every run and finds its trades.
THEOREM AuditAgreesCorrect == Spec /\ []EvenSplits => []AuditAgrees
<1>1. StudyInv => AuditAgrees
  BY DEF StudyInv, LedgerInv, Mirrored, AuditAgrees, LogMatches
<1>2. QED
  BY <1>1, StudyInit, StudyStep, PTL DEF Spec

\* A quarter of what is held, share by share, is a quarter of it.
LEMMA WorthKept ==
  ASSUME NEW held \in Nat, NEW whole \in Nat, NEW n \in Nat, NEW d \in Nat, d > 0,
         NEW c \in Nat, NEW o \in Nat, held * n = whole * d,
         4 * (c * d - o * n) <= o * n, 4 * (o * n - c * d) <= o * n
  PROVE  4 * (held * c - whole * o) <= whole * o /\ 4 * (whole * o - held * c) <= whole * o
<1> DEFINE before == held * c
           after == whole * o
<1>1. before \in Int /\ after \in Int
  OBVIOUS
<1>2. held * (c * d) = before * d /\ held * (o * n) = after * d
  <2>1. held * (c * d) = (held * c) * d
    OBVIOUS
  <2>2. held * (o * n) = o * (held * n)
    OBVIOUS
  <2>3. o * (whole * d) = (whole * o) * d
    OBVIOUS
  <2>4. QED
    BY <2>1, <2>2, <2>3
<1> DEFINE x == c * d
           y == o * n
<1>3. x \in Int /\ y \in Int /\ 4 * (x - y) <= y /\ 4 * (y - x) <= y
  OBVIOUS
<1>4. held * x = before * d /\ held * y = after * d
  BY <1>2
<1> HIDE DEF before, after, x, y
<1>5. 4 * (held * x - held * y) <= held * y /\ 4 * (held * y - held * x) <= held * y
  BY <1>3
<1>6. 4 * (before * d - after * d) <= after * d /\ 4 * (after * d - before * d) <= after * d
  BY <1>4, <1>5
<1>7. \A u, v \in Int : u * d <= v * d => u <= v
  OBVIOUS
<1>8. /\ (4 * (before - after)) * d <= after * d /\ (4 * (after - before)) * d <= after * d
  BY <1>1, <1>6
<1>9. 4 * (before - after) <= after /\ 4 * (after - before) <= after
  BY <1>1, <1>7, <1>8
<1>10. QED
  BY <1>9 DEF before, after

\* _validate_split_discontinuities and run_backtest: in every run over every bundle the cache
\* lets through, a split changes the shares and not what they are worth, up to the tolerance
\* of a quarter the validation gives.
THEOREM SplitsKeepWorthCorrect == Spec /\ []EvenSplits => SplitsKeepWorth
<1> DEFINE Worth ==
             step = "split" /\ account.quantity > 0 /\ Row.split /= <<1, 1>> =>
               LET before == account.quantity * rows[session - 1].close
                   after == account'.quantity * Row.open
               IN 4 * (before - after) <= after /\ 4 * (after - before) <= after
<1>1. StudyInv /\ EvenSplits /\ [Next]_vars => [Worth]_ledgerVars
  <2>1. SUFFICES ASSUME StudyInv, EvenSplits, Next, UNCHANGED ledgerVars => FALSE,
                        step = "split", account.quantity > 0, Row.split /= <<1, 1>>
                 PROVE  Worth
    BY DEF vars
  <2>2. ApplySplit
    BY <2>1 DEF Next, Walk, PayDue, EarnDividend, PaySameDay, SellAtOpen, BuyAtOpen, NoOrder, Mark,
                LiquidateAtEnd, LoadFrame, StartStrategy, StartHold, StartRandom, Finish, StudyInv
  <2>3. /\ Balanced(account, trades) /\ Executable(rows) /\ session \in 1..Len(rows)
        /\ stage \notin {"load", "signals"} /\ SplitsExplain(rows)
    BY <2>1 DEF StudyInv, LedgerInv
  <2>4. account'.quantity = (account.quantity * Row.split[1]) \div Row.split[2]
    BY <2>1, <2>2, <2>3, BalancedTypes DEF ApplySplit, Record, Accounts
  <2>5. PICK whole \in Nat : account.quantity * Row.split[1] = whole * Row.split[2]
    BY <2>1 DEF EvenSplits
  <2>6. /\ Row.split[1] \in Nat /\ Row.split[2] \in Nat /\ Row.split[2] > 0 /\ Row.open \in Nat
        /\ account.quantity \in Nat /\ session \in DOMAIN rows /\ session \in Nat
    <3>1. rows \in Frames
      BY <2>3 DEF Executable
    <3>2. session \in DOMAIN rows
      BY <2>3, <3>1 DEF Frames
    <3>3. QED
      BY <2>3, <3>2, RowType, BalancedTypes
  <2>7. account'.quantity = whole
    <3>1. \A q, n, d \in Nat : d > 0 /\ q = n * d => q \div d = n
      OBVIOUS
    <3>2. account.quantity * Row.split[1] \in Nat
      <4>1. \A m, n \in Nat : m * n \in Nat
        OBVIOUS
      <4>2. QED
        BY <2>6, <4>1
    <3>3. QED
      BY <2>4, <2>5, <2>6, <3>1, <3>2
  <2>8. session > 1 /\ Explains(rows[session - 1].close, Row.split, Row.open)
    BY <2>1, <2>3, <2>6 DEF SplitsExplain, Row
  <2>9. rows[session - 1].close \in Nat
    <3> DEFINE Bars == [day: Nat, open: Positive, close: Positive, split: Positive \X Positive, dividend: Nat, pay: Nat]
    <3>1. rows \in Seq(Bars)
      BY <2>3 DEF Executable, Frames
    <3>2. session - 1 \in 1..Len(rows)
      BY <2>3, <2>6, <2>8
    <3> HIDE DEF Bars
    <3>3. rows[session - 1] \in Bars
      BY <3>1, <3>2, ElementOfSeq
    <3>4. QED
      BY <3>3 DEF Bars, Positive
  <2> DEFINE c == rows[session - 1].close
             n == Row.split[1]
             d == Row.split[2]
             o == Row.open
  <2>10. 4 * (c * d - o * n) <= o * n /\ 4 * (o * n - c * d) <= o * n
    <3> DEFINE x == c * d
               y == o * n
    <3>1. x \in Int /\ y \in Int
      <4>1. \A k, m \in Nat : k * m \in Int
        OBVIOUS
      <4>2. QED
        BY <2>6, <2>9, <4>1
    <3>2. 4 * (IF x > y THEN x - y ELSE y - x) <= y
      BY <2>8 DEF Explains
    <3> HIDE DEF x, y
    <3>3. y >= 0
      BY <3>1, <3>2
    <3>4. 4 * (x - y) <= y /\ 4 * (y - x) <= y
      BY <3>1, <3>2, <3>3
    <3>5. QED
      BY <3>4 DEF x, y
  <2>11. account.quantity * n = whole * d
    BY <2>5
  <2>12. c \in Nat /\ o \in Nat /\ n \in Nat /\ d \in Nat /\ d > 0 /\ account.quantity \in Nat
    BY <2>6, <2>9
  <2> HIDE DEF c, n, d, o
  <2>13. /\ 4 * (account.quantity * c - whole * o) <= whole * o
         /\ 4 * (whole * o - account.quantity * c) <= whole * o
    BY <2>10, <2>11, <2>12, WorthKept
  <2>14. QED
    BY <2>7, <2>13 DEF c, o
<1>2. QED
  BY <1>1, StudyInit, StudyStep, PTL DEF Spec, SplitsKeepWorth

(* ---- The random trips ------------------------------------------------------ *)

LEMMA BeforeGrows ==
  ASSUME NEW drawn \in SUBSET Int, IsFiniteSet(drawn)
  PROVE  \A o \in drawn : /\ Before(drawn, o) \in Nat /\ Before(drawn, o) <= Cardinality(drawn) - 1
                          /\ \A x \in drawn : o < x => Before(drawn, o) + 1 <= Before(drawn, x)
<1> DEFINE below(o) == {x \in drawn : x < o}
<1>1. ASSUME NEW o \in drawn, NEW S \in SUBSET drawn, below(o) \subseteq S, o \in S
      PROVE  Cardinality(below(o)) \in Nat /\ Cardinality(below(o)) + 1 <= Cardinality(S)
  <2>1. o \notin below(o) /\ below(o) \subseteq drawn
    OBVIOUS
  <2>2. IsFiniteSet(below(o)) /\ IsFiniteSet(S)
    BY <2>1, FS_Subset
  <2> HIDE DEF below
  <2>3. Cardinality(below(o) \cup {o}) = Cardinality(below(o)) + 1 /\ Cardinality(below(o)) \in Nat
    BY <2>1, <2>2, FS_AddElement, FS_CardinalityType
  <2>4. Cardinality(below(o) \cup {o}) <= Cardinality(S)
    <3>1. below(o) \cup {o} \subseteq S
      BY <1>1
    <3>2. QED
      BY <2>2, <3>1, FS_Subset
  <2>5. QED
    BY <2>3, <2>4
<1>2. ASSUME NEW o \in drawn
      PROVE  Before(drawn, o) \in Nat /\ Before(drawn, o) <= Cardinality(drawn) - 1
  <2>1. drawn \in SUBSET drawn /\ below(o) \subseteq drawn
    OBVIOUS
  <2>2. Cardinality(below(o)) \in Nat /\ Cardinality(below(o)) + 1 <= Cardinality(drawn)
    BY <1>1, <2>1
  <2>3. Cardinality(drawn) \in Nat
    BY FS_CardinalityType
  <2> HIDE DEF below
  <2>4. Cardinality(below(o)) <= Cardinality(drawn) - 1
    BY <2>2, <2>3
  <2>5. QED
    BY <2>2, <2>4 DEF below, Before
<1>3. ASSUME NEW o \in drawn, NEW x \in drawn, o < x
      PROVE  Before(drawn, o) + 1 <= Before(drawn, x)
  <2>0. \A y \in drawn : y \in Int
    OBVIOUS
  <2>1. below(x) \in SUBSET drawn /\ below(o) \subseteq below(x) /\ o \in below(x)
    <3>1. \A y \in drawn : y < o => y < x
      BY <1>3, <2>0
    <3>2. QED
      BY <1>3, <3>1
  <2>2. Cardinality(below(o)) + 1 <= Cardinality(below(x))
    BY <1>1, <2>1
  <2>3. QED
    BY <2>2 DEF Before
<1>4. QED
  BY <1>2, <1>3

LEMMA Spaced ==
  ASSUME NEW n \in Nat, NEW trips \in Nat, NEW bars \in Nat, bars >= 1,
         NEW entries \in Entries(n, trips, bars)
  PROVE  /\ Cardinality(entries) = trips
         /\ \A i \in entries : i \in 1..n /\ i + bars \in 1..n
         /\ \A i, j \in entries : i < j => i + bars < j
<1> DEFINE room == Offsets(n, trips, bars)
<1>0. room \in Int /\ room = n - 1 - bars - (trips - 1) * bars
  BY DEF Offsets
<1>1. PICK drawn \in SUBSET (0..(room - 1)) :
        /\ Cardinality(drawn) = trips
        /\ entries = {2 + o + Before(drawn, o) * bars : o \in drawn}
  BY DEF Entries, kSubset
<1> DEFINE at(o) == 2 + o + Before(drawn, o) * bars
<1>2. IsFiniteSet(drawn) /\ drawn \in SUBSET Int
  <2>1. IsFiniteSet(0..(room - 1))
    BY <1>0, FS_Interval
  <2>2. IsFiniteSet(drawn)
    BY <1>1, <2>1, FS_Subset
  <2>3. \A o \in drawn : o \in Int
    BY <1>0, <1>1
  <2>4. QED
    BY <2>2, <2>3
<1>3. \A o \in drawn : /\ o \in Nat /\ o <= room - 1 /\ Before(drawn, o) \in Nat
                       /\ Before(drawn, o) <= trips - 1
                       /\ \A x \in drawn : o < x => Before(drawn, o) + 1 <= Before(drawn, x)
  <2>1. \A o \in drawn : o \in Nat /\ o <= room - 1
    BY <1>0, <1>1
  <2>2. QED
    BY <1>1, <1>2, <2>1, BeforeGrows
<1> HIDE DEF room
<1>4. ASSUME NEW o \in drawn, NEW x \in drawn, o < x
      PROVE  at(o) + bars < at(x)
  <2>1. \A k, m \in Nat : k + 1 <= m => k * bars + bars <= m * bars
    OBVIOUS
  <2>2. Before(drawn, o) * bars + bars <= Before(drawn, x) * bars
    BY <1>3, <1>4, <2>1
  <2>3. Before(drawn, o) * bars \in Int /\ Before(drawn, x) * bars \in Int
    BY <1>3
  <2>4. QED
    BY <1>3, <1>4, <2>2, <2>3
<1>5. ASSUME NEW o \in drawn
      PROVE  at(o) \in Int /\ 2 <= at(o) /\ at(o) + bars <= n
  <2>1. \A k, m \in Int : 0 <= k /\ k <= m => 0 <= k * bars /\ k * bars <= m * bars
    OBVIOUS
  <2>2. 0 <= Before(drawn, o) * bars /\ Before(drawn, o) * bars <= (trips - 1) * bars
    BY <1>3, <2>1
  <2>3. Before(drawn, o) * bars \in Int /\ (trips - 1) * bars \in Int
    BY <1>3
  <2>4. QED
    BY <1>0, <1>3, <2>2, <2>3
<1>6. \A o \in drawn : at(o) \in entries
  BY <1>1
<1>7. \A i \in entries : \E o \in drawn : i = at(o)
  BY <1>1
<1> HIDE DEF at
<1>8. Cardinality(entries) = trips
  <2> DEFINE f == [o \in drawn |-> at(o)]
  <2>1. \A o, x \in drawn : o # x => o < x \/ x < o
    BY <1>3
  <2>2. \A o, x \in drawn : f[o] = f[x] => o = x
    BY <1>4, <1>5, <2>1
  <2>3. f \in Bijection(drawn, entries)
    BY <1>6, <1>7, <2>2 DEF Bijection, Injection, Surjection, IsInjective
  <2>4. ExistsBijection(drawn, entries)
    BY <2>3 DEF ExistsBijection
  <2>5. QED
    BY <1>1, <1>2, <2>4, FS_Bijection
<1>9. \A i \in entries : i \in 1..n /\ i + bars \in 1..n
  BY <1>5, <1>7
<1>10. ASSUME NEW i \in entries, NEW j \in entries, i < j
       PROVE  i + bars < j
  <2>1. PICK o \in drawn : i = at(o)
    BY <1>7
  <2>2. PICK x \in drawn : j = at(x)
    BY <1>7
  <2>3. o < x
    <3>1. o # x
      BY <1>5, <1>10, <2>1, <2>2
    <3>2. ~ (x < o)
      BY <1>4, <1>5, <1>10, <2>1, <2>2
    <3>3. QED
      BY <1>3, <3>1, <3>2
  <2>4. QED
    BY <1>4, <2>1, <2>2, <2>3
<1>11. QED
  BY <1>8, <1>9, <1>10

LEMMA TripsMatch ==
  ASSUME NEW n \in Nat, NEW trips \in Nat, NEW bars \in Nat, bars >= 1,
         NEW entries \in Entries(n, trips, bars),
         NEW signals, signals = Trips(n, entries, bars)
  PROVE  LET asked(o) == {i \in DOMAIN signals : signals[i] = o} IN
           /\ Cardinality(asked("buy")) = trips
           /\ asked("sell") = {i + bars : i \in asked("buy")}
           /\ \A i, j \in asked("buy") : i < j => i + bars < j
<1> DEFINE asked(o) == {i \in DOMAIN signals : signals[i] = o}
<1>1. /\ Cardinality(entries) = trips
      /\ \A i \in entries : i \in 1..n /\ i + bars \in 1..n
      /\ \A i, j \in entries : i < j => i + bars < j
  BY Spaced
<1>2. /\ DOMAIN signals = 1..n
      /\ \A i \in 1..n : signals[i] = IF i \in entries THEN "buy"
                                      ELSE IF i - bars \in entries THEN "sell" ELSE "none"
  BY DEF Trips
<1>3. asked("buy") = entries
  BY <1>1, <1>2
<1>4. asked("sell") = {i + bars : i \in entries}
  <2>1. ASSUME NEW i \in entries
        PROVE  i + bars \in asked("sell")
    <3>1. i \in Int /\ i + bars \in 1..n /\ (i + bars) - bars = i
      BY <1>1
    <3>2. i + bars \notin entries
      <4>1. i < i + bars /\ ~ (i + bars < i + bars)
        BY <3>1
      <4>2. QED
        BY <1>1, <4>1
    <3>3. QED
      BY <1>2, <3>1, <3>2
  <2>2. ASSUME NEW j \in asked("sell")
        PROVE  j \in {i + bars : i \in entries}
    <3>1. j \in 1..n /\ j - bars \in entries
      BY <1>2
    <3>2. j = (j - bars) + bars
      BY <3>1
    <3>3. QED
      BY <3>1, <3>2
  <2>3. QED
    BY <2>1, <2>2
<1>5. QED
  BY <1>1, <1>3, <1>4

LEMMA BarsAreCounted ==
  ASSUME trades \in Log
  PROVE  MeanHoldingBars \in Nat /\ MeanHoldingBars >= 1 /\ Len(trades) \in Nat
<1> DEFINE n == Len(trades)
           f == [i \in 1..n |-> trades[i].to - trades[i].from]
           total == SumFunctionOnSet(f, 1..n)
           bars == Rounded(total, n)
<1>1. n \in Nat /\ DOMAIN trades = 1..n
  BY DEF Log
<1>2. \A i \in 1..n : f[i] \in Int
  <2>1. ASSUME NEW i \in 1..n
        PROVE  trades[i].to - trades[i].from \in Int
    <3>1. trades[i] \in Trade
      BY <1>1, <2>1 DEF Log
    <3>2. QED
      BY <3>1 DEF Trade
  <2>2. QED
    BY <2>1
<1>3. total \in Int
  <2>1. IsFiniteSet(1..n)
    BY <1>1, FS_Interval
  <2> HIDE DEF f, n
  <2>2. QED
    BY <1>2, <2>1, SumType
<1>4. CASE trades = <<>>
  BY <1>1, <1>4 DEF MeanHoldingBars
<1>5. CASE trades # <<>>
  <2>1. n > 0
    BY <1>1, <1>5 DEF Log
  <2>2. MeanHoldingBars = IF bars > 1 THEN bars ELSE 1
    BY <1>1, <1>5 DEF MeanHoldingBars, SumFunction
  <2> HIDE DEF total, n
  <2>3. bars \in Int
    BY <1>1, <1>3, <2>1 DEF Rounded
  <2> HIDE DEF bars
  <2>4. MeanHoldingBars \in Nat /\ MeanHoldingBars >= 1
    BY <2>2, <2>3
  <2>5. QED
    BY <1>1, <2>4 DEF n
<1>6. QED
  BY <1>4, <1>5

\* Once the strategy is done, what the random trips must match is settled.
TripsInv ==
  /\ stage \in {"hold", "random"} =>
       matched.trips \in Nat /\ matched.bars \in Nat /\ matched.bars >= 1
  /\ RandomTripsMatch

LEMMA TripsStep ==
  ASSUME StudyInv, TripsInv, [Next]_vars
  PROVE  TripsInv'
<1>1. CASE UNCHANGED <<orders, stage, matched>>
  BY <1>1 DEF TripsInv, RandomTripsMatch
<1>2. CASE LoadFrame \/ StartStrategy \/ Finish
  <2>1. stage' \notin {"hold", "random"}
    BY <1>2 DEF LoadFrame, StartStrategy, Started, Finish
  <2>2. QED
    BY <2>1 DEF TripsInv, RandomTripsMatch
<1>3. CASE StartHold
  <2>1. matched' = [trips |-> Len(trades), bars |-> MeanHoldingBars] /\ stage' = "hold"
    BY <1>3 DEF StartHold, Started
  <2>2. trades \in Log
    BY DEF StudyInv, LedgerInv, Balanced
  <2>3. QED
    BY <2>1, <2>2, BarsAreCounted DEF TripsInv, RandomTripsMatch
<1>4. CASE StartRandom
  <2>1. /\ matched' = matched /\ stage' = "random" /\ stage = "hold" /\ step = "done"
        /\ \E entries \in Entries(Len(rows), matched.trips, matched.bars) :
             orders' = Trips(Len(rows), entries, matched.bars)
    BY <1>4 DEF StartRandom, Started, Begin
  <2>2. Len(rows) \in Nat
    BY <2>1 DEF StudyInv, LedgerInv, Executable, Frames
  <2>3. PICK n \in Nat, trips \in Nat, bars \in Nat :
          n = Len(rows) /\ matched.trips = trips /\ matched.bars = bars /\ bars >= 1
    BY <2>1, <2>2 DEF TripsInv
  <2>4. PICK entries \in Entries(n, trips, bars) : orders' = Trips(n, entries, bars)
    BY <2>1, <2>3
  <2>5. RandomTripsMatch'
    <3> DEFINE asked(o) == {i \in DOMAIN orders' : orders'[i] = o}
    <3>1. /\ Cardinality(asked("buy")) = trips
          /\ asked("sell") = {i + bars : i \in asked("buy")}
          /\ \A i, j \in asked("buy") : i < j => i + bars < j
      BY <2>3, <2>4, TripsMatch
    <3>2. QED
      BY <2>1, <2>3, <3>1 DEF RandomTripsMatch
  <2>6. QED
    BY <2>1, <2>3, <2>5 DEF TripsInv
<1>5. QED
  BY <1>1, <1>2, <1>3, <1>4
  DEF Next, vars, ledgerVars, Walk, PayDue, ApplySplit, EarnDividend, PaySameDay, SellAtOpen, BuyAtOpen,
      NoOrder, Mark, LiquidateAtEnd, Sell, Refuse, Goto

\* random_signal: the random baseline makes as many round trips as the strategy closed, each
\* held the mean number of bars and inside the frame, none entering while another is open.
THEOREM RandomTripsMatchCorrect == Spec /\ []EvenSplits => []RandomTripsMatch
<1>1. Init => TripsInv
  BY DEF Init, TripsInv, RandomTripsMatch
<1>2. TripsInv => RandomTripsMatch
  BY DEF TripsInv
<1>3. QED
  BY <1>1, <1>2, StudyInit, StudyStep, TripsStep, PTL DEF Spec
==============================================================================

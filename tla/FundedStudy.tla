----------------------------- MODULE FundedStudy -----------------------------
(***************************************************************************)
(* The SMA tear sheet of ma_crossover_backtest over the unadjusted cache:  *)
(* load one bundle, run the strategy's account over it, then buy-and-hold, *)
(* then random trips matched to the strategy's trades, each over the same  *)
(* rows.  Once its frame is loaded a study is out of the cache's reach,    *)
(* and the cache starts over with it: what was published before a study,   *)
(* and what is while it runs, changes nothing for it.                      *)
(*                                                                         *)
(* Which closes cross which average is left open: a strategy asks for any  *)
(* orders its shifted signals could carry.                                 *)
(***************************************************************************)
EXTENDS BundleCache, FundedLedger

VARIABLES
  stage,        \* "load", "signals", "strategy", "hold", "random"
  matched       \* trades and holding bars the random trips must match

vars == <<cacheVars, ledgerVars, stage, matched>>

NoMatch == [trips |-> 0, bars |-> 0]

(* ---- The signals ------------------------------------------------------ *)

\* Shifted one row: nothing trades at the first open.
Signals(n) == {o \in [1..n -> {"buy", "sell", "none"}] : o[1] = "none"}

BuyAndHold(n) == [i \in 1..n |-> IF i = 2 THEN "buy" ELSE "none"]

\* random_signal: as many offsets as trips, drawn without replacement, sorted,
\* the k-th pushed on by the bars of the trips before it; none when the frame
\* cannot hold them.
Offsets(n, trips, bars) == n - 1 - bars - (trips - 1) * bars
Before(drawn, o) == Cardinality({x \in drawn : x < o})

\* Mutation: a trip may enter where the one before it exits.
EntriesTouching(n, trips, bars) ==
  {{2 + o + Before(drawn, o) * (bars - 1) : o \in drawn} :
     drawn \in kSubset(trips, 0..(Offsets(n, trips, bars) - 1))}

Entries(n, trips, bars) ==
  {{2 + o + Before(drawn, o) * bars : o \in drawn} :
     drawn \in kSubset(trips, 0..(Offsets(n, trips, bars) - 1))}

Fits(n, trips, bars) == trips = 0 \/ (n - 1 - bars >= 1 /\ Offsets(n, trips, bars) >= trips)

Trips(n, entries, bars) ==
  [i \in 1..n |-> IF i \in entries THEN "buy"
                  ELSE IF i - bars \in entries THEN "sell" ELSE "none"]

(* ---- The study -------------------------------------------------------- *)

Started(kind, frame, asked, withModel) ==
  /\ Begin(frame, asked, withModel)
  /\ stage' = kind

CacheStartsOver ==
  /\ disk' = NoFiles /\ writer' = [w \in Writers |-> NoWrite] /\ reader' = NoRead
  /\ faults' = 0

\* The members read, merged under the policy the bundle records.
LoadFrame ==
  /\ reader.at = "loaded"
  /\ CacheStartsOver
  /\ rows' = Merged(Loaded.prices, Loaded.actions, Loaded.policy)
  /\ stage' = "signals"
  /\ UNCHANGED <<orders, modeled, session, step, account, trades, audit, matched>>

\* The strategy's signals, shifted, over a frame the account can execute.
StartStrategy ==
  /\ stage = "signals" /\ Executable(rows)
  /\ \E asked \in Signals(Len(rows)), withModel \in BOOLEAN :
       Started("strategy", rows, asked, withModel)
  /\ UNCHANGED <<cacheVars, matched>>

\* round() of the mean: to the nearest, halves to the even bar; at least one.
Rounded(total, n) ==
  LET q == total \div n
      r == total % n
  IN IF 2 * r > n \/ (2 * r = n /\ q % 2 = 1) THEN q + 1 ELSE q
MeanHoldingBars ==
  IF trades = <<>> THEN 1
  ELSE LET bars == Rounded(SumFunction([i \in DOMAIN trades |-> trades[i].to - trades[i].from]), Len(trades))
       IN IF bars > 1 THEN bars ELSE 1

StartHold ==
  /\ stage = "strategy" /\ step = "done"
  /\ matched' = [trips |-> Len(trades), bars |-> MeanHoldingBars]
  /\ Started("hold", rows, BuyAndHold(Len(rows)), modeled)
  /\ UNCHANGED cacheVars

StartRandom ==
  /\ stage = "hold" /\ step = "done"
  /\ Fits(Len(rows), matched.trips, matched.bars)
  /\ \E entries \in Entries(Len(rows), matched.trips, matched.bars) :
       Started("random", rows, Trips(Len(rows), entries, matched.bars), modeled)
  /\ UNCHANGED <<cacheVars, matched>>

\* The study ends: reported, without a random baseline when no draw fits, or
\* with the error a fee beyond the cash raised.
Finish ==
  /\ \/ stage = "random" /\ step = "done"
     \/ stage = "hold" /\ step = "done" /\ ~Fits(Len(rows), matched.trips, matched.bars)
     \/ step = "raised"
  /\ stage' = "load" /\ matched' = NoMatch
  /\ rows' = <<>> /\ orders' = <<>> /\ modeled' = FALSE
  /\ session' = 0 /\ step' = "idle"
  /\ account' = Opened /\ trades' = <<>> /\ audit' = Replayed
  /\ UNCHANGED cacheVars

Init ==
  /\ CacheInit /\ LedgerInit
  /\ stage = "load" /\ matched = NoMatch

Next ==
  \/ stage = "load" /\ (Publish \/ Load) /\ UNCHANGED <<ledgerVars, stage, matched>>
  \/ Walk /\ UNCHANGED <<cacheVars, stage, matched>>
  \/ LoadFrame \/ StartStrategy \/ StartHold \/ StartRandom \/ Finish

Spec == Init /\ [][Next]_vars

\* The random baseline asks for exactly as many round trips as the strategy
\* closed, each held the mean number of bars and inside the frame, none
\* entering while another is open (random_signal's promise, on which the
\* comparison with the strategy rests).
RandomTripsMatch ==
  stage = "random" =>
    LET asked(o) == {i \in DOMAIN orders : orders[i] = o} IN
      /\ Cardinality(asked("buy")) = matched.trips
      /\ asked("sell") = {i + matched.bars : i \in asked("buy")}
      /\ \A i, j \in asked("buy") : i < j => i + matched.bars < j
==============================================================================

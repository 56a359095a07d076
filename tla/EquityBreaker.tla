---------------------------- MODULE EquityBreaker ----------------------------
(***************************************************************************)
(* The arithmetic of the loss breaker: SafetyGate._observe_equity_locked   *)
(* of scripts/live_safety_gate.py, as pure operators.  A breaker record is *)
(* what the code keeps in kv_state between two observations:               *)
(*                                                                         *)
(*   session    last_session (day_start_session always equals it)          *)
(*   dayStart   day_start_equity                                           *)
(*   adjusted   adjusted_equity, the cash-flow-adjusted series             *)
(*   raw        last_raw_equity                                            *)
(*   high       session_high                                               *)
(*   closes     prior_session_closes, oldest first                         *)
(*                                                                         *)
(* Percentages are integers out of 100 and every quotient of the code is   *)
(* compared by cross-multiplication, with the sign of the divisor kept: a  *)
(* division by a negative base turns the inequality round in the code too. *)
(* Rounding of binary floats is not modelled.                              *)
(***************************************************************************)
EXTENDS Integers, Sequences, FiniteSetsExt

NoSession == 0          \* last_session is None: nothing was ever observed

Unobserved ==
  [session |-> NoSession, dayStart |-> 0, adjusted |-> 0, raw |-> 0,
   high |-> 0, closes |-> <<>>]

\* Mutation: reaching the limit exactly does not count.
FallsByMore(level, base, pct) ==
  \/ base > 0 /\ 100 * level < (100 - pct) * base
  \/ base < 0 /\ 100 * level > (100 - pct) * base

\* level / base - 1 <= -pct/100, for base # 0.
FallsBy(level, base, pct) ==
  \/ base > 0 /\ 100 * level <= (100 - pct) * base
  \/ base < 0 /\ 100 * level >= (100 - pct) * base

\* (closes + [close])[-window:]
PushClose(closes, close, window) ==
  LET all == Append(closes, close)
  IN  IF Len(all) > window THEN SubSeq(all, Len(all) - window + 1, Len(all)) ELSE all

\* The breaker after one trusted observation: the first one ever, one that
\* opens another session, or one more of the session already open.
Observed(b, day, equity, flow, window) ==
  LET level == b.adjusted + (equity - b.raw) - flow IN
  CASE b.session = NoSession ->
         [session |-> day, dayStart |-> equity, adjusted |-> equity,
          raw |-> equity, high |-> equity, closes |-> <<>>]
    [] b.session # NoSession /\ day # b.session ->
         [session |-> day, dayStart |-> level, adjusted |-> level,
          raw |-> equity, high |-> level,
          closes |-> PushClose(b.closes, b.adjusted, window)]
    [] b.session # NoSession /\ day = b.session ->
         [session |-> day, dayStart |-> b.dayStart, adjusted |-> level,
          raw |-> equity, high |-> Max({b.high, level}), closes |-> b.closes]

HighWater(b) == Max({b.high} \cup {b.closes[i] : i \in DOMAIN b.closes})

DailyBreach(b, cfg)   == FallsBy(b.adjusted, b.dayStart, cfg.dailyPct)
RollingBreach(b, cfg) == FallsBy(b.adjusted, HighWater(b), cfg.rollingPct)

\* Neither quotient divides by zero.  When one does, the exception rolls the
\* whole transaction back.
Measurable(b) == b.dayStart # 0 /\ HighWater(b) # 0
==============================================================================

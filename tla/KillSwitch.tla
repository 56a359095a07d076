----------------------------- MODULE KillSwitch -----------------------------
(***************************************************************************)
(* The kill switch with the operators around it.  Each asks the broker     *)
(* about its kill state on his own account and hands the answer to the     *)
(* gate later (BrokerKillQuery, POST /kill/confirm): between the two,      *)
(* another may request the kill, reset it, or hand in what he heard.       *)
(*                                                                         *)
(* Every change of the latch is written, in its own transaction, to the    *)
(* evidence log of the database.  Halts are SafetyGate's subject and stay  *)
(* as they are here.                                                       *)
(***************************************************************************)
EXTENDS SafetyGate

CONSTANTS
  Answers,    \* what the broker may answer
  MaxLog      \* bound: entries of the evidence log

ASSUME KillSwitchAssumption == Answers \subseteq KillQueries /\ MaxLog \in Nat

VARIABLES
  log,        \* table evidence_log, its kill entries
  answer      \* answer[p]: what the broker told p last

switchVars == <<vars, log, answer>>

NoAnswer == [answered |-> "never"]

\* "attested" is logged with a reset.
Entry(event, attested) == [event |-> event, attested |-> attested]
Plain(event) == Entry(event, FALSE)

\* _log_locked
Log(entries) ==
  /\ Len(log) + Len(entries) <= MaxLog
  /\ log' = log \o entries

OpenGate(p, c) == Open(p, c) /\ UNCHANGED <<log, answer>>
CloseGate(p) == Close(p) /\ UNCHANGED <<log, answer>>

\* The broker says what it says, now.
AskBroker(p) ==
  /\ \E q \in Answers : answer' = [answer EXCEPT ![p] = q]
  /\ UNCHANGED <<vars, log>>

RequestSwitch(p) ==
  /\ RequestKill(p)
  /\ Log(<<Plain("KILL_REQUESTED")>>)
  /\ UNCHANGED answer

\* An answer may be handed in late, or twice.
HandIn(p) ==
  /\ answer[p] # NoAnswer
  /\ ConfirmKill(p, answer[p])
  /\ Log(IF Confirms(answer[p]) THEN <<Plain("KILL_CONFIRMED")>>
         ELSE IF killConfirmed THEN <<Plain("KILL_STATUS"), Plain("KILL_CONFIRMATION_REVOKED")>>
         ELSE <<Plain("KILL_STATUS")>>)
  /\ UNCHANGED answer

ResetSwitch(p, attested) ==
  /\ ResetKill(p, attested)
  /\ Log(<<Entry("KILL_RESET", attested)>>)
  /\ UNCHANGED answer

SwitchInit ==
  /\ Init
  /\ log = <<>>
  /\ answer = [p \in Procs |-> NoAnswer]

SwitchNext ==
  \/ \E p \in Procs, c \in Configs : OpenGate(p, c)
  \/ \E p \in Procs : CloseGate(p) \/ AskBroker(p) \/ RequestSwitch(p) \/ HandIn(p)
  \/ \E p \in Procs, attested \in BOOLEAN : ResetSwitch(p, attested)

SwitchSpec == SwitchInit /\ [][SwitchNext]_switchVars

-----------------------------------------------------------------------------
(***************************************************************************)
(* Properties.                                                             *)
(***************************************************************************)
\* A confirmation counts until the kill is requested again or reset, and until
\* any other answer is handed in.
Overtakes(entry) == entry.event \in {"KILL_REQUESTED", "KILL_STATUS", "KILL_RESET"}

\* As entry n is written, the confirmation of entry m is in force.
InForce(m, n) ==
  /\ log[m].event = "KILL_CONFIRMED"
  /\ \A k \in (m + 1)..(n - 1) : ~Overtakes(log[k])

RestsOnConfirmation(n) == log[n].event = "KILL_RESET" /\ ~log[n].attested

\* The log accounts for every re-enablement: what was reset without an
\* attestation was confirmed, and nothing had come in since that speaks against
\* it (spec 032, recovery; the audit defect of tests/test_032_kill_confirmed.py).
ResetsAreJustified ==
  \A n \in DOMAIN log : RestsOnConfirmation(n) => \E m \in 1..(n - 1) : InForce(m, n)
=============================================================================

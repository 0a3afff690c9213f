--------------------------- MODULE StrategyStates ---------------------------
(***************************************************************************)
(* The lifecycle states of a strategy and the gates on its transitions:    *)
(* core/domain/enums.py (StrategyState) and core/domain/state_machine.py.  *)
(* The module is pure; Ledger and LedgerTx read a strategy row's state     *)
(* through these operators, as core/ledger/writer.py does.                 *)
(***************************************************************************)
EXTENDS Integers

SEEDED              == "seeded"
ACTIVE              == "active"
LOW_BANKROLL_PAUSED == "low_bankroll_paused"
DRAWDOWN_PAUSED     == "drawdown_paused"
OPERATOR_PAUSED     == "operator_paused"
DECOMMISSIONED      == "decommissioned"

StrategyState ==
    { SEEDED, ACTIVE, LOW_BANKROLL_PAUSED, DRAWDOWN_PAUSED,
      OPERATOR_PAUSED, DECOMMISSIONED }

PAUSABLE_STATES               == { ACTIVE }

\* Mutant: no state blocks deposits.
NoStates == {}

RESUMABLE_STATES              == { LOW_BANKROLL_PAUSED, DRAWDOWN_PAUSED, OPERATOR_PAUSED }
AUTO_RESUME_ON_DEPOSIT_STATES == { LOW_BANKROLL_PAUSED }
SIGNAL_EMITTING_STATES        == { ACTIVE }
DEPOSIT_BLOCKED_STATES        == { DECOMMISSIONED }

can_pause(st)  == st \in PAUSABLE_STATES
can_resume(st) == st \in RESUMABLE_STATES

ResumeTarget == ACTIVE

\* Mutant: the name of the system's state, which no strategy state has.
SystemPaused == "paused"

PauseTarget == OPERATOR_PAUSED

\* state_machine.should_auto_resume_on_deposit; both seeded configurations set
\* auto_resume_on_deposit, so that flag is not a parameter.
should_auto_resume_on_deposit(st, new_bankroll, min_bankroll) ==
    /\ st \in AUTO_RESUME_ON_DEPOSIT_STATES
    /\ new_bankroll >= min_bankroll

\* kelly is the Kelly fraction in percent, 0..100.
can_emit_signals(enabled, st, kelly) ==
    /\ enabled
    /\ st \in SIGNAL_EMITTING_STATES
    /\ kelly > 0
=============================================================================

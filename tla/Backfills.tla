------------------------------- MODULE Backfills -------------------------------
(***************************************************************************)
(* What is run beside the bot.  Four scripts complete its tables: the trade  *)
(* ledger from the trades, the outcomes of signals from the daily bars, the  *)
(* profits of paper trades from their prices, and the shared database from   *)
(* old files.  They read and write different tables, and each may be run at   *)
(* any time.  Two others learn from the past: parameters for the strategy,   *)
(* and the meta-model.                                                      *)
(***************************************************************************)
EXTENDS OutcomeBackfill, LedgerBackfill, PnlRepair, SqliteImport, ParameterSearch, ModelArtifacts

\* What the scripts write is written once, on the rows they chose, and says what is final,
\* whatever the bot writes meanwhile (backfill_trade_ledger, backfill_signal_outcomes,
\* backfill_paper_pnl, import_sqlite_to_postgres).
BackfillsSound == BackfilledOnce /\ BackfillKeepsFaith /\ RepairSound /\ ImportSound

\* What is learnt is learnt as it says: the parameters of a search, the meta-model of a training
\* (optimizer.py, recalibrate_champion.py, meta_model.py).
LearntSound == SearchesSound /\ ArtifactsCohere
=============================================================================

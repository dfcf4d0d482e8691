------------------------------- MODULE PnlRepair -------------------------------
(***************************************************************************)
(* The script backfill_paper_pnl: closed paper trades whose profit an old    *)
(* version left empty, or took from a sibling, get the profit that their own *)
(* prices give, and every row the script decides on is written down in the   *)
(* audit table.  The bot goes on closing trades meanwhile, the script may be *)
(* run twice at once, and each of its reads and writes is a transaction.     *)
(*                                                                         *)
(* Profits are in hundredths of a percent.                                  *)
(***************************************************************************)
EXTENDS Integers, Sequences, FiniteSets

CONSTANTS
    Repairs,        \* runs of the script that may be under way together
    NRepairTrades,  \* bound on the rows of paper_trades, numbered by their id
    LegacyTrades,   \* bound on the rows there are: [dir, entry, exit, profit]
    ExitPrices,     \* bound on the prices at which the bot closes a trade
    MaxAudits,      \* bound on the audit rows of a trade
    Unset           \* NULL

\* FEE_DELTA_TOLERANCE, OUTLIER_ABS_PCT, and the costs of a purchase and a sale.
FeeDelta == 30
Outlier == 9990
PurchaseCost == 2
SaleCost == 16

\* The direction is that of the column or of the signal type, "unknown" if neither tells.
ASSUME PnlRepairAssumption ==
    /\ NRepairTrades \in Nat /\ MaxAudits \in Nat /\ ExitPrices \subseteq Nat \ {0} /\ Unset \notin Int
    /\ \A r \in LegacyTrades :
           /\ r = [dir |-> r.dir, entry |-> r.entry, exit |-> r.exit, profit |-> r.profit]
           /\ r.dir \in {"long", "short", "unknown"} /\ r.entry \in Int
           /\ {r.exit, r.profit} \subseteq Int \cup {Unset}
           /\ r.exit = Unset => r.profit = Unset

VARIABLES
    papers,   \* the rows of paper_trades
    audit,    \* paper_pnl_backfill_audit, by trade in the order of ids: old, new, status
    repair,   \* what a run of the script is doing
    guarded,  \* chk_paper_profit_filled_on_exit stands
    left      \* history: the profit that the bot left in a row

pnlVars == <<papers, audit, repair, guarded, left>>

RepairIds == 1..NRepairTrades
NothingRead == [t \in RepairIds |-> Unset]
Repairing(pc, staged, read, drift) == [pc |-> pc, staged |-> staged, read |-> read, drift |-> drift]
AtEase == Repairing("idle", {}, NothingRead, FALSE)
Quarantines == {"QUARANTINE_DIRECTION", "QUARANTINE_PRICE", "QUARANTINE_OUTLIER"}
Rewrites == {"REPAIRED", "DRIFT_REPAIRED"}

PnlTypeOK ==
    /\ papers \in [RepairIds -> [dir : {"long", "short", "unknown"}, entry : Int,
                                 exit : Int \cup {Unset}, profit : Int \cup {Unset}]]
    /\ audit \in [RepairIds -> Seq([old : Int \cup {Unset}, new : Int \cup {Unset},
                                    status : Quarantines \cup Rewrites])]
    /\ repair \in [Repairs -> [pc : {"idle", "checked", "listed", "applied", "drifting"},
                               staged : SUBSET RepairIds, drift : BOOLEAN,
                               read : [RepairIds -> Int \cup {Unset}]]]
    /\ guarded \in BOOLEAN /\ left \in [RepairIds -> Int \cup {Unset}]

PnlInit ==
    /\ papers \in [RepairIds -> LegacyTrades]
    /\ audit = [t \in RepairIds |-> <<>>]
    /\ repair = [s \in Repairs |-> AtEase]
    /\ guarded = FALSE
    /\ left = [t \in RepairIds |-> papers[t].profit]

-----------------------------------------------------------------------------
(* What a row's own prices give. *)

Amount(x) == IF x < 0 THEN -x ELSE x
Gain(r) == ((IF r.dir = "short" THEN r.entry - r.exit ELSE r.exit - r.entry) * 10000) \div r.entry
Costs(r) == (IF r.dir = "short" THEN PurchaseCost * r.exit + SaleCost * r.entry
             ELSE PurchaseCost * r.entry + SaleCost * r.exit) \div r.entry

\* net_profit_pct; a direction that is not known counts as long for the bot.
OwnProfit(r) == IF r.entry <= 0 THEN 0 ELSE Gain(r) - Costs(r)

WithOwnProfit(r) == [r EXCEPT !.profit = OwnProfit(r)]

Left(r) == r.exit # Unset
Lacking(r) == Left(r) /\ r.profit = Unset
Comparable(r) == Left(r) /\ r.profit # Unset /\ r.dir # "unknown" /\ r.entry > 0
Drifts(r) == Comparable(r) /\ Amount(r.profit - OwnProfit(r)) > FeeDelta

\* The verdict on a row that lacks its profit; only the last status leads to a write.
Verdict(r) ==
    IF r.dir = "unknown" THEN "QUARANTINE_DIRECTION"
    ELSE IF r.entry <= 0 \/ r.exit <= 0 THEN "QUARANTINE_PRICE"
    ELSE IF Amount(OwnProfit(r)) > Outlier THEN "QUARANTINE_OUTLIER"
    ELSE "REPAIRED"

-----------------------------------------------------------------------------
\* The bot closes a trade, its profit in the same write (_close_trade, close_paper_trade).
ClosesRow(t, price) ==
    LET closed == WithOwnProfit([papers[t] EXCEPT !.exit = price])
    IN  /\ ~Left(papers[t])
        /\ papers' = [papers EXCEPT ![t] = closed]
        /\ left' = [left EXCEPT ![t] = closed.profit]
        /\ UNCHANGED <<audit, repair, guarded>>

\* crosscheck_existing: more than one in twenty of the rows that can be compared drift, and the
\* script goes no further unless it was given leave.
CrossChecks(s, allowed, drift) ==
    LET checked == {t \in RepairIds : Comparable(papers[t])}
        unexpected == {t \in checked : Drifts(papers[t])}
    IN  /\ repair[s].pc = "idle"
        /\ 20 * Cardinality(unexpected) > Cardinality(checked) => allowed
        /\ repair' = [repair EXCEPT ![s] = Repairing("checked", {}, NothingRead, drift)]
        /\ UNCHANGED <<papers, audit, guarded, left>>

\* _audit_rows_for, cut down to one trade or to the first few.
ListsLacking(s, chosen) ==
    /\ repair[s].pc = "checked"
    /\ \A t \in chosen : Lacking(papers[t])
    /\ repair' = [repair EXCEPT ![s] = Repairing("listed", chosen, NothingRead, repair[s].drift)]
    /\ UNCHANGED <<papers, audit, guarded, left>>

Audited(t, old, new, status) == Append(audit[t], [old |-> old, new |-> new, status |-> status])

\* The candidates in one transaction, by id: prices and direction of a closed row do not change,
\* so that the verdict is that of the listing.
AppliesRepairs(s) ==
    LET mine == repair[s].staged
        mended == {t \in mine : Verdict(papers[t]) = "REPAIRED"}
    IN  /\ repair[s].pc = "listed"
        /\ \A t \in mine : Len(audit[t]) < MaxAudits
        /\ audit' = [t \in RepairIds |->
                IF t \in mine
                THEN Audited(t, Unset, IF t \in mended THEN OwnProfit(papers[t]) ELSE Unset, Verdict(papers[t]))
                ELSE audit[t]]
        /\ papers' = [t \in RepairIds |->
                IF t \in mended THEN WithOwnProfit(papers[t]) ELSE papers[t]]
        /\ repair' = [repair EXCEPT ![s] = Repairing("applied", {}, NothingRead, repair[s].drift)]
        /\ UNCHANGED <<guarded, left>>

\* _repair_drifted_rows reads; what it would make an outlier it leaves.
FindsDrift(s) ==
    LET found == {t \in RepairIds : Drifts(papers[t]) /\ Amount(OwnProfit(papers[t])) <= Outlier}
    IN  /\ repair[s].pc = "applied" /\ repair[s].drift
        /\ repair' = [repair EXCEPT ![s] =
                Repairing("drifting", found, [t \in RepairIds |-> papers[t].profit], TRUE)]
        /\ UNCHANGED <<papers, audit, guarded, left>>

\* It writes what it found, by id, beside the old value that it read.
RepairsDrift(s) ==
    LET mine == repair[s].staged
    IN  /\ repair[s].pc = "drifting"
        /\ \A t \in mine : Len(audit[t]) < MaxAudits
        /\ audit' = [t \in RepairIds |->
                IF t \in mine
                THEN Audited(t, repair[s].read[t], OwnProfit(papers[t]), "DRIFT_REPAIRED") ELSE audit[t]]
        /\ papers' = [t \in RepairIds |->
                IF t \in mine THEN WithOwnProfit(papers[t]) ELSE papers[t]]
        /\ repair' = [repair EXCEPT ![s] = Repairing("applied", {}, NothingRead, FALSE)]
        /\ UNCHANGED <<guarded, left>>

\* add_check_constraint after a run that applied: refused while a closed trade lacks its profit,
\* as the quarantined ones do.
AddsGuard(s) ==
    /\ repair[s].pc = "applied" /\ ~repair[s].drift /\ ~guarded
    /\ \A t \in RepairIds : ~Lacking(papers[t])
    /\ guarded' = TRUE
    /\ repair' = [repair EXCEPT ![s] = AtEase]
    /\ UNCHANGED <<papers, audit, left>>

\* A dry run ends, there is nothing more to do, or the script dies between two transactions.
LeavesRepair(s) ==
    /\ repair[s].pc # "idle"
    /\ repair' = [repair EXCEPT ![s] = AtEase]
    /\ UNCHANGED <<papers, audit, guarded, left>>

PnlNext ==
    \/ \E t \in RepairIds, price \in ExitPrices : ClosesRow(t, price)
    \/ \E s \in Repairs :
        \/ \E allowed, drift \in BOOLEAN : CrossChecks(s, allowed, drift)
        \/ \E chosen \in SUBSET RepairIds : ListsLacking(s, chosen)
        \/ AppliesRepairs(s) \/ FindsDrift(s) \/ RepairsDrift(s) \/ AddsGuard(s) \/ LeavesRepair(s)

PnlSpec == PnlInit /\ [][PnlNext]_pnlVars

-----------------------------------------------------------------------------
\* A profit that is not the one the bot left stands in the audit table, and it is what the
\* row's own prices give, never a sibling's; a row that was sound is never written
\* (run_backfill, _repair_drifted_rows).
RewritesAudited ==
    \A t \in RepairIds :
        papers[t].profit # left[t] =>
            /\ papers[t].profit = OwnProfit(papers[t])
            /\ left[t] = Unset \/ Amount(left[t] - OwnProfit(papers[t])) > FeeDelta
            /\ \E i \in 1..Len(audit[t]) : /\ audit[t][i].status \in Rewrites
                                           /\ audit[t][i].old = left[t]
                                           /\ audit[t][i].new = papers[t].profit

\* What is quarantined stays without a profit, and the rest of the run does not write it either
\* (STATUS_QUARANTINE_...).
QuarantineHolds ==
    \A t \in RepairIds : \A i \in 1..Len(audit[t]) :
        audit[t][i].status \in Quarantines => Lacking(papers[t])

\* Once the constraint stands no write of the bot or of the script goes against it
\* (add_check_constraint).
GuardNeverTrips == guarded => \A t \in RepairIds : ~Lacking(papers[t])

\* The repair tells what it did, and does nothing else.
RepairSound == RewritesAudited /\ QuarantineHolds /\ GuardNeverTrips
=============================================================================

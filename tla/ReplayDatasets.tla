---------------------------- MODULE ReplayDatasets ----------------------------
(***************************************************************************)
(* The datasets that signal_replay makes of the signals of a ticker.  The    *)
(* first signal of every episode is found in one pass by                    *)
(* build_dataset_episodes; build_dataset_first_actionable and               *)
(* evaluate_hysteresis cut the same signals into slices and look inside      *)
(* them.  Two ways of saying what an episode is.                            *)
(*                                                                         *)
(* The signals are saved one after the other, each with a day; bars are      *)
(* there for some of the days.                                              *)
(***************************************************************************)
EXTENDS Naturals, Sequences, FiniteSets, SequencesExt

CONSTANTS
    NSaved,      \* bound on signals
    LastSaved,   \* bound on days
    BarDays,     \* the days with a bar
    MaxGapBars   \* max_gap_bars

\* Directions that occur: RADAR and other signals without one take no part, or little.
Kinds == {"long", "short", "radar", "none"}

ASSUME DatasetAssumption == {NSaved, LastSaved, MaxGapBars} \subseteq Nat /\ BarDays \subseteq Nat

VARIABLE saved   \* the signals in the order of their timestamps: [kind, day, actionable]

datasetVars == <<saved>>

DatasetTypeOK ==
    /\ Len(saved) <= NSaved
    /\ \A i \in 1..Len(saved) : saved[i] \in [kind : Kinds, day : 1..LastSaved, actionable : BOOLEAN]

DatasetInit == saved = <<>>

\* A signal without a direction is not actionable.
SavesSignal(kind, day, actionable) ==
    /\ Len(saved) < NSaved
    /\ saved # <<>> => saved[Len(saved)].day <= day
    /\ actionable => kind \in {"long", "short"}
    /\ saved' = Append(saved, [kind |-> kind, day |-> day, actionable |-> actionable])

DatasetNext ==
    \E kind \in Kinds, day \in 1..LastSaved, actionable \in BOOLEAN : SavesSignal(kind, day, actionable)

DatasetSpec == DatasetInit /\ [][DatasetNext]_datasetVars

-----------------------------------------------------------------------------
DirOf(s) == IF s.kind = "radar" THEN "none" ELSE s.kind

\* build_dataset_raw: the first signal of a direction and day.
Raw(signals) ==
    LET first(i) == \A j \in 1..(i - 1) : \/ DirOf(signals[j]) # DirOf(signals[i])
                                          \/ signals[j].day # signals[i].day
        kept == SelectSeq([i \in 1..Len(signals) |-> i], first)
    IN  [k \in 1..Len(kept) |-> signals[kept[k]]]

WithoutRadar(signals) == SelectSeq(signals, LAMBDA s : s.kind # "radar")

\* More than max_gap_bars bars apart; with no bar on or after a day nothing is.
FarApart(d, e) ==
    /\ \E b \in BarDays : b >= e
    /\ Cardinality({b \in BarDays : d <= b /\ b < e}) > MaxGapBars

\* build_dataset_episodes: the direction and the day of the signal before are carried along.
Episodes(signals) ==
    LET step(acc, s) ==
            IF acc.dir # DirOf(s) \/ (acc.last # 0 /\ FarApart(acc.last, s.day))
            THEN [dir |-> DirOf(s), last |-> s.day, heads |-> Append(acc.heads, s)]
            ELSE [acc EXCEPT !.last = s.day]
    IN  FoldLeft(step, [dir |-> "none", last |-> 0, heads |-> <<>>],
                 WithoutRadar(Raw(signals))).heads

\* The slices of build_dataset_first_actionable and evaluate_hysteresis.
Slices(signals) ==
    LET step(acc, s) ==
            LET open == acc[Len(acc)]
                before == open[Len(open)]
            IN  IF acc = <<>> \/ DirOf(before) # DirOf(s) \/ FarApart(before.day, s.day)
                THEN Append(acc, <<s>>)
                ELSE Append(Front(acc), Append(open, s))
    IN  FoldLeft(step, <<>>, WithoutRadar(Raw(signals)))

Actionable(slice) == SelectSeq(slice, LAMBDA s : s.actionable)
NonEmpty(slices) == SelectSeq(slices, LAMBDA slice : slice # <<>>)
MapTo(Op(_), seq) == [i \in 1..Len(seq) |-> Op(seq[i])]

\* build_dataset_first_actionable.
FirstActionable(signals) == MapTo(Head, NonEmpty(MapTo(Actionable, Slices(signals))))

\* evaluate_hysteresis: the second actionable signal of an episode.
Confirmed(signals) ==
    MapTo(LAMBDA slice : slice[2],
          SelectSeq(MapTo(Actionable, Slices(signals)), LAMBDA slice : Len(slice) >= 2))

-----------------------------------------------------------------------------
\* The first signals of the episodes are the heads of the slices, but for signals without a
\* direction at the very beginning, which are an episode only in slices; hence every
\* actionable signal that is taken, and every one that confirms it, is of an episode that is listed
\* (build_dataset_episodes, build_dataset_first_actionable, evaluate_hysteresis).
EpisodesAgree ==
    LET heads == MapTo(Head, Slices(saved))
    IN  Episodes(saved) = IF heads # <<>> /\ DirOf(heads[1]) = "none" THEN Tail(heads) ELSE heads
=============================================================================

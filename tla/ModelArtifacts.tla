----------------------------- MODULE ModelArtifacts -----------------------------
(***************************************************************************)
(* The meta-model's directory: a training saves five files and a manifest of *)
(* their hashes, one after the other, and whoever runs an ablation verifies  *)
(* the manifest and then reads the files, one after the other, perhaps while *)
(* a training saves over them or has died doing so.                         *)
(*                                                                         *)
(* A file's content is the number of the training that wrote it: no two      *)
(* trainings write the same.  A training without the xgboost package saves   *)
(* its model under another name.  Files that only older versions wrote are   *)
(* left out.                                                                *)
(***************************************************************************)
EXTENDS Naturals

CONSTANTS
    Trainers,     \* processes that train into the directory
    NTrainings,   \* bound on trainings, numbered
    TrustModes    \* CALIBRATOR_TRUST of those who load

ASSUME ArtifactAssumption == NTrainings \in Nat /\ TrustModes \subseteq {"warn", "enforce"}

VARIABLES
    files,      \* what stands in the directory: 0 for no file, Torn for one cut off
    manifest,   \* artifact_manifest.json: its state, the hashes by file, and whether it is signed
    training,   \* what a trainer is doing
    trained,    \* the trainings begun so far
    flatRuns,       \* those whose calibrator was fitted to one probability alone
    loading     \* what the load is doing, what it has read, and (history) from a sound directory

artifactVars == <<files, manifest, training, trained, flatRuns, loading>>

Trainings == 1..NTrainings
Torn == NTrainings + 1
Contents == 0..Torn
Saved == {"calibrator", "columns", "training", "metrics"}
FileNames == Saved \cup {"ubj", "joblib"}
ModelName(native) == IF native THEN "ubj" ELSE "joblib"
\* The files of a training in the order in which they are saved.
Saves(native) == <<ModelName(native), "calibrator", "columns", "training", "metrics">>

NoFiles == [n \in FileNames |-> 0]
Manifest(state, hash, native, signed, alone) ==
    [state |-> state, hash |-> hash, native |-> native, signed |-> signed, alone |-> alone]
NoManifest == Manifest("none", NoFiles, TRUE, FALSE, TRUE)
TrainerAt(pc, run, native, alone) == [pc |-> pc, run |-> run, native |-> native, alone |-> alone]
Resting0 == TrainerAt(0, 0, TRUE, TRUE)
Read == Saved \cup {"model"}
Loads(pc, native, sound, got) == [pc |-> pc, native |-> native, sound |-> sound, got |-> got]
NoLoad == Loads("idle", TRUE, FALSE, [a \in Read |-> 0])

ArtifactTypeOK ==
    /\ files \in [FileNames -> Contents]
    /\ manifest \in [state : {"none", "whole", "torn"}, hash : [FileNames -> Contents],
                     native : BOOLEAN, signed : BOOLEAN, alone : BOOLEAN]
    /\ training \in [Trainers -> [pc : 0..6, run : 0..NTrainings, native : BOOLEAN, alone : BOOLEAN]]
    /\ trained \in 0..NTrainings /\ flatRuns \subseteq Trainings
    /\ loading \in [pc : {"idle", "columns", "model", "calibrator", "training", "metrics", "done"},
                    native : BOOLEAN, sound : BOOLEAN, got : [Read -> Contents]]

ArtifactInit ==
    /\ files = NoFiles /\ manifest = NoManifest
    /\ training = [t \in Trainers |-> Resting0] /\ trained = 0 /\ flatRuns = {}
    /\ loading = NoLoad

AtTraining == {t \in Trainers : training[t].pc # 0}
\* A load that is under way when a file is written need not be of one piece.
Disturbs ==
    loading' = Loads(loading.pc, loading.native, loading.sound /\ loading.pc \in {"idle", "done"}, loading.got)

-----------------------------------------------------------------------------
(* train_meta_model_from_dataset and save_artifacts. *)

\* The model is fitted to the rows for training and the calibrator to those for calibration; what
\* cannot be fitted raises before anything is saved.
TrainsModel(t, native, even) ==
    /\ training[t].pc = 0 /\ trained < NTrainings
    /\ trained' = trained + 1
    /\ flatRuns' = IF even THEN flatRuns \cup {trained + 1} ELSE flatRuns
    /\ training' = [u \in Trainers |->
            IF u = t THEN TrainerAt(1, trained + 1, native, AtTraining = {})
            ELSE TrainerAt(training[u].pc, training[u].run, training[u].native, FALSE)]
    /\ UNCHANGED <<files, manifest, loading>>

SavesFile(t) ==
    /\ training[t].pc \in 1..5
    /\ files' = [files EXCEPT ![Saves(training[t].native)[training[t].pc]] = training[t].run]
    /\ training' = [training EXCEPT ![t] =
            TrainerAt(training[t].pc + 1, training[t].run, training[t].native, training[t].alone)]
    /\ Disturbs
    /\ UNCHANGED <<manifest, trained, flatRuns>>

\* _write_artifact_manifest: the hashes are those of the files as they stand now.
SavesManifest(t, signed) ==
    LET native == training[t].native
        named == Saved \cup {ModelName(native)}
    IN  /\ training[t].pc = 6
        /\ manifest' = Manifest("whole", [n \in FileNames |-> IF n \in named THEN files[n] ELSE 0],
                                native, signed, training[t].alone)
        /\ training' = [training EXCEPT ![t] = Resting0]
        /\ Disturbs
        /\ UNCHANGED <<files, trained, flatRuns>>

\* A trainer dies; the file it was writing may be cut off.
TrainerDies(t, torn) ==
    LET pc == training[t].pc
    IN  /\ pc # 0
        /\ training' = [training EXCEPT ![t] = Resting0]
        /\ files' = IF torn /\ pc \in 1..5 THEN [files EXCEPT ![Saves(training[t].native)[pc]] = Torn] ELSE files
        /\ manifest' = IF torn /\ pc = 6 THEN Manifest("torn", NoFiles, TRUE, FALSE, TRUE) ELSE manifest
        /\ IF torn THEN Disturbs ELSE UNCHANGED loading
        /\ UNCHANGED <<trained, flatRuns>>

-----------------------------------------------------------------------------
(* load_training_artifacts. *)

Intact == /\ manifest.state = "whole"
          /\ \A n \in Saved \cup {ModelName(manifest.native)} :
                 files[n] # 0 /\ files[n] = manifest.hash[n]

\* The model of an earlier training stands beside the one that the manifest names.
Beside == ~manifest.native /\ files["ubj"] # 0

\* _verify_artifact_manifest: without a manifest, or without a signature that can be verified,
\* only the mode "warn" goes on.
Verifies(trust, native, verifiable) ==
    /\ loading.pc \in {"idle", "done"}
    /\ manifest.state = "none" => trust = "warn"
    /\ manifest.state # "none" => Intact /\ (trust = "warn" \/ (manifest.signed /\ verifiable))
    /\ loading' = Loads("columns", native, manifest.state # "none" /\ manifest.alone /\ ~Beside, NoLoad.got)
    /\ UNCHANGED <<files, manifest, training, trained, flatRuns>>

\* A file is read whole or the load fails.
Reads(pc, name, as, then) ==
    /\ loading.pc = pc
    /\ files[name] \in Trainings
    /\ loading' = Loads(then, loading.native, loading.sound, [loading.got EXCEPT ![as] = files[name]])
    /\ UNCHANGED <<files, manifest, training, trained, flatRuns>>

ReadsColumns == Reads("columns", "columns", "columns", "model")

\* The model in xgboost's own format goes before the other wherever there is one.
ReadsModel ==
    \/ files["ubj"] # 0 /\ loading.native /\ Reads("model", "ubj", "model", "calibrator")
    \/ files["ubj"] = 0 /\ Reads("model", "joblib", "model", "calibrator")

\* from_json_dict: thresholds of an isotonic calibrator are at least two.
ReadsCalibrator ==
    files["calibrator"] \notin flatRuns /\ Reads("calibrator", "calibrator", "calibrator", "training")

ReadsTraining == Reads("training", "training", "training", "metrics")
ReadsMetrics == Reads("metrics", "metrics", "metrics", "done")

\* What cannot be read raises, and the loader begins anew or not.
LoadFails ==
    /\ loading.pc # "idle"
    /\ loading' = NoLoad
    /\ UNCHANGED <<files, manifest, training, trained, flatRuns>>

ArtifactNext ==
    \/ \E t \in Trainers :
        \/ \E native, even \in BOOLEAN : TrainsModel(t, native, even)
        \/ SavesFile(t)
        \/ \E signed \in BOOLEAN : SavesManifest(t, signed)
        \/ \E torn \in BOOLEAN : TrainerDies(t, torn)
    \/ \E trust \in TrustModes, native, verifiable \in BOOLEAN : Verifies(trust, native, verifiable)
    \/ ReadsColumns \/ ReadsModel \/ ReadsCalibrator \/ ReadsTraining \/ ReadsMetrics \/ LoadFails

ArtifactSpec == ArtifactInit /\ [][ArtifactNext]_artifactVars

-----------------------------------------------------------------------------
\* What a load that verified the manifest gives out was saved by one training, also after
\* trainings that died half-way, unless a training wrote while it was read, two trainings saved
\* at once, or a model in xgboost's format had been left by an earlier training
\* (save_artifacts, load_artifacts).
LoadedTogether ==
    (loading.pc = "done" /\ loading.sound) =>
        \A a, b \in Read : loading.got[a] = loading.got[b]

\* Nothing cut off is loaded, and no calibrator without a slope.
LoadedWhole ==
    loading.pc = "done" =>
        /\ \A a \in Read : loading.got[a] \in Trainings
        /\ loading.got["calibrator"] \notin flatRuns

ArtifactsCohere == LoadedTogether /\ LoadedWhole
=============================================================================

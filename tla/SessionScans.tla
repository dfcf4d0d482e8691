---------------------------- MODULE SessionScans ----------------------------
(***************************************************************************)
(* The scans that a page of the Streamlit interface asks for (ui/runtime,    *)
(* ui/runtime_scan, ui/runtime_refresh).  The script of a session runs from   *)
(* its top whenever the user does something or it asks for it itself; a      *)
(* background scan runs in a worker that leaves its result under the key of   *)
(* its session, where a later run of the script finds it.                    *)
(*                                                                         *)
(* Scans are numbered in the order of their start, which is the time their   *)
(* result carries.  Sessions share nothing but the engine, so there is one;   *)
(* resetting the settings gives it a new key.  Whether a cooldown is over     *)
(* and the automatic refresh is due is data.                                 *)
(***************************************************************************)
EXTENDS Naturals, Sequences

CONSTANTS
    NoResult,
    MaxClicks,   \* bound on what the user does
    MaxRefreshes \* bound on the automatic refreshes

ASSUME SessionAssumption == {MaxClicks, MaxRefreshes} \subseteq Nat

VARIABLES
    script,      \* where the script is, and the button it was run for
    session,     \* st.session_state: the key, the scan shown, the flags
    scans,       \* every scan: the key it is for, and whether it runs
    pending,     \* PENDING_SCAN_RESULTS
    active,      \* ACTIVE_SCAN_SESSIONS
    beside,      \* whether the page itself has scanned while its worker was at it
    clicks, refreshes

sessionVars == <<script, session, scans, pending, active, beside, clicks, refreshes>>

Keys == 1..(MaxClicks + 1)
ScanIds == 1..Len(scans)
Buttons == {"none", "overview", "settings", "reset", "logout"}
Results == [scan : Nat, ok : BOOLEAN] \cup {NoResult}

SessionTypeOK ==
    /\ script \in [pc : {"login", "rest", "failed", "ensure", "apply", "page", "final", "refresh", "sleep"},
                   button : Buttons]
    /\ session \in [key : Keys, shown : 0..Len(scans), inProgress : BOOLEAN, initialStarted : BOOLEAN]
    /\ \A i \in ScanIds : scans[i] \in [key : Keys, state : {"running", "abandoned", "page", "over"}]
    /\ pending \in [Keys -> Results] /\ active \subseteq Keys
    /\ beside \in BOOLEAN /\ clicks \in 0..MaxClicks /\ refreshes \in 0..MaxRefreshes

\* init_session_state.
NewSession(key) == [key |-> key, shown |-> 0, inProgress |-> FALSE, initialStarted |-> FALSE]

SessionInit ==
    /\ script = [pc |-> "login", button |-> "none"]
    /\ session = NewSession(1)
    /\ scans = <<>>
    /\ pending = [k \in Keys |-> NoResult] /\ active = {}
    /\ beside = FALSE /\ clicks = 0 /\ refreshes = 0

Script(pc) == script.pc = pc
RunsOn(pc) == script' = [script EXCEPT !.pc = pc]
RunsAgain == script' = [pc |-> "ensure", button |-> "none"]

-----------------------------------------------------------------------------
(* One run of the script: prepare_streamlit_runtime, the page, and            *)
(* finalize_streamlit_runtime.                                                *)

\* apply_pending_scan_result: the result is taken and the worker looked for under one lock.
Applied ==
    LET result == pending[session.key]
    IN  IF result = NoResult THEN [session EXCEPT !.inProgress = session.key \in active]
        ELSE [session EXCEPT !.inProgress = FALSE, !.shown = IF result.ok THEN result.scan ELSE @]
TakesPending == pending' = [pending EXCEPT ![session.key] = NoResult]

\* start_background_scan: refused while the session has a worker.
MayStart == session.key \notin active
StartsFrom(state) ==
    /\ session' = [state EXCEPT !.inProgress = TRUE]
    /\ scans' = Append(scans, [key |-> session.key, state |-> "running"])
    /\ active' = active \cup {session.key}
StartsNone(state) == session' = state /\ UNCHANGED <<scans, active>>

NeedsFirst == Applied.shown = 0 /\ ~Applied.inProgress /\ ~Applied.initialStarted
FirstStarted == [Applied EXCEPT !.initialStarted = TRUE]

\* ensure_initial_data: the first scan of a session is started once.
EnsuresData ==
    /\ Script("ensure") /\ RunsOn("apply") /\ TakesPending
    /\ IF ~NeedsFirst THEN StartsNone(Applied)
       ELSE IF MayStart THEN StartsFrom(FirstStarted) ELSE StartsNone(FirstStarted)
    /\ UNCHANGED <<beside, clicks, refreshes>>

\* Mutant of AppliesAgain: the result is looked for once per run.
AppliesOnce ==
    /\ Script("apply") /\ RunsOn("page")
    /\ UNCHANGED <<session, scans, pending, active, beside, clicks, refreshes>>

AppliesAgain ==
    /\ Script("apply") /\ RunsOn("page") /\ TakesPending
    /\ session' = Applied
    /\ UNCHANGED <<scans, active, beside, clicks, refreshes>>

\* request_scan, on the overview where its button is hidden during a scan and runs the script again,
\* and on the settings where it is not; the cooldown may not be over.
ServesPage ==
    /\ Script("page")
    /\ \/ script.button \in {"none", "overview", "settings"} /\ RunsOn("final") /\ StartsNone(session)
       \/ script.button = "overview" /\ ~session.inProgress /\ MayStart /\ RunsAgain /\ StartsFrom(session)
       \/ script.button = "settings" /\ MayStart /\ RunsOn("final") /\ StartsFrom(session)
    /\ UNCHANGED <<pending, beside, clicks, refreshes>>

\* Resetting the settings forgets the whole session, the login and its key with it.
Resets ==
    /\ Script("page") /\ script.button = "reset"
    /\ session' = NewSession(session.key + 1)
    /\ script' = [pc |-> "login", button |-> "none"]
    /\ UNCHANGED <<scans, pending, active, beside, clicks, refreshes>>

\* sync_runtime_feedback: the script scans itself when a refresh is due, and otherwise sleeps and
\* runs again as long as a scan is in progress.
Refreshes ==
    /\ Script("final") /\ session.shown # 0 /\ refreshes < MaxRefreshes
    /\ RunsOn("refresh") /\ refreshes' = refreshes + 1
    /\ scans' = Append(scans, [key |-> session.key, state |-> "page"])
    /\ beside' = (beside \/ session.key \in active \/ pending[session.key] # NoResult)
    /\ UNCHANGED <<session, pending, active, clicks>>

EndsRun ==
    /\ Script("final")
    /\ RunsOn(IF session.inProgress THEN "sleep" ELSE "rest")
    /\ UNCHANGED <<session, scans, pending, active, beside, clicks, refreshes>>

\* run_scan catches nothing: a failing scan ends the script.
Refreshed ==
    /\ Script("refresh")
    /\ scans' = [scans EXCEPT ![Len(scans)].state = "over"]
    /\ \/ RunsAgain /\ session' = [session EXCEPT !.shown = Len(scans), !.inProgress = FALSE]
       \/ RunsOn("failed") /\ UNCHANGED session
    /\ UNCHANGED <<pending, active, beside, clicks, refreshes>>

\* After a second, or after the login.
ComesBack ==
    /\ Script("sleep") \/ Script("login")
    /\ RunsAgain
    /\ UNCHANGED <<session, scans, pending, active, beside, clicks, refreshes>>

\* A click ends the run under way where it writes to the page or looks at the session, and so does
\* logging out, which forgets nothing of the scans.
Comes(button) ==
    /\ clicks < MaxClicks /\ clicks' = clicks + 1
    /\ script' = [pc |-> IF button = "logout" THEN "login" ELSE "ensure", button |-> button]

Clicks(button) ==
    /\ script.pc \in {"rest", "failed", "page", "final", "sleep"} /\ Comes(button)
    /\ UNCHANGED <<session, scans, pending, active, beside, refreshes>>

\* A result taken may be lost to a click before it is shown: it is in no table any more.
LosesResult(button) ==
    /\ script.pc \in {"ensure", "apply"} /\ Comes(button) /\ TakesPending
    /\ \E s \in {session, Applied} : session' = [s EXCEPT !.inProgress = session.key \in active]
    /\ UNCHANGED <<scans, active, beside, refreshes>>

LosesRefresh(button) ==
    /\ Script("refresh") /\ Comes(button)
    /\ scans' = [scans EXCEPT ![Len(scans)].state = "over"]
    /\ \E n \in {session.shown, Len(scans)} : session' = [session EXCEPT !.shown = n]
    /\ UNCHANGED <<pending, active, beside, refreshes>>

\* start_background_scan has entered the session before it reads it: the entry stays without a worker.
LosesWorker(button) ==
    /\ MayStart /\ Comes(button)
    /\ \/ Script("ensure") /\ NeedsFirst /\ TakesPending /\ session' = FirstStarted
       \/ Script("page") /\ script.button = "overview" /\ ~session.inProgress /\ UNCHANGED <<session, pending>>
       \/ Script("page") /\ script.button = "settings" /\ UNCHANGED <<session, pending>>
    /\ active' = active \cup {session.key}
    /\ UNCHANGED <<scans, beside, refreshes>>

-----------------------------------------------------------------------------
(* The worker of a background scan. *)

\* It waits for its collector, which may fail or not be done in time; then it goes on unheard.
WorkerEnds(i) ==
    /\ scans[i].state = "running"
    /\ \E ok, late \in BOOLEAN :
         /\ ~(ok /\ late)
         /\ scans' = [scans EXCEPT ![i].state = IF late THEN "abandoned" ELSE "over"]
         /\ pending' = [pending EXCEPT ![scans[i].key] = [scan |-> i, ok |-> ok]]
    /\ active' = active \ {scans[i].key}
    /\ UNCHANGED <<script, session, beside, clicks, refreshes>>

CollectorEnds(i) ==
    /\ scans[i].state = "abandoned"
    /\ scans' = [scans EXCEPT ![i].state = "over"]
    /\ UNCHANGED <<script, session, pending, active, beside, clicks, refreshes>>

SessionNext ==
    \/ EnsuresData \/ AppliesAgain \/ ServesPage \/ Resets \/ Refreshes \/ EndsRun \/ Refreshed
    \/ ComesBack
    \/ \E b \in Buttons : Clicks(b) \/ LosesResult(b) \/ LosesRefresh(b) \/ LosesWorker(b)
    \/ \E i \in ScanIds : WorkerEnds(i) \/ CollectorEnds(i)

SessionSpec == SessionInit /\ [][SessionNext]_sessionVars

-----------------------------------------------------------------------------
\* What is still to come is newer than what the page shows, and comes from one scan, unless the
\* page has scanned by itself beside its worker (apply_scan_result, start_background_scan).
ShownGoesForward ==
    /\ \A i, j \in ScanIds :
         scans[i].state = "running" /\ scans[j].state = "running" /\ scans[i].key = scans[j].key => i = j
    /\ ~beside =>
         /\ pending[session.key] # NoResult => pending[session.key].scan > session.shown
         /\ \A i \in ScanIds : scans[i].state = "running" /\ scans[i].key = session.key => i > session.shown

\* A script that comes to its end and does not look again by itself has left nothing to be shown:
\* no result waits for the user's next click (prepare_streamlit_runtime, sync_runtime_feedback).
NothingIsLeftWaiting ==
    Script("rest") => pending[session.key] = NoResult /\ session.key \notin active

\* Both together.
PageFollowsScans == ShownGoesForward /\ NothingIsLeftWaiting
=============================================================================

------------------------------- MODULE AppShell -------------------------------
(***************************************************************************)
(* The tabs and panels of core_app/frontend/src/App.tsx: BatchAnalytics is *)
(* mounted on the Main tab while panelVisibility says so, DataManagement   *)
(* on the other tab. Switching a tab or hiding the panel unmounts what was *)
(* there, with its requests under way. What localStorage has kept of       *)
(* panelVisibility is chosen when the Main tab opens.                      *)
(* The chat is in ChatSession: its state is App's and outlives the tabs.   *)
(***************************************************************************)
EXTENDS AnalyticsPanel, RecordsPanel

VARIABLES
    tab             \* activeTab, or that the page is not open

shellVars == <<tab, analyticsVars, recordsVars>>

ShellTypeOK ==
    /\ AnalyticsTypeOK
    /\ RecordsTypeOK
    /\ panel.mounted => tab = "main"
    /\ grid.mounted <=> tab = "data"

ShellInit ==
    /\ AnalyticsClosed
    /\ RecordsClosed
    /\ tab = "closed"

MainShown ==
    /\ tab' = "main"
    /\ OpenAnalytics \/ UNCHANGED analyticsVars

OpenPage ==
    /\ tab = "closed"
    /\ MainShown
    /\ UNCHANGED recordsVars

\* The page is closed or loaded again: whatever is under way, the dialogs too.
ClosePage ==
    /\ tab # "closed"
    /\ tab' = "closed"
    /\ CloseAnalytics
    /\ CloseRecords

ToData ==
    /\ tab = "main"
    /\ tab' = "data"
    /\ CloseAnalytics
    /\ OpenRecords

\* A dialog that is open covers the tabs.
ToMain ==
    /\ tab = "data"
    /\ grid.dialog = "none"
    /\ MainShown
    /\ CloseRecords

\* toggleBatchAnalytics: the cross is rendered with data only.
Hide ==
    /\ tab = "main"
    /\ panel.data # NoData
    /\ CloseAnalytics
    /\ UNCHANGED <<tab, recordsVars>>

Show ==
    /\ tab = "main"
    /\ ~panel.mounted
    /\ OpenAnalytics
    /\ UNCHANGED <<tab, recordsVars>>

ShellNext ==
    \/ OpenPage \/ ClosePage \/ ToData \/ ToMain \/ Hide \/ Show
    \/ AnalyticsStep /\ UNCHANGED <<tab, recordsVars>>
    \/ RecordsStep /\ UNCHANGED <<tab, analyticsVars>>

Within(A) == A /\ UNCHANGED <<tab, recordsVars>>

\* The interval goes off, the server answers a request and the browser hands the
\* answer over; nobody has to press a button, and no job has to run.
Fairness ==
    /\ WF_shellVars(Within(Poll))
    /\ WF_shellVars(Within(Serve))
    /\ WF_shellVars(Within(Arrive))

ShellSpec == ShellInit /\ [][ShellNext]_shellVars /\ Fairness

----------------------------------------------------------------------------
\* A panel says that it is loading, reloading or saving only while a request of
\* its own is under way, although the requests of a panel share its flags and
\* end in any order, or never do because the panel is closed.
BusyMeansPending ==
    /\ panel.loading \/ panel.refreshing => gets # <<>>
    /\ grid.loading => lists # <<>>
    /\ grid.saving <=> write # NoWrite

\* What the table of records shows is of the page it stands on and of after the
\* user's own edits, whatever was under way when they were made, and neither
\* panel is left busy when its requests are over.
RowsAreRight == ShellTypeOK /\ BusyMeansPending /\ RightPageUnlessLate /\ OwnEditsAreShown

\* A panel that stays open ends by showing what the server has last, however
\* often a load has failed or an answer came late before: the interval repairs it.
Converges == <>[]panel.mounted => <>[]Latest
===============================================================================

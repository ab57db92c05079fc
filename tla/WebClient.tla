----------------------------- MODULE WebClient ------------------------------
(***************************************************************************)
(* Two pages of the web interface side by side: the page of a test case and *)
(* the recording of results in a test run.  They share no state, so a       *)
(* behaviour that looks at one of them at a time misses nothing.             *)
(***************************************************************************)
EXTENDS CaseEditor, JiraFiling

webVars == <<vars, filingVars>>

Resting(budget) == \A k \in DOMAIN budget : budget[k] = 0

WebInit == EditorInit /\ FilingInit /\ (Resting(left) \/ Resting(chances))

WebNext ==
    \/ EditorNext /\ UNCHANGED filingVars
    \/ FilingNext /\ UNCHANGED vars

WebSpec == WebInit /\ [][WebNext]_webVars /\ EditorFairness
=============================================================================

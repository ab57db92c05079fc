----------------------------- MODULE JiraFiling -----------------------------
(***************************************************************************)
(* Recording failed results with "create a Jira issue" ticked: the browser  *)
(* patches the rows of the chosen run cases and then asks for one issue for  *)
(* those that were patched; the backend creates it in Jira and links it in   *)
(* one transaction.  An idempotency key made of the run case ids is stored   *)
(* with each link.  The form is not disabled while it is being submitted, so *)
(* a submission may be a second click on the same form; and the backend      *)
(* repeats its request to Jira when the answer is one that asks for it.      *)
(***************************************************************************)
EXTENDS Integers, Sequences, FiniteSets

CONSTANTS
    Clicks,     \* submissions that can be under way at one time
    Cases,      \* run cases of one test run
    Forms,      \* what is submitted: [cases : SUBSET Cases, bulk : BOOLEAN]
    MaxKeyed,   \* run case ids that a bulk key can hold (String(128))
    MaxPosts,   \* http_max_retries: how often one request is sent to Jira at most
    Chances     \* how often each kind of event may happen

ASSUME FilingAssumption ==
    /\ Forms \subseteq [cases : (SUBSET Cases) \ {{}}, bulk : BOOLEAN]
    /\ \A f \in Forms : ~f.bulk => \E c \in Cases : f.cases = {c}
    /\ MaxKeyed \in Nat /\ MaxPosts \in Nat
    /\ Chances \subseteq [{"submits", "errors", "hands", "passes"} -> Nat]

VARIABLES
    outcome,    \* the result of each run case
    links,      \* committed rows of external_issue_links for run cases
    issues,     \* issues of the project in Jira, and how the filing that made each went
    sub,        \* the submissions under way
    touched,    \* history: run cases that were linked or unlinked by hand
    rivals,     \* history: keys that two filings carried at the same time
    linked,     \* history: issues that have had a link
    chances     \* what remains of the bounds

filingVars == <<outcome, links, issues, sub, touched, rivals, linked, chances>>

ByHand == [cases |-> {}, bulk |-> FALSE]        \* creation_idempotency_key is NULL
NoSub  == [pc |-> "idle", bulk |-> FALSE, todo |-> {}, done |-> {},
           posts |-> 0, issue |-> 0, at |-> {}, rows |-> {}]

FilingInit ==
    /\ outcome = [c \in Cases |-> "untested"]
    /\ links = {} /\ issues = <<>>
    /\ sub = [t \in Clicks |-> NoSub]
    /\ touched = {} /\ rivals = {} /\ linked = {}
    /\ chances \in Chances

Take(k) == chances[k] > 0 /\ chances' = [chances EXCEPT ![k] = @ - 1]

\* The key of a submission: the run cases whose rows have been patched.
KeyOf(t) == [cases |-> sub[t].done, bulk |-> sub[t].bulk]
Fits(k)  == k.bulk => Cardinality(k.cases) <= MaxKeyed
Filing(t) == sub[t].pc \in {"asked", "creating", "linking"}

-----------------------------------------------------------------------------
(* The browser                                                              *)
Submit(t, f) ==
    /\ sub[t].pc = "idle"
    /\ Take("submits")
    /\ sub' = [sub EXCEPT ![t] = [NoSub EXCEPT !.pc = "patching", !.bulk = f.bulk, !.todo = f.cases]]
    /\ UNCHANGED <<outcome, links, issues, touched, rivals, linked>>

\* patchRowsForRunCase
PatchCase(t, c) ==
    /\ sub[t].pc = "patching" /\ c \in sub[t].todo
    /\ outcome' = [outcome EXCEPT ![c] = "failure"]
    /\ sub' = [sub EXCEPT ![t].todo = @ \ {c}, ![t].done = @ \cup {c}]
    /\ UNCHANGED <<links, issues, touched, rivals, linked, chances>>

\* Some row is not patched; others of the case may have been.
PatchCaseFails(t, c) ==
    /\ sub[t].pc = "patching" /\ c \in sub[t].todo
    /\ Take("errors")
    /\ \E o \in {outcome[c], "failure"} : outcome' = [outcome EXCEPT ![c] = o]
    /\ sub' = [sub EXCEPT ![t].todo = @ \ {c}]
    /\ UNCHANGED <<links, issues, touched, rivals, linked>>

\* All requests are settled: an issue is asked for unless all of them failed.
AskJira(t) ==
    /\ sub[t].pc = "patching" /\ sub[t].todo = {}
    /\ IF sub[t].done = {}
       THEN sub' = [sub EXCEPT ![t] = NoSub] /\ UNCHANGED rivals
       ELSE /\ sub' = [sub EXCEPT ![t].pc = "asked"]
            /\ rivals' = IF \E u \in Clicks \ {t} : Filing(u) /\ KeyOf(u) = KeyOf(t)
                         THEN rivals \cup {KeyOf(t)} ELSE rivals
    /\ UNCHANGED <<outcome, links, issues, touched, linked, chances>>

-----------------------------------------------------------------------------
(* create_issue_from_run_case, create_issue_from_run_cases                  *)
Reply(t, how) ==
    /\ sub' = [sub EXCEPT ![t] = NoSub]
    /\ issues' = IF sub[t].pc = "linking"
                 THEN [issues EXCEPT ![sub[t].issue].state = IF @ = "open" THEN how ELSE @]
                 ELSE issues

Keyed(t) == {l \in links : l.case \in sub[t].done /\ l.key = KeyOf(t)}

\* A result that is not a failure any more refuses the request (409).  A link
\* with the key is the answer to a single request; a bulk request goes on to link
\* the issue of the first one it finds to the cases that lack it.
Check(t) ==
    /\ sub[t].pc = "asked"
    /\ \/ /\ \E c \in sub[t].done : outcome[c] # "failure"
          /\ Reply(t, "failed")
       \/ /\ \A c \in sub[t].done : outcome[c] = "failure"
          /\ UNCHANGED issues
          /\ \/ /\ Keyed(t) = {}
                /\ sub' = [sub EXCEPT ![t].pc = "creating"]
             \/ /\ Keyed(t) # {} /\ ~sub[t].bulk
                /\ sub' = [sub EXCEPT ![t] = NoSub]
             \/ /\ sub[t].bulk
                /\ \E l \in Keyed(t) :
                      sub' = [sub EXCEPT ![t].pc = "linking", ![t].issue = l.issue,
                                         ![t].todo = sub[t].done]
    /\ UNCHANGED <<outcome, links, touched, rivals, linked, chances>>

NewIssue(t, how) == issues' = Append(issues, [key |-> KeyOf(t), state |-> how])

\* The answer is 429, 500, 502, 503 or 504, whether Jira has made the issue or not:
\* the same request is sent again.
PostAgain(t) ==
    /\ sub[t].pc = "creating"
    /\ sub[t].posts + 1 < MaxPosts
    /\ Take("errors")
    /\ NewIssue(t, "repeated") \/ UNCHANGED issues
    /\ sub' = [sub EXCEPT ![t].posts = @ + 1]
    /\ UNCHANGED <<outcome, links, touched, rivals, linked>>

CreateIssue(t) ==
    /\ sub[t].pc = "creating"
    /\ NewIssue(t, "open")
    /\ sub' = [sub EXCEPT ![t].pc = "linking", ![t].issue = Len(issues) + 1, ![t].todo = sub[t].done]
    /\ UNCHANGED <<outcome, links, touched, rivals, linked, chances>>

\* Jira refuses, or the issue is created and reading it back fails.
CreateFails(t) ==
    /\ sub[t].pc = "creating"
    /\ Take("errors")
    /\ NewIssue(t, "failed") \/ UNCHANGED issues
    /\ sub' = [sub EXCEPT ![t] = NoSub]
    /\ UNCHANGED <<outcome, links, touched, rivals, linked>>

\* Mutant: the key of a link is not unique.
Clash_ByIssue(l, k) == l.case = k.case /\ l.issue = k.issue

\* Unique constraints: one link of a case per issue and per key.
Clash(l, k) == l.case = k.case /\ (l.issue = k.issue \/ (l.key = k.key /\ l.key # ByHand))
\* Mutant: the link of a bulk request is stored without its key.
LinkOf_NoBulkKey(t, c) ==
    [case |-> c, key |-> IF sub[t].bulk THEN ByHand ELSE KeyOf(t), issue |-> sub[t].issue]

LinkOf(t, c) == [case |-> c, key |-> KeyOf(t), issue |-> sub[t].issue]

\* Mutant: any link of the case will do.
Present_AnyLink(t, c) == sub[t].bulk /\ \E l \in links : l.case = c

\* Only the bulk request looks for links once it has an issue.
Present(t, c) ==
    sub[t].bulk /\ \E l \in links : l.case = c /\ (l.key = KeyOf(t) \/ l.issue = sub[t].issue)

Refused(t, c) == ~Fits(KeyOf(t)) \/ \E l \in links : Clash(l, LinkOf(t, c))

\* A row inserted by a transaction that has not ended makes this insert wait.
WaitsFor(t, c, u) ==
    /\ u # t /\ c \in sub[t].at /\ sub[t].pc = "linking"
    /\ \E l \in sub[u].rows : Clash(l, LinkOf(t, c))

LookUp(t, c) ==
    /\ sub[t].pc = "linking" /\ c \in sub[t].todo /\ sub[t].at = {}
    /\ IF Present(t, c) THEN sub' = [sub EXCEPT ![t].todo = @ \ {c}]
                        ELSE sub' = [sub EXCEPT ![t].at = {c}]
    /\ UNCHANGED <<outcome, links, issues, touched, rivals, linked, chances>>

\* What was committed since the look-up, or while the insert waited, refuses it.
LinkCase(t, c) ==
    /\ sub[t].pc = "linking" /\ c \in sub[t].todo \cap sub[t].at
    /\ \/ /\ Refused(t, c)
          /\ Reply(t, "failed")
       \/ /\ ~Refused(t, c) /\ ~\E u \in Clicks : WaitsFor(t, c, u)
          /\ sub' = [sub EXCEPT ![t].todo = @ \ {c}, ![t].at = {},
                                ![t].rows = @ \cup {LinkOf(t, c)}]
          /\ UNCHANGED issues
    /\ UNCHANGED <<outcome, links, touched, rivals, linked, chances>>

\* The selections were made in different orders: the database ends one of them.
Deadlocked(t) ==
    /\ \E c, d \in Cases : \E u \in Clicks : WaitsFor(t, c, u) /\ WaitsFor(u, d, t)
    /\ Reply(t, "failed")
    /\ UNCHANGED <<outcome, links, touched, rivals, linked, chances>>

StoreLinks(t) ==
    /\ links' = links \cup sub[t].rows
    /\ linked' = linked \cup {l.issue : l \in sub[t].rows}

Commit(t) ==
    /\ sub[t].pc = "linking" /\ sub[t].todo = {}
    /\ StoreLinks(t)
    /\ Reply(t, "ok")
    /\ UNCHANGED <<outcome, touched, rivals, chances>>

\* The commit fails, or its answer is lost.
CommitFails(t) ==
    /\ sub[t].pc = "linking" /\ sub[t].todo = {}
    /\ Take("errors")
    /\ StoreLinks(t) \/ UNCHANGED <<links, linked>>
    /\ Reply(t, "failed")
    /\ UNCHANGED <<outcome, touched, rivals>>

-----------------------------------------------------------------------------
(* What other people do meanwhile                                           *)

\* link_issue
LinkByHand(c, i) ==
    LET link == [case |-> c, key |-> ByHand, issue |-> i]
    IN  /\ Take("hands")
        /\ \A l \in links \cup UNION {sub[t].rows : t \in Clicks} : ~Clash(l, link)
        /\ links' = links \cup {link}
        /\ linked' = linked \cup {i}
        /\ touched' = touched \cup {c}
        /\ UNCHANGED <<outcome, issues, sub, rivals>>

\* unlink_issue
Unlink(l) ==
    /\ Take("hands")
    /\ links' = links \ {l}
    /\ touched' = touched \cup {l.case}
    /\ UNCHANGED <<outcome, issues, sub, rivals, linked>>

\* The case is run again and passes.
Pass(c) ==
    /\ Take("passes")
    /\ outcome' = [outcome EXCEPT ![c] = "passed"]
    /\ UNCHANGED <<links, issues, sub, touched, rivals, linked>>

FilingStep(t) ==
    \/ \E f \in Forms : Submit(t, f)
    \/ \E c \in Cases : PatchCase(t, c) \/ PatchCaseFails(t, c) \/ LookUp(t, c) \/ LinkCase(t, c)
    \/ AskJira(t) \/ Check(t) \/ PostAgain(t) \/ CreateIssue(t) \/ CreateFails(t)
    \/ Deadlocked(t) \/ Commit(t) \/ CommitFails(t)

FilingNext ==
    \/ \E t \in Clicks : FilingStep(t)
    \/ \E c \in Cases : Pass(c) \/ \E i \in DOMAIN issues : LinkByHand(c, i)
    \/ \E l \in links : Unlink(l)

FilingSpec == FilingInit /\ [][FilingNext]_filingVars

-----------------------------------------------------------------------------
Keys  == [cases : SUBSET Cases, bulk : BOOLEAN]
Links == [case : Cases, key : Keys, issue : Nat \ {0}]

FilingTypeOK ==
    /\ outcome \in [Cases -> {"untested", "passed", "failure"}]
    /\ links \subseteq Links
    /\ issues \in Seq([key : Keys, state : {"open", "ok", "failed", "repeated"}])
    /\ sub \in [Clicks -> [pc : {"idle", "patching", "asked", "creating", "linking"},
                           bulk : BOOLEAN, todo : SUBSET Cases, done : SUBSET Cases,
                           posts : Nat, issue : Nat, at : SUBSET Cases, rows : SUBSET Links]]
    /\ touched \subseteq Cases /\ rivals \subseteq Keys /\ linked \subseteq Nat \ {0}
    /\ chances \in [{"submits", "errors", "hands", "passes"} -> Nat]

\* Run cases that nobody linked or unlinked by hand and that were filed under one
\* idempotency key have the same issue: not half of them that of one click and
\* half that of another, however the clicks, refusals and commits interleave.
KeyNamesOneIssue ==
    \A l, k \in links :
        l.key = k.key /\ l.key # ByHand /\ {l.case, k.case} \cap touched = {} => l.issue = k.issue

\* An issue in Jira that no run case was ever linked to is the product of a filing
\* that ended in an error or that ran at the same time as another of its key, or of a
\* request that the client repeated: a filing that ends well and alone, and that sent
\* its request once, leaves none.
OrphanMeansFailureOrOverlap ==
    \A i \in DOMAIN issues : issues[i].state = "ok" /\ i \notin linked => issues[i].key \in rivals

\* Submitting the same run cases again does not create a second issue, unless the
\* earlier issue came of a filing that ended in an error, of a request that the client
\* repeated, or of a filing that was still running, or somebody changed the links of
\* these cases by hand.
SecondIssueNeedsAReason ==
    \A i, j \in DOMAIN issues :
        i < j /\ issues[i].key = issues[j].key
        => \/ issues[i].state \in {"failed", "repeated"} \/ issues[i].key \in rivals
           \/ issues[i].key.cases \cap touched # {}
=============================================================================

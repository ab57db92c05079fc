---- MODULE MCWebClient ----
EXTENDS WebClient

CONSTANTS f1, f2, c1, c2, c3, t1, t2

DetailPaths   == {"case", "files", "steps"}
DetailQueries == {"detailFull"}
DetailFirst   == [q \in DetailQueries |-> {"case", "files"}]
DetailThen    == [q \in DetailQueries |-> {"steps"}]

TwoFiles == {f1, f2}
OneFile  == {f1}

Budget(saves, archives, linkings, xfers, foreign, faults, visits) ==
    [saves |-> saves, archives |-> archives, links |-> linkings, xfers |-> xfers,
     foreign |-> foreign, faults |-> faults, visits |-> visits]

\* Each profile brings together the events that bear on one another.
EditorBudgets ==
    {Budget(0, 0, 0, 0, 0, 0, 0),
     Budget(2, 0, 0, 0, 0, 0, 1), Budget(1, 0, 0, 0, 0, 1, 1), Budget(1, 0, 0, 1, 0, 0, 1),
     Budget(1, 1, 0, 0, 0, 0, 1), Budget(1, 0, 0, 0, 1, 0, 1), Budget(1, 0, 0, 0, 0, 0, 2),
     Budget(0, 1, 1, 0, 0, 1, 1), Budget(0, 0, 0, 2, 0, 1, 1), Budget(0, 0, 0, 0, 0, 3, 1)}

TwoClicks  == {t1, t2}
ThreeCases == {c1, c2, c3}

Form(cases, bulk) == [cases |-> cases, bulk |-> bulk]
SomeForms == {Form({c1}, FALSE), Form({c1, c2}, TRUE), Form({c1, c2, c3}, TRUE)}

Chance(submits, errors, hands, passes) ==
    [submits |-> submits, errors |-> errors, hands |-> hands, passes |-> passes]

FilingChances ==
    {Chance(0, 0, 0, 0),
     Chance(3, 1, 0, 0), Chance(2, 2, 0, 0), Chance(2, 0, 2, 0), Chance(2, 0, 0, 1)}
====

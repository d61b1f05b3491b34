----------------------------- MODULE StatusPage -----------------------------
(***************************************************************************)
(* The status page (tools/build_status_page.py) over the warehouse: five   *)
(* queries, one after the other, of a ledger that a build may replace in   *)
(* between, and the page that is rendered from the answers.  A query that  *)
(* fails, or does not settle, ends the program before it writes anything.  *)
(***************************************************************************)
EXTENDS WarehouseProps

CONSTANTS Nothing, MaxPages     \* no answer yet; bound on the pages published

VARIABLES
    answer,             \* what the first query returned: the statuses it counted
    page,               \* the page as it is published, and what it was rendered from
    pages               \* how many were published

pageVars == <<answer, page, pages>>
allVars == <<vars, pageVars>>

-----------------------------------------------------------------------------
CountOf(statuses, status) == Cardinality({key \in DOMAIN statuses : statuses[key] = status})

\* Mutant of Verdict: the page is good when anything is reconciled.
AnyGreen(statuses) == IF CountOf(statuses, "reconciled") > 0 THEN "good" ELSE "bad"

\* The headline: pending windows are no failure, and are counted.
Verdict(statuses) ==
    IF CountOf(statuses, "broken") > 0 THEN "bad"
    ELSE IF DOMAIN statuses = {} THEN "warn"
    ELSE "good"

\* gather's first query, the only one that verdict, counts and exit code use.
QuerySummary ==
    /\ answer = Nothing /\ pages < MaxPages
    /\ answer' = ledger
    /\ UNCHANGED <<vars, page, pages>>

\* One of the queries fails, is cancelled, or is not settled after 120 seconds.
QueryRaises ==
    /\ answer # Nothing
    /\ answer' = Nothing
    /\ UNCHANGED <<vars, page, pages>>

\* The other queries are answered, and the page is written over the last one.
Render ==
    /\ answer # Nothing
    /\ page' = [verdict |-> Verdict(answer), pending |-> CountOf(answer, "pending"),
                counted |-> DOMAIN answer]
    /\ answer' = Nothing
    /\ pages' = pages + 1
    /\ UNCHANGED vars

InitPage ==
    /\ Init
    /\ answer = Nothing
    /\ page = [verdict |-> "warn", pending |-> 0, counted |-> {}]
    /\ pages = 0

NextPage ==
    \/ Next /\ UNCHANGED pageVars
    \/ QuerySummary \/ QueryRaises \/ Render

SpecPage == InitPage /\ [][NextPage]_allVars

\* The fairness of Warehouse; nobody has to publish a page.
FairPage ==
    /\ SpecPage
    /\ WF_allVars(\E c \in Readable : bronze[c] = 0 /\ Land(c) /\ UNCHANGED pageVars)
    /\ WF_allVars(WriteManifests /\ UNCHANGED pageVars)
    /\ WF_allVars(BuildSilver /\ UNCHANGED pageVars) /\ WF_allVars(BuildLedger /\ UNCHANGED pageVars)
    /\ WF_allVars(Tick /\ UNCHANGED pageVars)

-----------------------------------------------------------------------------
\* What a green page says is so, then and for as long as it is published, although
\* builds, copies and manifests went on while it was gathered: of every window it
\* counted, if none was pending, each observable event is in bronze
\* (build_status_page.py:3-5, 168-178).
GreenPageIsTrue ==
    page.verdict = "good" /\ page.pending = 0
      => \A key \in page.counted :
            Exact(key) => \A id \in EventsOf(key) : Observable(id) => HasLanded(id)

=============================================================================

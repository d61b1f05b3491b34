------------------------------ MODULE Teardown ------------------------------
(***************************************************************************)
(* The teardown check (tools/teardown_verify.py): one describe call after  *)
(* another, in every region it scans, against an account in which          *)
(* resources come and go, calls fail and credentials end meanwhile.        *)
(***************************************************************************)
EXTENDS Integers, Sequences, FiniteSets, Functions

CONSTANTS
    EnabledRegions, DefaultRegions,     \* sequences of regions, as the program scans them
    IdleBillable,       \* the kinds of resource that can bill
    Calls,              \* the sequence of describe calls of scan_region, by the kind they list
    StateChecked,       \* the kinds whose state the program looks at
    ListDeleted,        \* the kinds that are listed for a while after their deletion
    Resources,          \* what can bill in the account
    RegionOf, KindOf,   \* where and what a resource is
    PageSize,           \* resources in the one page of an answer that is read
    NoExit,
    MaxChanges          \* bound on the resources created or deleted during a scan

ASSUME TeardownAssumption ==
    /\ \A s \in {EnabledRegions, DefaultRegions, Calls} : s \in Seq(Range(s))
    /\ Range(DefaultRegions) \subseteq Range(EnabledRegions)
    /\ Range(Calls) \cup StateChecked \cup ListDeleted \subseteq IdleBillable
    /\ RegionOf \in [Resources -> Range(EnabledRegions)] /\ KindOf \in [Resources -> IdleBillable]
    /\ PageSize \in Nat \ {0} /\ MaxChanges \in Nat /\ NoExit \notin {0, 1}

VARIABLES
    allRegions, allow,  \* the arguments
    regions,            \* regions_scanned, or <<>> before it is known
    cursor,             \* the next call, over all regions
    findings, errors, notSubscribed,    \* Report
    exit,
    account,            \* the resources that bill now
    gone,               \* deleted resources that are still listed
    subscribed,         \* the services, by their kinds, the account is enrolled in
    credentials,        \* "valid", "expired" or "rejected" (no such key)
    stayed, seen,       \* ghosts: billing from the start of the scan to now; at any time since
    blind,              \* ghost: what the answers of this scan could not show
    changes

report == <<findings, errors, notSubscribed>>
world == <<account, gone, subscribed, credentials, stayed, seen, changes>>
vars == <<allRegions, allow, regions, cursor, report, exit, blind, world>>

-----------------------------------------------------------------------------
Place(i) == [region |-> regions[((i - 1) \div Len(Calls)) + 1],
             call |-> Calls[((i - 1) % Len(Calls)) + 1]]
LastCall == Len(regions) * Len(Calls)
Places == {Place(i) : i \in 1..LastCall}

\* What a call lists: of some kinds what was deleted is listed on.
Listed(place) ==
    {r \in account \cup gone : RegionOf[r] = place.region /\ KindOf[r] = place.call}

\* Mutant of Billing: the state of a resource is not looked at.
WhateverState(listed) == listed

\* What of it is reported: only of gateways and instances is the state looked at.
Billing(listed) == {r \in listed : KindOf[r] \in StateChecked => r \notin gone}

\* main up to the loop: without a list of regions, the default ones.
ListRegions ==
    /\ regions = <<>>
    /\ \/ /\ allRegions => credentials = "valid"
          /\ regions' = IF allRegions THEN EnabledRegions ELSE DefaultRegions
          /\ UNCHANGED blind
       \/ /\ allRegions
          /\ regions' = DefaultRegions
          /\ blind' = blind \cup {"regions"}
    /\ UNCHANGED <<allRegions, allow, cursor, report, exit, world>>

Scanning == regions # <<>> /\ exit = NoExit /\ cursor <= LastCall
Here == Place(cursor)
Answerable == credentials = "valid" /\ Here.call \in subscribed

\* The first page of what is there.
Answer ==
    /\ Scanning /\ Answerable
    /\ \E page \in SUBSET Listed(Here) :
          /\ Cardinality(page) = IF Cardinality(Listed(Here)) > PageSize
                                 THEN PageSize ELSE Cardinality(Listed(Here))
          /\ findings' = findings \cup Billing(page)
          /\ blind' = IF page = Listed(Here) THEN blind ELSE blind \cup {"page"}
    /\ cursor' = cursor + 1
    /\ UNCHANGED <<allRegions, allow, regions, errors, notSubscribed, exit, world>>

\* _safe, of the errors that count as nothing there, told by a part of their text: a service
\* the account is not enrolled in, a key that AWS does not know, and whatever else
\* AWS answers with "AuthFailure", "not supported" or "InvalidAction" in it.
BenignError ==
    /\ Scanning
    /\ \/ credentials = "rejected" /\ blind' = blind \cup {"key"}
       \/ credentials = "valid" /\ Here.call \notin subscribed /\ UNCHANGED blind
       \/ Answerable /\ blind' = blind \cup {"unsupported"}
    /\ notSubscribed' = notSubscribed \cup {Here}
    /\ cursor' = cursor + 1
    /\ UNCHANGED <<allRegions, allow, regions, findings, errors, exit, world>>

\* Mutant of GoOn: the sweep ends with the first call that fails.
GiveUp == LastCall + 1

GoOn == cursor + 1

\* _safe, of all others, an expired token among them: recorded, and the sweep goes on.
OtherError ==
    /\ Scanning
    /\ errors' = errors \cup {Here}
    /\ cursor' = GoOn
    /\ UNCHANGED <<allRegions, allow, regions, findings, notSubscribed, exit, blind, world>>

\* Mutant of Clean: errors do not count.
CleanOfFindings(found) == found = {}

Clean(found) == found = {} /\ errors = {}

Finish ==
    /\ regions # <<>> /\ exit = NoExit /\ cursor > LastCall
    /\ findings' = findings \ allow
    /\ exit' = IF Clean(findings') THEN 0 ELSE 1
    /\ UNCHANGED <<allRegions, allow, regions, cursor, errors, notSubscribed, blind, world>>

-----------------------------------------------------------------------------
(* The account *)

Change == exit = NoExit /\ changes < MaxChanges /\ changes' = changes + 1

Create(r) ==
    /\ Change /\ r \notin account /\ KindOf[r] \in subscribed
    /\ account' = account \cup {r} /\ seen' = seen \cup {r} /\ gone' = gone \ {r}
    /\ UNCHANGED <<allRegions, allow, regions, cursor, report, exit, blind, subscribed, credentials, stayed>>

Delete(r) ==
    /\ Change /\ r \in account
    /\ account' = account \ {r} /\ stayed' = stayed \ {r}
    /\ gone' = IF KindOf[r] \in ListDeleted THEN gone \cup {r} ELSE gone
    /\ UNCHANGED <<allRegions, allow, regions, cursor, report, exit, blind, subscribed, credentials, seen>>

\* A session ends, or the key is taken away.
CredentialsEnd ==
    /\ exit = NoExit /\ credentials = "valid"
    /\ credentials' \in {"expired", "rejected"}
    /\ UNCHANGED <<allRegions, allow, regions, cursor, report, exit, blind, account, gone,
                   subscribed, stayed, seen, changes>>

Init ==
    /\ allRegions \in BOOLEAN /\ allow \in SUBSET Resources
    /\ regions = <<>> /\ cursor = 1
    /\ findings = {} /\ errors = {} /\ notSubscribed = {} /\ exit = NoExit /\ blind = {}
    /\ subscribed \in SUBSET IdleBillable
    /\ account \in SUBSET {r \in Resources : KindOf[r] \in subscribed}
    /\ gone \in SUBSET {r \in Resources \ account : KindOf[r] \in subscribed \cap ListDeleted}
    /\ credentials \in {"valid", "expired", "rejected"}
    /\ stayed = account /\ seen = account /\ changes = 0

Program == ListRegions \/ Answer \/ BenignError \/ OtherError \/ Finish

Next ==
    \/ Program
    \/ \E r \in Resources : Create(r) \/ Delete(r)
    \/ CredentialsEnd

Spec == Init /\ [][Next]_vars

-----------------------------------------------------------------------------
Wanted == Range(IF allRegions THEN EnabledRegions ELSE DefaultRegions)

\* "I could not look" is not "nothing is there": a clean exit means that nothing
\* unexpected of a kind some call lists has billed, in the regions that were asked for,
\* from the start of the scan to its end, in spite of calls that failed, unless an answer
\* was cut, the list of regions was not to be had, the key was rejected, or an error of
\* another cause counted as nothing there (teardown_verify.py:287).
CleanMeansLooked ==
    exit = 0 /\ blind = {} =>
        \A r \in stayed \ allow : RegionOf[r] \in Wanted => KindOf[r] \notin Range(Calls)

\* One call that fails hides nothing after it: when the report is made every service
\* of every region has been asked, and what stayed and could be listed is found, unless
\* the failure of its own call counted as nothing there (teardown_verify.py:110-113).
NothingHidesTheRest ==
    exit # NoExit /\ "key" \notin blind =>
        \A r \in stayed \ allow :
            LET place == [region |-> RegionOf[r], call |-> KindOf[r]]
            IN  place \in Places => \/ r \in findings \/ place \in errors
                                   \/ "page" \in blind
                                   \/ ("unsupported" \in blind /\ place \in notSubscribed)

\* The check does not cry wolf (teardown_verify.py:92-98, 130-142): whatever it reports is
\* in a region it was asked for, and has billed while it looked. The exception is what was
\* deleted and is listed on, of a kind whose state is not looked at (148-214).
FindingsAreReal ==
    \A r \in findings :
        RegionOf[r] \in Wanted /\ (r \in seen \/ KindOf[r] \in ListDeleted \ StateChecked)

=============================================================================

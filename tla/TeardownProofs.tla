--------------------------- MODULE TeardownProofs ---------------------------
(***************************************************************************)
(* Proofs for Teardown: what a clean exit says about the account, and why  *)
(* a call that fails hides nothing.                                        *)
(***************************************************************************)
EXTENDS Teardown, TLAPS

\* What billed throughout has billed, is not among what was deleted, and belongs to a
\* service that the account is enrolled in. What is listed though deleted is of few kinds.
AccountInv ==
    /\ stayed \subseteq account /\ account \subseteq seen /\ seen \subseteq Resources
    /\ account \cap gone = {}
    /\ \A r \in account : KindOf[r] \in subscribed
    /\ \A r \in gone : KindOf[r] \in ListDeleted

\* The regions that are scanned are among those that were asked for, and all of them
\* when the list of regions was to be had.
RegionsInv ==
    /\ regions \in {<<>>, EnabledRegions, DefaultRegions}
    /\ regions # <<>> => /\ Range(regions) \subseteq Wanted
                         /\ "regions" \in blind \/ Range(regions) = Wanted
    /\ cursor \in Nat \ {0}
    /\ regions = <<>> => cursor = 1

\* What a call that has been made leaves of a resource it would list.
Covered(place) ==
    \A r \in stayed :
        RegionOf[r] = place.region /\ KindOf[r] = place.call =>
            \/ r \in findings \cup allow \/ place \in errors
            \/ {"page", "key"} \cap blind # {}
            \/ ("unsupported" \in blind /\ place \in notSubscribed)

LookedInv == \A i \in 1..LastCall : i < cursor => Covered(Place(i))

ExitInv ==
    /\ exit # NoExit => regions # <<>> /\ cursor > LastCall
    /\ exit = 0 => findings = {} /\ errors = {}

ScanInv == AccountInv /\ RegionsInv /\ LookedInv /\ ExitInv /\ FindingsAreReal

-----------------------------------------------------------------------------
(* The calls, numbered over all regions *)

LEMMA Sequences ==
  /\ Calls \in Seq(Range(Calls)) /\ Len(Calls) \in Nat
  /\ EnabledRegions \in Seq(Range(EnabledRegions)) /\ DefaultRegions \in Seq(Range(DefaultRegions))
BY TeardownAssumption

LEMMA DivRange ==
  ASSUME NEW x \in Nat, NEW n \in Nat \ {0}, NEW m \in Nat, x < m * n
  PROVE  x \div n \in 0 .. (m - 1) /\ x % n \in 0 .. (n - 1)
<1>1. x \div n \in Nat /\ x % n \in 0 .. (n - 1)
  OBVIOUS
<1>2. x \div n < m
  OBVIOUS
<1> QED
  BY <1>1, <1>2

LEMMA DivMod ==
  ASSUME NEW a \in Nat, NEW n \in Nat \ {0}, NEW b \in 0 .. (n - 1), NEW m \in Nat, a < m
  PROVE  (a * n + b) \div n = a /\ (a * n + b) % n = b /\ a * n + b \in 0 .. (m * n - 1)
<1>1. (a * n + b) \div n = a
  OBVIOUS
<1>2. (a * n + b) % n = b
  OBVIOUS
<1>3. a * n + b < m * n
  OBVIOUS
<1>4. a * n \in Nat /\ m * n \in Nat
  OBVIOUS
<1> QED
  BY <1>1, <1>2, <1>3, <1>4

LEMMA RegionsSequence ==
  ASSUME RegionsInv
  PROVE  regions \in Seq(Range(regions)) /\ Len(regions) \in Nat /\ LastCall \in Nat
<1>1. regions \in Seq(Range(regions))
  <2>1. \A S : <<>> \in Seq(S)
    OBVIOUS
  <2> QED
    BY <2>1, Sequences DEF RegionsInv
<1>2. Len(regions) \in Nat /\ Len(Calls) \in Nat
  BY <1>1, Sequences
<1> QED
  BY <1>1, <1>2 DEF LastCall

\* Each call is one of a region that is scanned ...
LEMMA PlaceInside ==
  ASSUME RegionsInv, NEW i \in 1 .. LastCall
  PROVE  Place(i).region \in Range(regions) /\ Place(i).call \in Range(Calls)
<1> DEFINE m == Len(regions)
           n == Len(Calls)
<1>1. m \in Nat /\ n \in Nat /\ i - 1 \in Nat /\ i - 1 < m * n
  BY RegionsSequence, Sequences DEF LastCall
<1>2. n # 0
  BY <1>1
<1>3. (i - 1) \div n \in 0 .. (m - 1) /\ (i - 1) % n \in 0 .. (n - 1)
  <2> HIDE DEF m, n
  <2> QED
    BY <1>1, <1>2, DivRange
<1>4. ((i - 1) \div n) + 1 \in DOMAIN regions /\ ((i - 1) % n) + 1 \in DOMAIN Calls
  BY <1>1, <1>3, RegionsSequence, Sequences
<1> QED
  BY <1>4 DEF Place, Range

\* ... and each call of each of those regions is made.
LEMMA PlaceExists ==
  ASSUME RegionsInv, NEW region \in Range(regions), NEW call \in Range(Calls)
  PROVE  [region |-> region, call |-> call] \in Places
<1> DEFINE m == Len(regions)
           n == Len(Calls)
<1>1. m \in Nat /\ n \in Nat /\ regions \in Seq(Range(regions)) /\ Calls \in Seq(Range(Calls))
  BY RegionsSequence, Sequences
<1>2. PICK j \in 1 .. m : regions[j] = region
  BY <1>1 DEF Range
<1>3. PICK k \in 1 .. n : Calls[k] = call
  BY <1>1 DEF Range
<1> HIDE DEF m, n
<1>4. j - 1 \in Nat /\ j - 1 < m /\ k - 1 \in 0 .. (n - 1) /\ n \in Nat \ {0}
  BY <1>1, <1>2, <1>3
<1>5. /\ ((j - 1) * n + (k - 1)) \div n = j - 1 /\ ((j - 1) * n + (k - 1)) % n = k - 1
      /\ (j - 1) * n + (k - 1) \in 0 .. (m * n - 1)
  BY <1>1, <1>4, DivMod
<1> DEFINE x == (j - 1) * n + (k - 1)
<1>6. x \in 0 .. (m * n - 1) /\ x \div n = j - 1 /\ x % n = k - 1
  BY <1>5
<1>7. m * n \in Nat
  BY <1>1
<1> HIDE DEF x
<1>8. x + 1 \in 1 .. (m * n) /\ (x + 1) - 1 = x
  BY <1>6, <1>7
<1>9. Place(x + 1) = [region |-> region, call |-> call]
  BY <1>2, <1>3, <1>4, <1>6, <1>8 DEF Place, n
<1>10. x + 1 \in 1 .. LastCall
  BY <1>8 DEF LastCall, m, n
<1> QED
  BY <1>9, <1>10 DEF Places

-----------------------------------------------------------------------------
(* The invariant *)

LEMMA InitScan == Init => ScanInv
<1> SUFFICES ASSUME Init PROVE ScanInv
  OBVIOUS
<1>1. AccountInv
  BY DEF Init, AccountInv
<1>2. RegionsInv
  BY DEF Init, RegionsInv
<1>3. LookedInv
  BY DEF Init, LookedInv
<1>4. ExitInv /\ FindingsAreReal
  BY DEF Init, ExitInv, FindingsAreReal
<1> QED
  BY <1>1, <1>2, <1>3, <1>4 DEF ScanInv

\* The list of regions is settled once, before the first call.
LEMMA RegionsScan ==
  ASSUME ScanInv, ListRegions
  PROVE  ScanInv'
<1>1. AccountInv'
  BY DEF ScanInv, AccountInv, ListRegions, world
<1>2. /\ regions = <<>> /\ cursor = 1 /\ cursor' = 1
      /\ allRegions' = allRegions /\ allow' = allow /\ exit' = exit
      /\ findings' = findings /\ errors' = errors /\ seen' = seen
      /\ blind \subseteq blind'
  BY DEF ScanInv, RegionsInv, ListRegions, report, world
<1>3. Wanted' = Wanted
  BY <1>2 DEF Wanted
<1>4. RegionsInv'
  <2>1. regions' \in {EnabledRegions, DefaultRegions}
    BY DEF ListRegions
  <2>2. Range(regions') \subseteq Wanted /\ ("regions" \in blind' \/ Range(regions') = Wanted)
    <3>1. CASE allRegions
      BY <3>1, TeardownAssumption DEF ListRegions, Wanted
    <3>2. CASE ~allRegions
      BY <3>2 DEF ListRegions, Wanted
    <3> QED
      BY <3>1, <3>2
  <2> QED
    BY <1>2, <1>3, <2>1, <2>2 DEF RegionsInv
<1>5. LookedInv'
  BY <1>2 DEF LookedInv
<1>6. ExitInv'
  BY <1>2 DEF ScanInv, ExitInv
<1>7. FindingsAreReal'
  BY <1>2, <1>3 DEF ScanInv, FindingsAreReal
<1> QED
  BY <1>1, <1>4, <1>5, <1>6, <1>7 DEF ScanInv

\* A call has covered what it lists; what the calls before it covered stays so.
LEMMA CallScan ==
  ASSUME ScanInv, Scanning, NEW place, place = Here,
         UNCHANGED <<allRegions, allow, regions, exit, world>>,
         cursor' = cursor + 1, findings \subseteq findings', errors \subseteq errors',
         notSubscribed \subseteq notSubscribed', blind \subseteq blind',
         Covered(place)', FindingsAreReal'
  PROVE  ScanInv'
<1>1. AccountInv'
  BY DEF ScanInv, AccountInv, world
<1>2. RegionsInv'
  BY DEF ScanInv, RegionsInv, Wanted, Scanning
<1>3. LookedInv'
  <2> SUFFICES ASSUME NEW i \in 1 .. LastCall, i < cursor + 1
               PROVE  Covered(Place(i))'
    BY DEF LookedInv, LastCall
  <2>1. cursor \in Nat /\ LastCall \in Nat
    BY RegionsSequence DEF ScanInv, RegionsInv
  <2>2. Place(i)' = Place(i)
    BY DEF Place
  <2>3. CASE i < cursor
    <3>1. Covered(Place(i))
      BY <2>3 DEF ScanInv, LookedInv
    <3> QED
      BY <2>2, <3>1 DEF Covered, world
  <2>4. CASE i = cursor
    BY <2>2, <2>4 DEF Here
  <2> QED
    BY <2>1, <2>3, <2>4
<1>4. ExitInv'
  BY TeardownAssumption DEF ScanInv, ExitInv, Scanning
<1> QED
  BY <1>1, <1>2, <1>3, <1>4 DEF ScanInv

\* An answer shows what is listed, or is cut; what it shows bills where it was asked for.
LEMMA AnswerScan ==
  ASSUME ScanInv, Answer
  PROVE  ScanInv'
<1>1. PICK place : place = Here
  OBVIOUS
<1>2. PICK page \in SUBSET Listed(place) :
         /\ findings' = findings \cup Billing(page)
         /\ blind' = IF page = Listed(place) THEN blind ELSE blind \cup {"page"}
  BY <1>1 DEF Answer
<1>3. /\ Scanning /\ UNCHANGED <<allRegions, allow, regions, errors, notSubscribed, exit, world>>
      /\ cursor' = cursor + 1
  BY DEF Answer
<1>4. cursor \in 1 .. LastCall
  BY <1>3, RegionsSequence DEF ScanInv, RegionsInv, Scanning
<1>5. ASSUME NEW r \in Billing(page)
      PROVE  /\ RegionOf[r] = place.region
             /\ r \in seen \/ KindOf[r] \in ListDeleted \ StateChecked
  <2>1. r \in account \cup gone /\ RegionOf[r] = place.region
    BY DEF Billing, Listed
  <2>2. r \in gone => KindOf[r] \notin StateChecked
    BY DEF Billing
  <2> QED
    BY <2>1, <2>2 DEF ScanInv, AccountInv
<1>6. Covered(place)'
  <2> SUFFICES ASSUME NEW r \in stayed, RegionOf[r] = place.region, KindOf[r] = place.call,
                      page = Listed(place)
               PROVE  r \in findings'
    BY <1>2, <1>3 DEF Covered, world
  <2>1. r \in account /\ r \notin gone
    BY DEF ScanInv, AccountInv
  <2> QED
    BY <1>2, <2>1 DEF Listed, Billing
<1>7. FindingsAreReal'
  <2>1. place.region \in Wanted
    BY <1>1, <1>3, <1>4, PlaceInside DEF ScanInv, RegionsInv, Here, Scanning
  <2>2. /\ seen' = seen /\ Wanted' = Wanted
    BY <1>3 DEF Wanted, world
  <2> QED
    BY <1>2, <1>5, <2>1, <2>2 DEF ScanInv, FindingsAreReal
<1> QED
  BY <1>1, <1>2, <1>3, <1>6, <1>7, CallScan

\* A call that fails is recorded, unless it counts as a service nobody uses: then nothing
\* there can bill, or the key was rejected, or the service is used and this is on record.
LEMMA ErrorScan ==
  ASSUME ScanInv, BenignError \/ OtherError
  PROVE  ScanInv'
<1>1. PICK place : place = Here
  OBVIOUS
<1>2. /\ Scanning /\ UNCHANGED <<allRegions, allow, regions, findings, exit, world>>
      /\ cursor' = cursor + 1
      /\ errors \subseteq errors' /\ notSubscribed \subseteq notSubscribed' /\ blind \subseteq blind'
  BY DEF BenignError, OtherError, GoOn
<1>3. FindingsAreReal'
  BY <1>2 DEF ScanInv, FindingsAreReal, Wanted, world
<1>4. Covered(place)'
  <2>1. CASE OtherError
    BY <1>1, <2>1 DEF OtherError, Covered
  <2>2. CASE BenignError /\ "key" \in blind'
    BY <2>2 DEF Covered
  <2>3. CASE BenignError /\ place.call \notin subscribed
    <3>1. \A r \in stayed : KindOf[r] # place.call
      BY <2>3 DEF ScanInv, AccountInv
    <3> QED
      BY <1>2, <3>1 DEF Covered, world
  <2>4. CASE BenignError /\ "unsupported" \in blind'
    BY <1>1, <2>4 DEF BenignError, Covered
  <2> QED
    BY <1>1, <2>1, <2>2, <2>3, <2>4 DEF BenignError
<1> QED
  BY <1>1, <1>2, <1>3, <1>4, CallScan

\* The report leaves out what is allowed.
LEMMA FinishScan ==
  ASSUME ScanInv, Finish
  PROVE  ScanInv'
<1>1. /\ regions # <<>> /\ cursor > LastCall
      /\ findings' = findings \ allow
      /\ exit' = IF findings' = {} /\ errors = {} THEN 0 ELSE 1
      /\ UNCHANGED <<allRegions, allow, regions, cursor, errors, notSubscribed, blind, world>>
  BY DEF Finish, Clean
<1>2. AccountInv'
  BY <1>1 DEF ScanInv, AccountInv, world
<1>3. RegionsInv'
  BY <1>1 DEF ScanInv, RegionsInv, Wanted
<1>4. LookedInv'
  <2> SUFFICES ASSUME NEW i \in 1 .. LastCall, i < cursor
               PROVE  Covered(Place(i))'
    BY <1>1 DEF LookedInv, LastCall
  <2>1. Covered(Place(i)) /\ Place(i)' = Place(i)
    BY <1>1 DEF ScanInv, LookedInv, Place
  <2> QED
    BY <1>1, <2>1 DEF Covered, world
<1>5. ExitInv'
  BY <1>1 DEF ExitInv, LastCall
<1>6. FindingsAreReal'
  BY <1>1 DEF ScanInv, FindingsAreReal, Wanted, world
<1> QED
  BY <1>2, <1>3, <1>4, <1>5, <1>6 DEF ScanInv

\* What comes and goes meanwhile did not bill throughout.
LEMMA AccountScan ==
  ASSUME ScanInv, UNCHANGED vars \/ CredentialsEnd \/ \E r \in Resources : Create(r) \/ Delete(r)
  PROVE  ScanInv'
<1>1. /\ UNCHANGED <<allRegions, allow, regions, cursor, findings, errors, notSubscribed, exit, blind>>
      /\ stayed' \subseteq stayed /\ seen \subseteq seen'
  BY DEF CredentialsEnd, Create, Delete, Change, report, world, vars
<1>2. AccountInv'
  <2>1. CASE UNCHANGED vars \/ CredentialsEnd
    BY <2>1 DEF ScanInv, AccountInv, CredentialsEnd, vars, world
  <2>2. ASSUME NEW r \in Resources, Create(r) PROVE AccountInv'
    BY <2>2 DEF ScanInv, AccountInv, Create
  <2>3. ASSUME NEW r \in Resources, Delete(r) PROVE AccountInv'
    BY <2>3 DEF ScanInv, AccountInv, Delete
  <2> QED
    BY <2>1, <2>2, <2>3
<1>3. RegionsInv'
  BY <1>1 DEF ScanInv, RegionsInv, Wanted
<1>4. LookedInv'
  <2> SUFFICES ASSUME NEW i \in 1 .. LastCall, i < cursor
               PROVE  Covered(Place(i))'
    BY <1>1 DEF LookedInv, LastCall
  <2>1. Covered(Place(i)) /\ Place(i)' = Place(i)
    BY <1>1 DEF ScanInv, LookedInv, Place
  <2> QED
    BY <1>1, <2>1 DEF Covered
<1>5. ExitInv' /\ FindingsAreReal'
  BY <1>1 DEF ScanInv, ExitInv, LastCall, FindingsAreReal, Wanted
<1> QED
  BY <1>2, <1>3, <1>4, <1>5 DEF ScanInv

LEMMA ScanAlways == Spec => []ScanInv
<1>1. ScanInv /\ [Next]_vars => ScanInv'
  BY RegionsScan, AnswerScan, ErrorScan, FinishScan, AccountScan DEF Next, Program
<1> QED
  BY <1>1, InitScan, PTL DEF Spec

-----------------------------------------------------------------------------
(* What the report says *)

\* "I could not look" is not "nothing is there": whatever calls fail and whatever comes
\* and goes meanwhile, a clean exit of a scan that was not blinded means that nothing
\* unexpected, of a kind some call lists, has billed throughout in any region that was
\* asked for (teardown_verify.py:287).
THEOREM CleanExitMeansLooked == Spec => []CleanMeansLooked
<1>1. ScanInv => CleanMeansLooked
  <2> SUFFICES ASSUME ScanInv, exit = 0, blind = {}, NEW r \in stayed \ allow,
                      RegionOf[r] \in Wanted, KindOf[r] \in Range(Calls)
               PROVE  FALSE
    BY DEF CleanMeansLooked
  <2>1. /\ findings = {} /\ errors = {} /\ regions # <<>> /\ cursor > LastCall
    BY TeardownAssumption DEF ScanInv, ExitInv
  <2>2. RegionOf[r] \in Range(regions)
    BY <2>1 DEF ScanInv, RegionsInv
  <2>3. PICK i \in 1 .. LastCall : Place(i) = [region |-> RegionOf[r], call |-> KindOf[r]]
    BY <2>2, PlaceExists DEF ScanInv, Places
  <2>4. i < cursor
    BY <2>1, RegionsSequence DEF ScanInv, RegionsInv
  <2>5. Covered(Place(i))
    BY <2>4 DEF ScanInv, LookedInv
  <2> QED
    BY <2>1, <2>3, <2>5 DEF Covered
<1> QED
  BY <1>1, ScanAlways, PTL

\* One call that fails hides nothing after it: what bills throughout is found, or its own
\* call has failed, its page was cut or the key rejected (teardown_verify.py:110-113).
THEOREM FailuresHideNothing == Spec => []NothingHidesTheRest
<1>1. ScanInv => NothingHidesTheRest
  <2> SUFFICES ASSUME ScanInv, exit # NoExit, "key" \notin blind, NEW r \in stayed \ allow,
                      NEW i \in 1 .. LastCall,
                      Place(i) = [region |-> RegionOf[r], call |-> KindOf[r]]
               PROVE  \/ r \in findings \/ Place(i) \in errors \/ "page" \in blind
                      \/ ("unsupported" \in blind /\ Place(i) \in notSubscribed)
    BY DEF NothingHidesTheRest, Places
  <2>1. i < cursor
    BY RegionsSequence DEF ScanInv, RegionsInv, ExitInv
  <2>2. Covered(Place(i))
    BY <2>1 DEF ScanInv, LookedInv
  <2> QED
    BY <2>2 DEF Covered
<1> QED
  BY <1>1, ScanAlways, PTL

\* The check does not cry wolf: what it reports is in a region that was asked for and has
\* billed while it looked, or was deleted and is of a kind that is listed on and whose
\* state the program does not look at (teardown_verify.py:92-98, 130-142, 148-214).
THEOREM NoFalseAlarm == Spec => []FindingsAreReal
<1>1. ScanInv => FindingsAreReal
  BY DEF ScanInv
<1> QED
  BY <1>1, ScanAlways, PTL

=============================================================================

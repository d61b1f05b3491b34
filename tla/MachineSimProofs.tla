-------------------------- MODULE MachineSimProofs --------------------------
(***************************************************************************)
(* Proofs for MachineSim: what the events of a machine tell, for every     *)
(* calendar, every number of days and all that may be drawn.  Each part of *)
(* the story is a predicate of the events so far and of what the machine   *)
(* knows; it is carried over one event at a time, and an action over the   *)
(* events it emits.                                                        *)
(***************************************************************************)
EXTENDS MachineSim, FiniteSetTheorems, TLAPS

-----------------------------------------------------------------------------
(* The story so far *)

States == {"IDLE", "HELD", "EXECUTE", "CHANGEOVER"}
Actions == {"login", "logout", "changeover_start", "changeover_end"}

Event ==
    [type : {"scan"}, at : Int, badge : Badges, action : Actions]
    \cup [type : {"cycle", "defect"}, at : Int, order : Nat, unit : Nat, badge : Badges]
    \cup [type : {"change"}, at : Int, from : States, to : States]

\* The machine is in state q after n events of s, and the changes of s are a walk to q.
After(s, n, q) ==
    /\ (\A j \in 1..n : s[j].type # "change") => q = "IDLE"
    /\ \A j \in 1..n :
          s[j].type = "change" /\ (\A k \in j + 1..n : s[k].type # "change") => q = s[j].to
Walk(s, q) ==
    /\ q \in States /\ After(s, Len(s), q)
    /\ \A i \in DOMAIN s :
          s[i].type = "change" => s[i].from # s[i].to /\ After(s, i - 1, s[i].from)

\* The operator of s is b: who logged in last, or nobody.
Decisive(e) == e.type = "scan" /\ e.action \in {"login", "logout"}
OnDuty(s, i, b) ==
    \E j \in 1..i : /\ s[j].type = "scan" /\ s[j].action = "login" /\ s[j].badge = b
                    /\ \A k \in j + 1..i : ~Decisive(s[k])
Attended(s, b) ==
    /\ b \in Badges \cup {None}
    /\ \A i \in DOMAIN s :
          (s[i].type # "change" /\ (s[i].type = "scan" => s[i].action # "login"))
            => OnDuty(s, i - 1, s[i].badge)
    /\ b # None => OnDuty(s, Len(s), b)

\* Order o is the last of k, with u of its units made, and all before it are complete.
Made(s, id, n) == {i \in 1..n : s[i].type = "cycle" /\ s[i].order = id}
Numbered(s, i, k) ==
    s[i].type = "cycle" => s[i].order \in 1..k /\ s[i].unit = Cardinality(Made(s, s[i].order, i))
Matched(s, i) ==
    s[i].type = "defect" =>
        \E j \in Made(s, s[i].order, i) : s[j].unit = s[i].unit /\ s[j].at = s[i].at
Complete(s, id, o, u) ==
    IF o.id = id THEN Cardinality(Made(s, id, Len(s))) = u
    ELSE Cardinality(Made(s, id, Len(s))) \in UnitCounts
Counted(s, o, u, k) ==
    /\ u \in Nat /\ k \in Nat
    /\ IF o = None THEN k = 0 ELSE o.id = k /\ k # 0 /\ o.units \in UnitCounts /\ u <= o.units
    /\ \A i \in DOMAIN s : Numbered(s, i, k) /\ Matched(s, i)
    /\ \A id \in 1..k : Complete(s, id, o, u)

\* The clock of s is at n, in shift t.
Logins(s, i) == {j \in 1..i : IsLogin(s[j])}
OnTime(s, i) ==
    /\ IF IsLogin(s[i]) THEN s[i].at = StartAt(Cardinality(Logins(s, i)))
       ELSE i > 1 /\ s[i].at >= s[i - 1].at
    /\ s[i].type = "cycle" => \E d \in Cycles : s[i].at - d < EndAt(Cardinality(Logins(s, i)))
Clocked(s, t, n) ==
    /\ t \in Nat /\ n \in Int
    /\ \A i \in DOMAIN s : OnTime(s, i)
    /\ Cardinality(Logins(s, Len(s))) = t
    /\ s # <<>> => s[Len(s)].at <= n

Told(s, q, b, o, u, k, t, n) ==
    /\ s \in Seq(Event)
    /\ Walk(s, q) /\ Attended(s, b) /\ Counted(s, o, u, k) /\ Clocked(s, t, n)

StoryInv ==
    /\ Told(events, state, operator, order, unitSeq, ordersStarted, turn, now)
    /\ onShift \in BOOLEAN /\ turn <= Days * Len(Shifts)
    /\ onShift => /\ turn > 0 /\ events # <<>> /\ operator \in Badges
                  /\ breaks \subseteq DOMAIN ShiftOf(turn).breaks

-----------------------------------------------------------------------------
(* One event more *)

Extends(r, s, e) == r = s \o <<e>>

LEMMA OneMore ==
    ASSUME NEW s \in Seq(Event), NEW e \in Event, NEW r, Extends(r, s, e)
    PROVE  /\ r \in Seq(Event) /\ Len(s) \in Nat /\ Len(r) = Len(s) + 1
           /\ DOMAIN s = 1 .. Len(s) /\ DOMAIN r = 1 .. Len(s) + 1
           /\ \A i \in 1 .. Len(s) : r[i] = s[i]
           /\ r[Len(s) + 1] = e /\ r # <<>>
           /\ \A i \in DOMAIN r :
                 \/ i \in 1 .. Len(s) /\ r[i] = s[i]
                 \/ i = Len(r) /\ i - 1 = Len(s) /\ r[i] = e
BY DEF Extends

\* Where the machine is after events that are still there.
LEMMA AfterPrefix ==
    ASSUME NEW s, NEW r, NEW n \in Nat, \A i \in 1 .. n : r[i] = s[i], NEW q, After(s, n, q)
    PROVE  After(r, n, q)
<1>1. (\A j \in 1..n : r[j].type # "change") => q = "IDLE"
  BY DEF After
<1>2. ASSUME NEW j \in 1..n, r[j].type = "change", \A k \in j + 1..n : r[k].type # "change"
      PROVE  q = r[j].to
  <2>1. \A k \in j + 1..n : k \in 1..n
    OBVIOUS
  <2>2. s[j].type = "change" /\ \A k \in j + 1..n : s[k].type # "change"
    BY <1>2, <2>1
  <2> QED
    BY <2>2 DEF After
<1> QED
  BY <1>1, <1>2 DEF After

LEMMA WalkPrefix ==
    ASSUME NEW s \in Seq(Event), NEW e \in Event, NEW r, Extends(r, s, e), NEW q, Walk(s, q)
    PROVE  /\ After(r, Len(s), q)
           /\ \A i \in 1 .. Len(s) :
                 r[i].type = "change" => r[i].from # r[i].to /\ After(r, i - 1, r[i].from)
<1>1. Len(s) \in Nat /\ DOMAIN s = 1 .. Len(s) /\ \A i \in 1 .. Len(s) : r[i] = s[i]
  BY OneMore
<1>2. After(r, Len(s), q)
  BY <1>1, AfterPrefix DEF Walk
<1>3. ASSUME NEW i \in 1 .. Len(s), r[i].type = "change"
      PROVE  r[i].from # r[i].to /\ After(r, i - 1, r[i].from)
  <2>1. PICK f : f = s[i].from
    OBVIOUS
  <2>2. s[i].from # s[i].to /\ After(s, i - 1, f) /\ r[i] = s[i]
    BY <1>1, <1>3, <2>1 DEF Walk
  <2>3. i - 1 \in Nat /\ \A j \in 1 .. i - 1 : r[j] = s[j]
    BY <1>1
  <2>4. After(r, i - 1, f)
    BY <2>2, <2>3, AfterPrefix
  <2> QED
    BY <2>1, <2>2, <2>4
<1> QED
  BY <1>2, <1>3

LEMMA WalkChange ==
    ASSUME NEW s \in Seq(Event), NEW e \in Event, NEW r, Extends(r, s, e), NEW q, Walk(s, q),
           e.type = "change", e.from = q, NEW to \in States, e.to = to, to # q
    PROVE  Walk(r, to)
<1>1. /\ Len(s) \in Nat /\ Len(r) = Len(s) + 1 /\ DOMAIN r = 1 .. Len(s) + 1
      /\ r[Len(s) + 1] = e
  BY OneMore
<1>2. ASSUME NEW i \in DOMAIN r, r[i].type = "change"
      PROVE  r[i].from # r[i].to /\ After(r, i - 1, r[i].from)
  <2>1. CASE i \in 1 .. Len(s)
    BY <1>2, <2>1, WalkPrefix
  <2>2. CASE i = Len(s) + 1
    <3>1. i - 1 = Len(s) /\ r[i] = e
      BY <1>1, <2>2
    <3> QED
      BY <3>1, WalkPrefix
  <2> QED
    BY <1>1, <2>1, <2>2
<1>3. After(r, Len(r), to)
  <2>1. ~(\A j \in 1..Len(r) : r[j].type # "change")
    BY <1>1
  <2>2. ASSUME NEW j \in 1..Len(r), \A k \in j + 1..Len(r) : r[k].type # "change"
        PROVE  to = r[j].to
    <3>1. Len(r) \in j + 1 .. Len(r) \/ j = Len(r)
      BY <1>1
    <3> QED
      BY <1>1, <2>2, <3>1
  <2> QED
    BY <2>1, <2>2 DEF After
<1> QED
  BY <1>2, <1>3 DEF Walk

LEMMA WalkOn ==
    ASSUME NEW s \in Seq(Event), NEW e \in Event, NEW r, Extends(r, s, e), NEW q, Walk(s, q),
           e.type # "change"
    PROVE  Walk(r, q)
<1>1. /\ Len(s) \in Nat /\ Len(r) = Len(s) + 1 /\ DOMAIN r = 1 .. Len(s) + 1
      /\ r[Len(s) + 1] = e
  BY OneMore
<1>2. ASSUME NEW i \in DOMAIN r, r[i].type = "change"
      PROVE  r[i].from # r[i].to /\ After(r, i - 1, r[i].from)
  <2>1. i \in 1 .. Len(s)
    BY <1>1, <1>2
  <2> QED
    BY <1>2, <2>1, WalkPrefix
<1>3. After(r, Len(r), q)
  <2>1. After(r, Len(s), q)
    BY WalkPrefix
  <2>2. (\A j \in 1..Len(r) : r[j].type # "change") => q = "IDLE"
    BY <1>1, <2>1 DEF After
  <2>3. ASSUME NEW j \in 1..Len(r), r[j].type = "change", \A k \in j + 1..Len(r) : r[k].type # "change"
        PROVE  q = r[j].to
    <3>1. j \in 1..Len(s) /\ \A k \in j + 1..Len(s) : k \in j + 1..Len(r)
      BY <1>1, <2>3
    <3> QED
      BY <2>1, <2>3, <3>1 DEF After
  <2> QED
    BY <2>2, <2>3 DEF After
<1> QED
  BY <1>2, <1>3 DEF Walk

\* Who is on duty stays on duty until somebody logs in or out.
LEMMA StillOnDuty ==
    ASSUME NEW s \in Seq(Event), NEW e \in Event, NEW r, Extends(r, s, e), NEW b
    PROVE  /\ \A i \in 1 .. Len(s) + 1 : OnDuty(s, i - 1, b) => OnDuty(r, i - 1, b)
           /\ OnDuty(s, Len(s), b) /\ ~Decisive(e) => OnDuty(r, Len(r), b)
<1>1. /\ Len(s) \in Nat /\ Len(r) = Len(s) + 1 /\ DOMAIN s = 1 .. Len(s) /\ DOMAIN r = 1 .. Len(s) + 1
      /\ r[Len(s) + 1] = e /\ \A i \in 1 .. Len(s) : r[i] = s[i]
  BY OneMore
<1>2. ASSUME NEW i \in 1 .. Len(s) + 1, OnDuty(s, i - 1, b)
      PROVE  OnDuty(r, i - 1, b)
  <2>1. PICK j \in 1..i - 1 :
           /\ s[j].type = "scan" /\ s[j].action = "login" /\ s[j].badge = b
           /\ \A k \in j + 1..i - 1 : ~Decisive(s[k])
    BY <1>2 DEF OnDuty
  <2>2. j \in 1 .. Len(s) /\ \A k \in j + 1..i - 1 : k \in 1 .. Len(s)
    BY <1>1
  <2> QED
    BY <1>1, <2>1, <2>2 DEF OnDuty
<1>3. ASSUME OnDuty(s, Len(s), b), ~Decisive(e)
      PROVE  OnDuty(r, Len(r), b)
  <2>1. PICK j \in 1..Len(s) :
           /\ s[j].type = "scan" /\ s[j].action = "login" /\ s[j].badge = b
           /\ \A k \in j + 1..Len(s) : ~Decisive(s[k])
    BY <1>3 DEF OnDuty
  <2>2. j \in 1..Len(r) /\ r[j] = s[j]
    BY <1>1
  <2>3. \A k \in j + 1..Len(r) : ~Decisive(r[k])
    BY <1>1, <1>3, <2>1
  <2> QED
    BY <2>1, <2>2, <2>3 DEF OnDuty
<1> QED
  BY <1>2, <1>3

LEMMA AttendedOn ==
    ASSUME NEW s \in Seq(Event), NEW e \in Event, NEW r, Extends(r, s, e), NEW b, Attended(s, b),
           ~Decisive(e), e.type # "change" => b # None /\ e.badge = b
    PROVE  Attended(r, b)
<1>1. /\ Len(s) \in Nat /\ Len(r) = Len(s) + 1 /\ DOMAIN s = 1 .. Len(s) /\ DOMAIN r = 1 .. Len(s) + 1
      /\ r[Len(s) + 1] = e /\ \A i \in 1 .. Len(s) : r[i] = s[i]
  BY OneMore
<1>2. ASSUME NEW i \in DOMAIN r, r[i].type # "change", r[i].type = "scan" => r[i].action # "login"
      PROVE  OnDuty(r, i - 1, r[i].badge)
  <2>1. CASE i \in 1 .. Len(s)
    <3>1. OnDuty(s, i - 1, s[i].badge)
      BY <1>1, <1>2, <2>1 DEF Attended
    <3>2. PICK c : c = s[i].badge
      OBVIOUS
    <3>3. OnDuty(r, i - 1, c)
      BY <2>1, <1>1, <3>1, <3>2, StillOnDuty
    <3> QED
      BY <1>1, <2>1, <3>2, <3>3
  <2>2. CASE i = Len(s) + 1
    <3>0. r[i] = e
      BY <2>2, OneMore
    <3>1. OnDuty(s, Len(s), b) /\ r[i].badge = b
      BY <1>2, <3>0 DEF Attended
    <3>2. i - 1 = Len(s)
      BY <1>1, <2>2
    <3> QED
      BY <1>1, <2>2, <3>1, <3>2, StillOnDuty
  <2> QED
    BY <1>1, <2>1, <2>2
<1>3. b # None => OnDuty(r, Len(r), b)
  BY StillOnDuty DEF Attended
<1> QED
  BY <1>2, <1>3 DEF Attended

LEMMA AttendedLogout ==
    ASSUME NEW s \in Seq(Event), NEW e \in Event, NEW r, Extends(r, s, e), NEW b, Attended(s, b),
           e.type = "scan", b # None, e.badge = b
    PROVE  Attended(r, None)
<1>1. /\ Len(s) \in Nat /\ Len(r) = Len(s) + 1 /\ DOMAIN s = 1 .. Len(s) /\ DOMAIN r = 1 .. Len(s) + 1
      /\ r[Len(s) + 1] = e /\ \A i \in 1 .. Len(s) : r[i] = s[i]
  BY OneMore
<1>2. ASSUME NEW i \in DOMAIN r, r[i].type # "change", r[i].type = "scan" => r[i].action # "login"
      PROVE  OnDuty(r, i - 1, r[i].badge)
  <2>1. PICK c : c = r[i].badge
    OBVIOUS
  <2>2. OnDuty(s, i - 1, c)
    <3>1. CASE i \in 1 .. Len(s) /\ r[i] = s[i]
      BY <1>1, <1>2, <2>1, <3>1 DEF Attended
    <3>2. CASE i - 1 = Len(s) /\ r[i] = e
      BY <2>1, <3>2 DEF Attended
    <3> QED
      BY <3>1, <3>2, OneMore
  <2>3. i \in 1 .. Len(s) + 1
    BY <1>1
  <2> QED
    BY <2>1, <2>2, <2>3, StillOnDuty
<1> QED
  BY <1>2 DEF Attended

LEMMA AttendedLogin ==
    ASSUME NEW s \in Seq(Event), NEW e \in Event, NEW r, Extends(r, s, e), NEW c, Attended(s, c),
           e.type = "scan", e.action = "login", NEW b \in Badges, e.badge = b
    PROVE  Attended(r, b)
<1>1. /\ Len(s) \in Nat /\ Len(r) = Len(s) + 1 /\ DOMAIN s = 1 .. Len(s) /\ DOMAIN r = 1 .. Len(s) + 1
      /\ r[Len(s) + 1] = e /\ \A i \in 1 .. Len(s) : r[i] = s[i]
  BY OneMore
<1>2. ASSUME NEW i \in DOMAIN r, r[i].type # "change", r[i].type = "scan" => r[i].action # "login"
      PROVE  OnDuty(r, i - 1, r[i].badge)
  <2>1. PICK d : d = r[i].badge
    OBVIOUS
  <2>2. i \in 1 .. Len(s) /\ r[i] = s[i]
    BY <1>2, OneMore
  <2>3. OnDuty(s, i - 1, d) /\ i \in 1 .. Len(s) + 1
    BY <1>1, <1>2, <2>1, <2>2 DEF Attended
  <2> QED
    BY <2>1, <2>3, StillOnDuty
<1>3. OnDuty(r, Len(r), b)
  <2>1. Len(r) \in 1..Len(r) /\ \A k \in Len(r) + 1..Len(r) : ~Decisive(r[k])
    BY <1>1
  <2>2. r[Len(r)] = e /\ Len(r) \in Nat
    BY <1>1
  <2> QED
    BY <2>1, <2>2 DEF OnDuty
<1> QED
  BY <1>2, <1>3 DEF Attended

\* The cycles of an order: those of s, and the new one if it is of that order.
LEMMA MadePrefix ==
    ASSUME NEW s, NEW r, NEW n \in Nat, \A i \in 1 .. n : r[i] = s[i], NEW id
    PROVE  Made(r, id, n) = Made(s, id, n)
BY DEF Made

LEMMA MadeMore ==
    ASSUME NEW s, NEW n \in Nat, NEW m, m = n + 1, NEW id
    PROVE  /\ Cardinality(Made(s, id, n)) \in Nat
           /\ (s[m].type = "cycle" /\ s[m].order = id)
                => Cardinality(Made(s, id, m)) = Cardinality(Made(s, id, n)) + 1
           /\ ~(s[m].type = "cycle" /\ s[m].order = id) => Made(s, id, m) = Made(s, id, n)
<1>1. PICK A, B : A = Made(s, id, n) /\ B = Made(s, id, m)
  OBVIOUS
<1>2. m \notin 1 .. n /\ \A i : i \in 1 .. m <=> i \in 1 .. n \/ i = m
  OBVIOUS
<1>3. \A i : i \in B <=> i \in A \/ (i = m /\ s[m].type = "cycle" /\ s[m].order = id)
  BY <1>1, <1>2 DEF Made
<1>4. A \subseteq 1 .. n /\ m \notin A
  BY <1>1, <1>2 DEF Made
<1>5. IsFiniteSet(A) /\ Cardinality(A) \in Nat
  <2>1. IsFiniteSet(1 .. n)
    BY FS_Interval
  <2>2. IsFiniteSet(A)
    BY <1>4, <2>1, FS_Subset
  <2> QED
    BY <2>2, FS_CardinalityType
<1>6. ASSUME s[m].type = "cycle", s[m].order = id
      PROVE  Cardinality(B) = Cardinality(A) + 1
  <2>1. B = A \cup {m}
    BY <1>3, <1>6
  <2> QED
    BY <2>1, <1>4, <1>5, FS_AddElement
<1>7. ASSUME ~(s[m].type = "cycle" /\ s[m].order = id)
      PROVE  B = A
  BY <1>3, <1>7
<1> QED
  BY <1>1, <1>5, <1>6, <1>7

\* What was counted before is still counted after another event.
LEMMA CountedPrefix ==
    ASSUME NEW s \in Seq(Event), NEW e \in Event, NEW r, Extends(r, s, e), NEW k, NEW i \in 1 .. Len(s)
    PROVE  /\ Numbered(s, i, k) => Numbered(r, i, k)
           /\ Matched(s, i) => Matched(r, i)
<1>1. i \in Nat /\ \A j \in 1 .. i : r[j] = s[j]
  BY OneMore
<1>2. r[i] = s[i] /\ \A id : Made(r, id, i) = Made(s, id, i)
  <2>1. r[i] = s[i]
    BY OneMore
  <2> QED
    BY <1>1, <2>1, MadePrefix
<1>3. Numbered(s, i, k) => Numbered(r, i, k)
  BY <1>2 DEF Numbered
<1>4. ASSUME Matched(s, i), r[i].type = "defect"
      PROVE  \E j \in Made(r, r[i].order, i) : r[j].unit = r[i].unit /\ r[j].at = r[i].at
  <2>1. PICK j \in Made(s, s[i].order, i) : s[j].unit = s[i].unit /\ s[j].at = s[i].at
    BY <1>2, <1>4 DEF Matched
  <2>2. r[j] = s[j]
    BY <1>1, <2>1 DEF Made
  <2> QED
    BY <1>2, <2>1, <2>2
<1> QED
  BY <1>3, <1>4 DEF Matched

LEMMA CountedCycle ==
    ASSUME NEW s \in Seq(Event), NEW e \in Event, NEW r, Extends(r, s, e), NEW o, NEW u, NEW k,
           Counted(s, o, u, k), o # None, u < o.units,
           e.type = "cycle", e.order = o.id, e.unit = u + 1
    PROVE  Counted(r, o, u + 1, k)
<1>0. PICK n \in Nat, m \in Nat : n = Len(s) /\ m = n + 1
  BY OneMore
<1>1. /\ Len(r) = m /\ DOMAIN r = 1 .. m /\ r[m] = e
      /\ \A i \in 1 .. m : i \in 1 .. n \/ i = m
      /\ DOMAIN s = 1 .. n /\ \A i \in 1 .. n : r[i] = s[i]
  BY <1>0, OneMore
<1>2. u \in Nat /\ k \in Nat /\ o.id = k /\ k # 0 /\ o.units \in UnitCounts /\ o.units \in Nat
  BY MachineSimAssumption DEF Counted
<1>3. k \in 1 .. k /\ u + 1 \in Nat /\ u + 1 <= o.units
  BY <1>2
<1>4. \A id : Made(r, id, n) = Made(s, id, n)
  BY <1>1, MadePrefix
<1>5. Cardinality(Made(s, k, n)) = u
  BY <1>0, <1>2, <1>3 DEF Counted, Complete
<1>6. Cardinality(Made(r, k, m)) = u + 1
  <2>1. Cardinality(Made(r, k, m)) = Cardinality(Made(r, k, n)) + 1
    BY <1>0, <1>1, <1>2, MadeMore
  <2> QED
    BY <1>4, <1>5, <2>1
<1>7. ASSUME NEW i \in DOMAIN r
      PROVE  Numbered(r, i, k) /\ Matched(r, i)
  <2>1. CASE i \in 1 .. n
    BY <1>0, <1>1, <2>1, CountedPrefix DEF Counted
  <2>2. CASE i = m
    BY <1>1, <1>2, <1>3, <1>6, <2>2 DEF Numbered, Matched
  <2> QED
    BY <1>1, <2>1, <2>2
<1>8. ASSUME NEW id \in 1..k
      PROVE  Complete(r, id, o, u + 1)
  <2>1. CASE id = k
    BY <1>1, <1>2, <1>6, <2>1 DEF Complete
  <2>2. CASE id # k
    <3>0. r[m].order # id
      BY <1>1, <1>2, <2>2
    <3>1. Made(r, id, m) = Made(r, id, n)
      BY <1>0, <3>0, MadeMore
    <3> QED
      BY <1>0, <1>1, <1>2, <1>4, <2>2, <3>1 DEF Counted, Complete
  <2> QED
    BY <2>1, <2>2
<1> QED
  BY <1>2, <1>3, <1>7, <1>8 DEF Counted

LEMMA CountedOn ==
    ASSUME NEW s \in Seq(Event), NEW e \in Event, NEW r, Extends(r, s, e), NEW o, NEW u, NEW k,
           Counted(s, o, u, k), e.type # "cycle",
           e.type = "defect" => \E j \in Made(s, e.order, Len(s)) : s[j].unit = e.unit /\ s[j].at = e.at
    PROVE  Counted(r, o, u, k)
<1>0. PICK n \in Nat, m \in Nat : n = Len(s) /\ m = n + 1
  BY OneMore
<1>1. /\ Len(r) = m /\ DOMAIN r = 1 .. m /\ r[m] = e
      /\ \A i \in 1 .. m : i \in 1 .. n \/ i = m
      /\ DOMAIN s = 1 .. n /\ \A i \in 1 .. n : r[i] = s[i]
  BY <1>0, OneMore
<1>2. \A id : Made(r, id, n) = Made(s, id, n)
  BY <1>1, MadePrefix
<1>3. \A id : Made(r, id, m) = Made(s, id, n)
  <2>1. \A id : Made(r, id, m) = Made(r, id, n)
    BY <1>0, <1>1, MadeMore
  <2> QED
    BY <1>2, <2>1
<1>4. ASSUME NEW i \in DOMAIN r
      PROVE  Numbered(r, i, k) /\ Matched(r, i)
  <2>1. CASE i \in 1 .. n
    BY <1>0, <1>1, <2>1, CountedPrefix DEF Counted
  <2>2. CASE i = m
    <3>1. Numbered(r, i, k)
      BY <1>1, <2>2 DEF Numbered
    <3>2. ASSUME e.type = "defect"
          PROVE  \E j \in Made(r, e.order, m) : r[j].unit = e.unit /\ r[j].at = e.at
      <4>1. PICK j \in Made(s, e.order, n) : s[j].unit = e.unit /\ s[j].at = e.at
        BY <1>0, <3>2
      <4>2. r[j] = s[j] /\ j \in Made(r, e.order, m)
        BY <1>1, <1>3 DEF Made
      <4> QED
        BY <4>1, <4>2
    <3> QED
      BY <1>1, <2>2, <3>1, <3>2 DEF Matched
  <2> QED
    BY <1>1, <2>1, <2>2
<1>5. ASSUME NEW id \in 1..k PROVE Complete(r, id, o, u)
  BY <1>0, <1>1, <1>3 DEF Counted, Complete
<1>6. u \in Nat /\ k \in Nat
      /\ IF o = None THEN k = 0 ELSE o.id = k /\ k # 0 /\ o.units \in UnitCounts /\ u <= o.units
  BY DEF Counted
<1> QED
  BY <1>4, <1>5, <1>6 DEF Counted

\* A new order, when there was none or the last one is complete.
LEMMA CountedOrder ==
    ASSUME NEW s \in Seq(Event), NEW o, NEW u, NEW k, Counted(s, o, u, k),
           o # None => u >= o.units, NEW n \in UnitCounts, NEW c, c = [id |-> k + 1, units |-> n]
    PROVE  Counted(s, c, 0, k + 1)
<1>1. k \in Nat /\ u \in Nat /\ n \in Nat /\ c # None /\ c.id = k + 1 /\ c.units = n
  BY MachineSimAssumption DEF Counted
<1>2. Len(s) \in Nat /\ DOMAIN s = 1 .. Len(s)
  OBVIOUS
<1>3. ASSUME NEW i \in DOMAIN s
      PROVE  Numbered(s, i, k + 1) /\ Matched(s, i)
  <2>1. 1 .. k \subseteq 1 .. k + 1
    BY <1>1
  <2> QED
    BY <2>1 DEF Counted, Numbered
<1>4. Made(s, k + 1, Len(s)) = {}
  <2>1. k + 1 \notin 1 .. k
    BY <1>1
  <2>2. \A i \in 1 .. Len(s) : s[i].type = "cycle" => s[i].order \in 1 .. k
    BY <1>2 DEF Counted, Numbered
  <2> QED
    BY <2>1, <2>2 DEF Made
<1>5. ASSUME NEW id \in 1..k + 1
      PROVE  Complete(s, id, c, 0)
  <2>1. CASE id = k + 1
    BY <1>1, <1>4, <2>1, FS_EmptySet DEF Complete
  <2>2. CASE id # k + 1
    <3>1. id \in 1..k /\ k # 0
      BY <1>1, <2>2
    <3>2. o # None /\ o.units \in UnitCounts /\ u <= o.units
      BY <3>1 DEF Counted
    <3>3. u = o.units
      <4>1. o.units \in Nat /\ u >= o.units
        BY <3>2, MachineSimAssumption
      <4> QED
        BY <1>1, <3>2, <4>1
    <3>4. Complete(s, id, o, u)
      BY <3>1 DEF Counted
    <3> QED
      BY <1>1, <2>2, <3>2, <3>3, <3>4 DEF Complete
  <2> QED
    BY <2>1, <2>2
<1>6. 0 \in Nat /\ k + 1 \in Nat /\ k + 1 # 0 /\ 0 <= n
  BY <1>1
<1> QED
  BY <1>1, <1>3, <1>5, <1>6 DEF Counted

\* The shift of an event, by the logins up to it.
LEMMA LoginsPrefix ==
    ASSUME NEW s, NEW r, NEW n \in Nat, \A i \in 1 .. n : r[i] = s[i]
    PROVE  Logins(r, n) = Logins(s, n)
BY DEF Logins

LEMMA LoginsMore ==
    ASSUME NEW s, NEW n \in Nat, NEW m, m = n + 1
    PROVE  /\ Cardinality(Logins(s, n)) \in Nat
           /\ IsLogin(s[m]) => Cardinality(Logins(s, m)) = Cardinality(Logins(s, n)) + 1
           /\ ~IsLogin(s[m]) => Cardinality(Logins(s, m)) = Cardinality(Logins(s, n))
<1>1. PICK A, B : A = Logins(s, n) /\ B = Logins(s, m)
  OBVIOUS
<1>2. m \notin 1 .. n /\ \A i : i \in 1 .. m <=> i \in 1 .. n \/ i = m
  OBVIOUS
<1>3. \A i : i \in B <=> i \in A \/ (i = m /\ IsLogin(s[m]))
  BY <1>1, <1>2 DEF Logins
<1>4. A \subseteq 1 .. n /\ m \notin A
  BY <1>1, <1>2 DEF Logins
<1>5. IsFiniteSet(A) /\ Cardinality(A) \in Nat
  <2>1. IsFiniteSet(1 .. n)
    BY FS_Interval
  <2>2. IsFiniteSet(A)
    BY <1>4, <2>1, FS_Subset
  <2> QED
    BY <2>2, FS_CardinalityType
<1>6. ASSUME IsLogin(s[m])
      PROVE  Cardinality(B) = Cardinality(A) + 1
  <2>1. B = A \cup {m}
    BY <1>3, <1>6
  <2> QED
    BY <2>1, <1>4, <1>5, FS_AddElement
<1>7. ASSUME ~IsLogin(s[m])
      PROVE  B = A
  BY <1>3, <1>7
<1> QED
  BY <1>1, <1>5, <1>6, <1>7

LEMMA OnTimePrefix ==
    ASSUME NEW s \in Seq(Event), NEW e \in Event, NEW r, Extends(r, s, e), NEW i \in 1 .. Len(s),
           OnTime(s, i)
    PROVE  OnTime(r, i)
<1>1. i \in Nat /\ Len(s) \in Nat /\ r[i] = s[i] /\ \A j \in 1 .. i : r[j] = s[j]
  BY OneMore
<1>2. i > 1 => r[i - 1] = s[i - 1]
  BY <1>1
<1>3. Logins(r, i) = Logins(s, i)
  BY <1>1, LoginsPrefix
<1> QED
  BY <1>1, <1>2, <1>3 DEF OnTime

LEMMA ClockedLogin ==
    ASSUME NEW s \in Seq(Event), NEW e \in Event, NEW r, Extends(r, s, e), NEW t, NEW n,
           Clocked(s, t, n), IsLogin(e), e.at = StartAt(t + 1), e.at \in Int
    PROVE  Clocked(r, t + 1, e.at)
<1>0. PICK l \in Nat, m \in Nat : l = Len(s) /\ m = l + 1
  BY OneMore
<1>1. /\ Len(r) = m /\ DOMAIN r = 1 .. m /\ r[m] = e
      /\ DOMAIN s = 1 .. l /\ \A i \in 1 .. l : r[i] = s[i]
  BY <1>0, OneMore
<1>2. t \in Nat /\ Cardinality(Logins(s, l)) = t
  BY <1>0 DEF Clocked
<1>3. Logins(r, l) = Logins(s, l)
  BY <1>1, LoginsPrefix
<1>4. Cardinality(Logins(r, m)) = t + 1
  BY <1>0, <1>1, <1>2, <1>3, LoginsMore
<1>5. ASSUME NEW i \in DOMAIN r PROVE OnTime(r, i)
  <2>1. CASE i \in 1 .. Len(s)
    BY <1>0, <1>1, <2>1, OnTimePrefix DEF Clocked
  <2>2. CASE i = m
    BY <1>1, <1>4, <2>2 DEF OnTime, IsLogin
  <2> QED
    BY <1>0, <1>1, <1>5, <2>1, <2>2
<1>6. t + 1 \in Nat /\ e.at <= e.at
  BY <1>2
<1> QED
  BY <1>1, <1>4, <1>5, <1>6 DEF Clocked

LEMMA ClockedOn ==
    ASSUME NEW s \in Seq(Event), NEW e \in Event, NEW r, Extends(r, s, e), NEW t, NEW n,
           Clocked(s, t, n), ~IsLogin(e), s # <<>>, e.at = n,
           e.type = "cycle" => \E d \in Cycles : n - d < EndAt(t)
    PROVE  Clocked(r, t, n)
<1>0. PICK l \in Nat, m \in Nat : l = Len(s) /\ m = l + 1
  BY OneMore
<1>1. /\ Len(r) = m /\ DOMAIN r = 1 .. m /\ r[m] = e
      /\ DOMAIN s = 1 .. l /\ \A i \in 1 .. l : r[i] = s[i]
  BY <1>0, OneMore
<1>2. t \in Nat /\ n \in Int /\ Cardinality(Logins(s, l)) = t /\ s[l].at <= n
  BY <1>0 DEF Clocked
<1>3. Logins(r, l) = Logins(s, l)
  BY <1>1, LoginsPrefix
<1>4. Cardinality(Logins(r, m)) = t
  BY <1>0, <1>1, <1>2, <1>3, LoginsMore
<1>5. l \in 1 .. l /\ m - 1 = l /\ m > 1
  <2>1. l # 0
    BY <1>0
  <2> QED
    BY <1>0, <2>1
<1>6. ASSUME NEW i \in DOMAIN r PROVE OnTime(r, i)
  <2>1. CASE i \in 1 .. Len(s)
    BY <1>0, <1>1, <2>1, OnTimePrefix DEF Clocked
  <2>2. CASE i = m
    <3>1. r[m - 1].at = s[l].at /\ s[l] \in Event /\ s[l].at \in Int
      <4>1. s[l] \in Event
        BY <1>5, <1>0
      <4>2. s[l].at \in Int
        BY <4>1 DEF Event
      <4> QED
        BY <1>1, <1>5, <4>1, <4>2
    <3>2. r[m].at >= r[m - 1].at
      BY <1>1, <1>2, <3>1
    <3> QED
      BY <1>1, <1>4, <1>5, <2>2, <3>2 DEF OnTime
  <2> QED
    BY <1>0, <1>1, <1>6, <2>1, <2>2
<1>7. n <= n
  BY <1>2
<1> QED
  BY <1>1, <1>2, <1>4, <1>6, <1>7 DEF Clocked

LEMMA ClockedLater ==
    ASSUME NEW s \in Seq(Event), NEW t, NEW n, Clocked(s, t, n), NEW m \in Int, n <= m
    PROVE  Clocked(s, t, m)
<1>1. s # <<>> => s[Len(s)].at <= m
  <2>1. SUFFICES ASSUME s # <<>> PROVE s[Len(s)].at <= m
    OBVIOUS
  <2>2. s[Len(s)] \in Event
    BY <2>1
  <2>3. s[Len(s)].at \in Int /\ s[Len(s)].at <= n /\ n \in Int
    BY <2>1, <2>2 DEF Event, Clocked
  <2> QED
    BY <2>3
<1> QED
  BY <1>1 DEF Clocked

-----------------------------------------------------------------------------
(* The story goes on *)

LEMMA ToldChange ==
    ASSUME NEW s, NEW q, NEW b, NEW o, NEW u, NEW k, NEW t, NEW n, Told(s, q, b, o, u, k, t, n),
           s # <<>>, NEW to \in States, NEW r, r = s \o Change(n, q, to)
    PROVE  Told(r, to, b, o, u, k, t, n) /\ r # <<>>
<1>1. s \in Seq(Event) /\ Walk(s, q) /\ Attended(s, b) /\ Counted(s, o, u, k) /\ Clocked(s, t, n)
  BY DEF Told
<1>2. CASE to = q
  <2>1. r = s
    BY <1>1, <1>2 DEF Change
  <2> QED
    BY <1>2, <2>1
<1>3. CASE to # q
  <2>1. PICK e : e = [type |-> "change", at |-> n, from |-> q, to |-> to]
    OBVIOUS
  <2>2. e \in Event /\ e.type = "change" /\ e.from = q /\ e.to = to /\ e.at = n
    BY <1>1, <2>1 DEF Event, Walk, Clocked
  <2>3. Extends(r, s, e)
    BY <1>3, <2>1 DEF Change, Extends
  <2>4. ~Decisive(e) /\ ~IsLogin(e)
    BY <2>2 DEF Decisive, IsLogin
  <2>5. Walk(r, to)
    BY <1>1, <1>3, <2>2, <2>3, WalkChange
  <2>6. Attended(r, b)
    BY <1>1, <2>2, <2>3, <2>4, AttendedOn
  <2>7. Counted(r, o, u, k)
    BY <1>1, <2>2, <2>3, CountedOn
  <2>8. Clocked(r, t, n)
    BY <1>1, <2>2, <2>3, <2>4, ClockedOn
  <2> QED
    BY <1>1, <2>2, <2>3, <2>5, <2>6, <2>7, <2>8, OneMore DEF Told
<1> QED
  BY <1>2, <1>3

\* A scan in the middle of a changeover.
LEMMA ToldScan ==
    ASSUME NEW s, NEW q, NEW b, NEW o, NEW u, NEW k, NEW t, NEW n, Told(s, q, b, o, u, k, t, n),
           s # <<>>, b \in Badges, NEW a \in {"changeover_start", "changeover_end"},
           NEW e, e = [type |-> "scan", at |-> n, badge |-> b, action |-> a],
           NEW r, Extends(r, s, e)
    PROVE  Told(r, q, b, o, u, k, t, n) /\ r # <<>>
<1>1. s \in Seq(Event) /\ Walk(s, q) /\ Attended(s, b) /\ Counted(s, o, u, k) /\ Clocked(s, t, n)
  BY DEF Told
<1>2. e \in Event /\ e.type = "scan" /\ e.badge = b /\ e.at = n /\ e.action = a
  BY <1>1 DEF Event, Actions, Clocked
<1>3. b # None
  BY MachineSimAssumption
<1>4. ~Decisive(e) /\ ~IsLogin(e)
  BY <1>2 DEF Decisive, IsLogin
<1>5. Walk(r, q)
  BY <1>1, <1>2, <1>3, WalkOn
<1>6. Attended(r, b)
  BY <1>1, <1>2, <1>3, <1>4, AttendedOn
<1>7. Counted(r, o, u, k)
  BY <1>1, <1>2, <1>3, CountedOn
<1>8. Clocked(r, t, n)
  BY <1>1, <1>2, <1>4, ClockedOn
<1> QED
  BY <1>1, <1>2, <1>3, <1>5, <1>6, <1>7, <1>8, OneMore DEF Told

LEMMA ToldLogout ==
    ASSUME NEW s, NEW q, NEW b, NEW o, NEW u, NEW k, NEW t, NEW n, Told(s, q, b, o, u, k, t, n),
           s # <<>>, b \in Badges,
           NEW e, e = [type |-> "scan", at |-> n, badge |-> b, action |-> "logout"],
           NEW r, Extends(r, s, e)
    PROVE  Told(r, q, None, o, u, k, t, n) /\ r # <<>>
<1>1. s \in Seq(Event) /\ Walk(s, q) /\ Attended(s, b) /\ Counted(s, o, u, k) /\ Clocked(s, t, n)
  BY DEF Told
<1>2. e \in Event /\ e.type = "scan" /\ e.badge = b /\ e.at = n /\ e.action = "logout"
  BY <1>1 DEF Event, Actions, Clocked
<1>3. b # None
  BY MachineSimAssumption
<1>4. ~IsLogin(e)
  BY <1>2 DEF IsLogin
<1>5. Walk(r, q)
  BY <1>1, <1>2, <1>3, WalkOn
<1>6. Attended(r, None)
  BY <1>1, <1>2, <1>3, AttendedLogout
<1>7. Counted(r, o, u, k)
  BY <1>1, <1>2, <1>3, CountedOn
<1>8. Clocked(r, t, n)
  BY <1>1, <1>2, <1>4, ClockedOn
<1> QED
  BY <1>1, <1>2, <1>3, <1>5, <1>6, <1>7, <1>8, OneMore DEF Told

LEMMA ToldLogin ==
    ASSUME NEW s, NEW q, NEW c, NEW o, NEW u, NEW k, NEW t, NEW n, Told(s, q, c, o, u, k, t, n),
           NEW b \in Badges, NEW m \in Int, m = StartAt(t + 1),
           NEW e, e = [type |-> "scan", at |-> m, badge |-> b, action |-> "login"],
           NEW r, Extends(r, s, e)
    PROVE  Told(r, q, b, o, u, k, t + 1, m) /\ r # <<>>
<1>1. s \in Seq(Event) /\ Walk(s, q) /\ Attended(s, c) /\ Counted(s, o, u, k) /\ Clocked(s, t, n)
  BY DEF Told
<1>2. e \in Event /\ e.type = "scan" /\ e.badge = b /\ e.at = m /\ e.action = "login"
  BY DEF Event, Actions
<1>3. IsLogin(e)
  BY <1>2 DEF IsLogin
<1>4. Walk(r, q)
  BY <1>1, <1>2, WalkOn
<1>5. Attended(r, b)
  BY <1>1, <1>2, AttendedLogin
<1>6. Counted(r, o, u, k)
  BY <1>1, <1>2, CountedOn
<1>7. Clocked(r, t + 1, m)
  BY <1>1, <1>2, <1>3, ClockedLogin
<1> QED
  BY <1>1, <1>2, <1>4, <1>5, <1>6, <1>7, OneMore DEF Told

\* The unit that was made at n, begun before the shift ends ...
LEMMA ToldCycle ==
    ASSUME NEW s, NEW q, NEW b, NEW o, NEW u, NEW k, NEW t, NEW n, Told(s, q, b, o, u, k, t, n),
           s # <<>>, b \in Badges, o # None, u < o.units, \E d \in Cycles : n - d < EndAt(t),
           NEW e, e = [type |-> "cycle", at |-> n, order |-> o.id, unit |-> u + 1, badge |-> b],
           NEW r, Extends(r, s, e)
    PROVE  /\ Told(r, q, b, o, u + 1, k, t, n) /\ r # <<>>
           /\ \E j \in Made(r, o.id, Len(r)) : r[j].unit = u + 1 /\ r[j].at = n
<1>1. s \in Seq(Event) /\ Walk(s, q) /\ Attended(s, b) /\ Counted(s, o, u, k) /\ Clocked(s, t, n)
  BY DEF Told
<1>2. /\ e \in Event /\ e.type = "cycle" /\ e.badge = b /\ e.at = n
      /\ e.order = o.id /\ e.unit = u + 1
  <2>1. o.id \in Nat /\ u \in Nat /\ n \in Int
    BY <1>1 DEF Counted, Clocked
  <2> QED
    BY <2>1 DEF Event
<1>3. b # None
  BY MachineSimAssumption
<1>4. ~Decisive(e) /\ ~IsLogin(e)
  BY <1>2 DEF Decisive, IsLogin
<1>5. Walk(r, q)
  BY <1>1, <1>2, <1>3, WalkOn
<1>6. Attended(r, b)
  BY <1>1, <1>2, <1>3, <1>4, AttendedOn
<1>7. Counted(r, o, u + 1, k)
  BY <1>1, <1>2, <1>3, CountedCycle
<1>8. Clocked(r, t, n)
  BY <1>1, <1>2, <1>4, ClockedOn
<1>9. Len(r) \in 1 .. Len(r) /\ r[Len(r)] = e
  BY <1>1, <1>2, <1>3, OneMore
<1>10. Len(r) \in Made(r, o.id, Len(r))
  BY <1>2, <1>9 DEF Made
<1> QED
  BY <1>1, <1>2, <1>3, <1>5, <1>6, <1>7, <1>8, <1>9, <1>10, OneMore DEF Told

\* ... and the defect that is found in it.
LEMMA ToldDefect ==
    ASSUME NEW s, NEW q, NEW b, NEW o, NEW u, NEW k, NEW t, NEW n, Told(s, q, b, o, u, k, t, n),
           s # <<>>, b \in Badges, o # None, NEW v \in Nat,
           \E j \in Made(s, o.id, Len(s)) : s[j].unit = v /\ s[j].at = n,
           NEW e, e = [type |-> "defect", at |-> n, order |-> o.id, unit |-> v, badge |-> b],
           NEW r, Extends(r, s, e)
    PROVE  Told(r, q, b, o, u, k, t, n) /\ r # <<>>
<1>1. s \in Seq(Event) /\ Walk(s, q) /\ Attended(s, b) /\ Counted(s, o, u, k) /\ Clocked(s, t, n)
  BY DEF Told
<1>2. /\ e \in Event /\ e.type = "defect" /\ e.badge = b /\ e.at = n
      /\ e.order = o.id /\ e.unit = v
  <2>1. o.id \in Nat /\ n \in Int
    BY <1>1 DEF Counted, Clocked
  <2> QED
    BY <2>1 DEF Event
<1>3. b # None
  BY MachineSimAssumption
<1>4. ~Decisive(e) /\ ~IsLogin(e)
  BY <1>2 DEF Decisive, IsLogin
<1>5. Walk(r, q)
  BY <1>1, <1>2, <1>3, WalkOn
<1>6. Attended(r, b)
  BY <1>1, <1>2, <1>3, <1>4, AttendedOn
<1>7. Counted(r, o, u, k)
  BY <1>1, <1>2, <1>3, CountedOn
<1>8. Clocked(r, t, n)
  BY <1>1, <1>2, <1>4, ClockedOn
<1> QED
  BY <1>1, <1>2, <1>3, <1>5, <1>6, <1>7, <1>8, OneMore DEF Told

\* The clock alone goes on, or an order begins.
LEMMA ToldLater ==
    ASSUME NEW s, NEW q, NEW b, NEW o, NEW u, NEW k, NEW t, NEW n, Told(s, q, b, o, u, k, t, n),
           NEW m \in Int, n <= m
    PROVE  Told(s, q, b, o, u, k, t, m)
BY ClockedLater DEF Told

LEMMA ToldOrder ==
    ASSUME NEW s, NEW q, NEW b, NEW o, NEW u, NEW k, NEW t, NEW n, Told(s, q, b, o, u, k, t, n),
           o # None => u >= o.units, NEW c \in UnitCounts
    PROVE  Told(s, q, b, [id |-> k + 1, units |-> c], 0, k + 1, t, n)
<1>1. s \in Seq(Event) /\ Counted(s, o, u, k)
  BY DEF Told
<1>2. PICK d : d = [id |-> k + 1, units |-> c]
  OBVIOUS
<1>3. Counted(s, d, 0, k + 1)
  BY <1>1, <1>2, CountedOrder
<1> QED
  BY <1>2, <1>3 DEF Told

-----------------------------------------------------------------------------
(* The handlers *)

\* The days of the calendar are days.
LEMMA Calendar ==
    ASSUME NEW n \in Nat \ {0}, n <= Days * Len(Shifts)
    PROVE  /\ StartAt(n) \in Int /\ EndAt(n) \in Int
           /\ \A i \in DOMAIN ShiftOf(n).breaks : Break(n, i).ticks \in Int /\ Break(n, i).ticks > 0
<1>1. PICK d, w : d = Days /\ w = Len(Shifts)
  OBVIOUS
<1>2. d \in Nat /\ DayTicks \in Nat /\ w \in Nat /\ DOMAIN Shifts = 1 .. w
  BY <1>1, MachineSimAssumption
<1>3. w # 0
  BY <1>1, <1>2
<1>4. n - 1 \in Nat /\ (n - 1) % w \in 0 .. w - 1 /\ (n - 1) \div w \in Int
  BY <1>2, <1>3
<1>5. PICK i \in DOMAIN Shifts : i = ((n - 1) % w) + 1
  BY <1>2, <1>4
<1>6. ShiftOf(n) = Shifts[i]
  BY <1>1, <1>5 DEF ShiftOf
<1>7. PICK k \in Int : k = DayStart(n)
  BY <1>1, <1>2, <1>4 DEF DayStart
<1>8. Shifts[i].start \in Int /\ Shifts[i].end \in Int
  BY <1>2, MachineSimAssumption
<1>9. StartAt(n) \in Int /\ EndAt(n) \in Int
  BY <1>2, <1>6, <1>7, <1>8 DEF StartAt, EndAt
<1>10. ASSUME NEW j \in DOMAIN Shifts[i].breaks
       PROVE  Shifts[i].breaks[j].ticks \in Int /\ Shifts[i].breaks[j].ticks > 0
  BY MachineSimAssumption
<1> QED
  BY <1>6, <1>9, <1>10 DEF Break

LEMMA StartsShift == ASSUME StoryInv, StartShift PROVE StoryInv'
<1>1. PICK m, b, e : /\ m = now' /\ b = operator'
                     /\ e = [type |-> "scan", at |-> m, badge |-> b, action |-> "login"]
  OBVIOUS
<1>2. Told(events, state, operator, order, unitSeq, ordersStarted, turn, now)
  BY DEF StoryInv
<1>3. turn \in Nat /\ Days \in Nat /\ Len(Shifts) \in Nat /\ Days * Len(Shifts) \in Nat
  BY <1>2, MachineSimAssumption DEF Told, Clocked
<1>4. turn + 1 \in Nat \ {0} /\ turn + 1 <= Days * Len(Shifts)
  BY <1>3 DEF StartShift
<1>5. m = StartAt(turn + 1) /\ m \in Int /\ b \in Badges
  BY <1>1, <1>4, Calendar DEF StartShift
<1>6. Extends(events', events, e)
  BY <1>1 DEF StartShift, Extends
<1>7. Told(events', state, b, order, unitSeq, ordersStarted, turn + 1, m) /\ events' # <<>>
  BY <1>1, <1>2, <1>5, <1>6, ToldLogin
<1>8. /\ state' = state /\ order' = order /\ unitSeq' = unitSeq /\ ordersStarted' = ordersStarted
      /\ turn' = turn + 1 /\ onShift' = TRUE /\ breaks' = DOMAIN ShiftOf(turn + 1).breaks
  BY DEF StartShift
<1>9. breaks' \subseteq DOMAIN ShiftOf(turn').breaks /\ turn' > 0 /\ turn' <= Days * Len(Shifts)
  BY <1>3, <1>4, <1>8
<1> QED
  BY <1>1, <1>5, <1>7, <1>8, <1>9 DEF StoryInv

LEMMA TakesBreak == ASSUME StoryInv, TakeBreak PROVE StoryInv'
<1>1. /\ Told(events, state, operator, order, unitSeq, ordersStarted, turn, now)
      /\ turn \in Nat \ {0} /\ turn <= Days * Len(Shifts) /\ events # <<>>
      /\ breaks \subseteq DOMAIN ShiftOf(turn).breaks /\ now \in Int
  BY DEF StoryInv, TakeBreak, ShiftRuns, Told, Clocked
<1>2. PICK i \in breaks : now' = BreakEnd(i) /\ breaks' = breaks \ {i}
  BY DEF TakeBreak
<1>3. PICK m \in Int : m = now' /\ now <= m
  <2>1. PICK w \in Int : w = Break(turn, i).ticks /\ w > 0
    BY <1>1, <1>2, Calendar
  <2>2. now' = now + w
    BY <1>2, <2>1 DEF BreakEnd
  <2> QED
    BY <1>1, <2>1, <2>2
<1>4. PICK r : r = events \o Change(now, state, "HELD")
  OBVIOUS
<1>5. Told(r, "HELD", operator, order, unitSeq, ordersStarted, turn, now) /\ r # <<>>
  <2>1. "HELD" \in States
    BY DEF States
  <2> QED
    BY <1>1, <1>4, <2>1, ToldChange
<1>6. Told(r, "HELD", operator, order, unitSeq, ordersStarted, turn, m)
  BY <1>3, <1>5, ToldLater
<1>7. PICK x : x = r \o Change(m, "HELD", "EXECUTE")
  OBVIOUS
<1>8. Told(x, "EXECUTE", operator, order, unitSeq, ordersStarted, turn, m) /\ x # <<>>
  <2>1. "EXECUTE" \in States
    BY DEF States
  <2> QED
    BY <1>5, <1>6, <1>7, <2>1, ToldChange
<1>9. events' = x
  BY <1>3, <1>4, <1>7 DEF TakeBreak
<1>10. /\ state' = "EXECUTE" /\ turn' = turn /\ onShift' = onShift /\ order' = order
       /\ unitSeq' = unitSeq /\ ordersStarted' = ordersStarted /\ operator' = operator
  BY DEF TakeBreak
<1>11. Told(events', state', operator', order', unitSeq', ordersStarted', turn', now')
  BY <1>3, <1>8, <1>9, <1>10
<1>12. events' # <<>> /\ breaks' \subseteq DOMAIN ShiftOf(turn').breaks
  BY <1>1, <1>2, <1>8, <1>9, <1>10
<1> QED
  BY <1>10, <1>11, <1>12 DEF StoryInv

LEMMA EndsShift == ASSUME StoryInv, EndShift PROVE StoryInv'
<1>1. /\ Told(events, state, operator, order, unitSeq, ordersStarted, turn, now)
      /\ events # <<>> /\ operator \in Badges /\ turn <= Days * Len(Shifts)
  BY DEF StoryInv, EndShift
<1>2. PICK e : e = [type |-> "scan", at |-> now, badge |-> operator, action |-> "logout"]
  OBVIOUS
<1>3. PICK r : Extends(r, events, e)
  BY DEF Extends
<1>4. Told(r, state, None, order, unitSeq, ordersStarted, turn, now) /\ r # <<>>
  BY <1>1, <1>2, <1>3, ToldLogout
<1>5. PICK x : x = r \o Change(now, state, "IDLE")
  OBVIOUS
<1>6. Told(x, "IDLE", None, order, unitSeq, ordersStarted, turn, now)
  <2>1. "IDLE" \in States
    BY DEF States
  <2> QED
    BY <1>4, <1>5, <2>1, ToldChange
<1>7. events' = x
  BY <1>2, <1>3, <1>5 DEF EndShift, Extends, Scan
<1>8. /\ state' = "IDLE" /\ operator' = None /\ onShift' = FALSE /\ turn' = turn /\ now' = now
      /\ order' = order /\ unitSeq' = unitSeq /\ ordersStarted' = ordersStarted
  BY DEF EndShift
<1>9. Told(events', state', operator', order', unitSeq', ordersStarted', turn', now')
  BY <1>6, <1>7, <1>8
<1> QED
  BY <1>1, <1>8, <1>9 DEF StoryInv

\* What the machine needs to know while it runs.
LEMMA Running ==
    ASSUME StoryInv, ShiftRuns
    PROVE  /\ Told(events, state, operator, order, unitSeq, ordersStarted, turn, now)
           /\ turn \in Nat \ {0} /\ turn <= Days * Len(Shifts) /\ now < EndAt(turn)
           /\ events # <<>> /\ operator \in Badges /\ now \in Int /\ unitSeq \in Nat
           /\ breaks \subseteq DOMAIN ShiftOf(turn).breaks /\ onShift
BY DEF StoryInv, ShiftRuns, Told, Clocked, Counted

LEMMA BeginsOrder == ASSUME StoryInv, BeginOrder PROVE StoryInv'
<1>1. ShiftRuns
  BY DEF BeginOrder
<1>2. /\ Told(events, state, operator, order, unitSeq, ordersStarted, turn, now)
      /\ events # <<>> /\ operator \in Badges /\ now \in Int
  BY <1>1, Running
<1>3. PICK c \in UnitCounts : order' = [id |-> ordersStarted + 1, units |-> c]
  BY DEF BeginOrder
<1>4. PICK m \in Int : m = now' /\ now <= m
  <2>1. PICK d \in Changeovers : now' = now + d
    BY DEF BeginOrder
  <2>2. d \in Nat
    BY MachineSimAssumption
  <2> QED
    BY <1>2, <2>1, <2>2
<1>5. PICK r : r = events \o Change(now, state, "CHANGEOVER")
  OBVIOUS
<1>6. Told(r, "CHANGEOVER", operator, order, unitSeq, ordersStarted, turn, now) /\ r # <<>>
  <2>1. "CHANGEOVER" \in States
    BY DEF States
  <2> QED
    BY <1>2, <1>5, <2>1, ToldChange
<1>7. PICK e, x : /\ e = [type |-> "scan", at |-> now, badge |-> operator, action |-> "changeover_start"]
                  /\ Extends(x, r, e)
  BY DEF Extends
<1>8. Told(x, "CHANGEOVER", operator, order, unitSeq, ordersStarted, turn, now) /\ x # <<>>
  BY <1>2, <1>6, <1>7, ToldScan
<1>9. Told(x, "CHANGEOVER", operator, order, unitSeq, ordersStarted, turn, m)
  BY <1>4, <1>8, ToldLater
<1>10. PICK f, y : /\ f = [type |-> "scan", at |-> m, badge |-> operator, action |-> "changeover_end"]
                   /\ Extends(y, x, f)
  BY DEF Extends
<1>11. Told(y, "CHANGEOVER", operator, order, unitSeq, ordersStarted, turn, m) /\ y # <<>>
  BY <1>2, <1>8, <1>9, <1>10, ToldScan
<1>12. PICK z : z = y \o Change(m, "CHANGEOVER", "EXECUTE")
  OBVIOUS
<1>13. Told(z, "EXECUTE", operator, order, unitSeq, ordersStarted, turn, m) /\ z # <<>>
  <2>1. "EXECUTE" \in States
    BY DEF States
  <2> QED
    BY <1>11, <1>12, <2>1, ToldChange
<1>14. order # None => unitSeq >= order.units
  BY DEF BeginOrder, NeedsOrder, OrderComplete
<1>15. Told(z, "EXECUTE", operator, order', 0, ordersStarted + 1, turn, m)
  BY <1>3, <1>13, <1>14, ToldOrder
<1>16. events' = z
  BY <1>4, <1>5, <1>7, <1>10, <1>12 DEF BeginOrder, Extends, Scan
<1>17. /\ state' = "EXECUTE" /\ turn' = turn /\ onShift' = onShift /\ breaks' = breaks
       /\ unitSeq' = 0 /\ ordersStarted' = ordersStarted + 1 /\ operator' = operator
  BY DEF BeginOrder, NoUnits
<1>18. Told(events', state', operator', order', unitSeq', ordersStarted', turn', now')
  BY <1>4, <1>15, <1>16, <1>17
<1> QED
  BY <1>13, <1>16, <1>17, <1>18 DEF StoryInv

LEMMA RunsUnit == ASSUME StoryInv, RunUnit PROVE StoryInv'
<1>1. ShiftRuns
  BY DEF RunUnit
<1>2. /\ Told(events, state, operator, order, unitSeq, ordersStarted, turn, now)
      /\ events # <<>> /\ operator \in Badges /\ now \in Int /\ unitSeq \in Nat
      /\ now < EndAt(turn)
  BY <1>1, Running
<1>3. order # None /\ unitSeq < order.units
  <2>1. order # None /\ ~(unitSeq >= order.units)
    BY DEF RunUnit, NeedsOrder, OrderComplete
  <2>2. order.units \in UnitCounts
    BY <1>2, <2>1 DEF Told, Counted
  <2>3. order.units \in Nat
    BY <2>2, MachineSimAssumption
  <2> QED
    BY <1>2, <2>1, <2>3
<1>4. PICK d \in Cycles, gap \in Gaps, defect \in BOOLEAN, stop \in Stops \cup {0} :
         LET end == now + d
             made == events \o CycleEvent(end, unitSeq')
                            \o (IF defect THEN DefectEvent(end, unitSeq') ELSE <<>>)
             rest == end + gap
         IN IF stop = 0
            THEN now' = rest /\ events' = made /\ UNCHANGED state
            ELSE /\ now' = rest + stop
                 /\ events' = made \o Change(rest, state, "HELD")
                                   \o Change(now', "HELD", "EXECUTE")
                 /\ state' = "EXECUTE"
  BY DEF RunUnit
<1>5. PICK end \in Int, rest \in Int, last \in Int :
         end = now + d /\ rest = end + gap /\ last = rest + stop
         /\ now <= end /\ end <= rest /\ rest <= last /\ end - d < EndAt(turn)
  <2>1. d \in Nat /\ gap \in Nat /\ stop \in Nat
    BY MachineSimAssumption
  <2>2. now + d - d = now
    BY <1>2, <2>1
  <2> QED
    BY <1>2, <2>1, <2>2
<1>6. /\ turn' = turn /\ onShift' = onShift /\ order' = order /\ ordersStarted' = ordersStarted
      /\ operator' = operator /\ breaks' = breaks /\ unitSeq' = unitSeq + 1
  BY DEF RunUnit
<1>7. Told(events, state, operator, order, unitSeq, ordersStarted, turn, end)
  BY <1>2, <1>5, ToldLater
<1>8. PICK v \in Nat : v = unitSeq + 1
  BY <1>2
<1>9. PICK e, r : /\ e = [type |-> "cycle", at |-> end, order |-> order.id, unit |-> unitSeq + 1,
                          badge |-> operator]
                  /\ Extends(r, events, e)
  BY DEF Extends
<1>10. /\ Told(r, state, operator, order, unitSeq + 1, ordersStarted, turn, end) /\ r # <<>>
       /\ \E j \in Made(r, order.id, Len(r)) : r[j].unit = unitSeq + 1 /\ r[j].at = end
  BY <1>2, <1>3, <1>5, <1>7, <1>9, ToldCycle
<1>11. PICK f, p : /\ f = [type |-> "defect", at |-> end, order |-> order.id, unit |-> v,
                           badge |-> operator]
                   /\ Extends(p, r, f)
  BY DEF Extends
<1>12. Told(p, state, operator, order, unitSeq + 1, ordersStarted, turn, end) /\ p # <<>>
  BY <1>2, <1>3, <1>8, <1>10, <1>11, ToldDefect
<1>13. PICK m : m = IF defect THEN p ELSE r
  OBVIOUS
<1>14. Told(m, state, operator, order, unitSeq + 1, ordersStarted, turn, rest) /\ m # <<>>
  BY <1>5, <1>10, <1>12, <1>13, ToldLater
<1>15. m = events \o CycleEvent(end, unitSeq')
                  \o (IF defect THEN DefectEvent(end, unitSeq') ELSE <<>>)
  <2>1. r = events \o CycleEvent(end, unitSeq')
    BY <1>6, <1>9 DEF Extends, CycleEvent
  <2>2. p = r \o DefectEvent(end, unitSeq')
    BY <1>6, <1>8, <1>11 DEF Extends, DefectEvent
  <2>3. r \in Seq(Event)
    BY <1>10 DEF Told
  <2>4. r \o <<>> = r
    BY <2>3
  <2> QED
    BY <1>13, <2>1, <2>2, <2>4
<1>16. CASE stop = 0
  <2>1. now' = rest /\ events' = m /\ state' = state
    BY <1>4, <1>5, <1>15, <1>16
  <2>2. Told(events', state', operator', order', unitSeq', ordersStarted', turn', now')
    BY <1>6, <1>14, <2>1
  <2> QED
    BY <1>2, <1>6, <1>14, <2>1, <2>2, Running, <1>1 DEF StoryInv
<1>17. CASE stop # 0
  <2>1. now' = last /\ state' = "EXECUTE"
        /\ events' = m \o Change(rest, state, "HELD") \o Change(last, "HELD", "EXECUTE")
    BY <1>4, <1>5, <1>15, <1>17
  <2>2. PICK y : y = m \o Change(rest, state, "HELD")
    OBVIOUS
  <2>3. "HELD" \in States /\ "EXECUTE" \in States
    BY DEF States
  <2>4. Told(y, "HELD", operator, order, unitSeq + 1, ordersStarted, turn, rest) /\ y # <<>>
    BY <1>14, <2>2, <2>3, ToldChange
  <2>5. Told(y, "HELD", operator, order, unitSeq + 1, ordersStarted, turn, last)
    BY <1>5, <2>4, ToldLater
  <2>6. PICK z : z = y \o Change(last, "HELD", "EXECUTE")
    OBVIOUS
  <2>7. Told(z, "EXECUTE", operator, order, unitSeq + 1, ordersStarted, turn, last) /\ z # <<>>
    BY <2>3, <2>4, <2>5, <2>6, ToldChange
  <2>8. events' = z
    BY <2>1, <2>2, <2>6
  <2>9. Told(events', state', operator', order', unitSeq', ordersStarted', turn', now')
    BY <1>6, <2>1, <2>7, <2>8
  <2> QED
    BY <1>1, <1>6, <2>7, <2>8, <2>9, Running DEF StoryInv
<1> QED
  BY <1>16, <1>17

-----------------------------------------------------------------------------
(* What the story tells *)

LEMMA StoryAlways == Spec => []StoryInv
<1>1. ASSUME Init PROVE StoryInv
  <2>1. PICK s, t : s = events /\ t = turn
    OBVIOUS
  <2>2. s \in Seq(Event) /\ s = <<>> /\ Len(s) = 0 /\ DOMAIN s = {} /\ 1 .. Len(s) = {}
    BY <1>1, <2>1 DEF Init
  <2>3. Walk(s, "IDLE")
    BY <2>2 DEF Walk, After, States
  <2>4. Attended(s, None)
    BY <2>2 DEF Attended
  <2>5. Counted(s, None, 0, 0)
    BY <2>2 DEF Counted
  <2>6. Clocked(s, 0, 0)
    <3>1. Logins(s, Len(s)) = {}
      BY <2>2 DEF Logins
    <3> QED
      BY <2>2, <3>1, FS_EmptySet DEF Clocked
  <2>7. Told(events, state, operator, order, unitSeq, ordersStarted, turn, now)
    BY <1>1, <2>1, <2>2, <2>3, <2>4, <2>5, <2>6 DEF Told, Init
  <2>8. turn <= Days * Len(Shifts)
    <3>1. Days \in Nat /\ Len(Shifts) \in Nat
      BY MachineSimAssumption
    <3> QED
      BY <1>1, <3>1 DEF Init
  <2> QED
    BY <1>1, <2>7, <2>8 DEF StoryInv, Init
<1>2. ASSUME StoryInv, [Next]_vars PROVE StoryInv'
  <2>1. CASE UNCHANGED vars
    BY <1>2, <2>1 DEF StoryInv, vars
  <2> QED
    BY <1>2, <2>1, StartsShift, TakesBreak, BeginsOrder, RunsUnit, EndsShift DEF Next
<1> QED
  BY <1>1, <1>2, PTL DEF Spec

\* For every calendar and all that may be drawn, the state changes of a machine are a walk
\* from IDLE: each leaves the state the one before entered and none is a step in place.
THEOREM StatesAreAWalk == Spec => []StatesChain
<1>1. StoryInv => StatesChain
  <2>1. SUFFICES ASSUME StoryInv, NEW i \in DOMAIN events, events[i].type = "change"
                 PROVE  /\ events[i].from # events[i].to
                        /\ (\A j \in 1..i - 1 : events[j].type # "change") => events[i].from = "IDLE"
                        /\ \A j \in 1..i - 1 :
                             events[j].type = "change" /\ (\A k \in j + 1..i - 1 : events[k].type # "change")
                               => events[i].from = events[j].to
    BY DEF StatesChain
  <2>2. events[i].from # events[i].to /\ After(events, i - 1, events[i].from)
    BY <2>1 DEF StoryInv, Told, Walk
  <2> QED
    BY <2>2 DEF After
<1> QED
  BY <1>1, StoryAlways, PTL

\* Whatever shifts an order runs through, its units are counted from 1 without a gap, it
\* has all of them before the next order begins, and each defect finds the cycle of its unit.
THEOREM UnitsAreCounted == Spec => []UnitsCountFromOne
<1>1. ASSUME StoryInv PROVE UnitsCountFromOne
  <2>1. Counted(events, order, unitSeq, ordersStarted) /\ events \in Seq(Event)
    BY <1>1 DEF StoryInv, Told
  <2>2. \A id, n : UnitsOf(id, n) = Made(events, id, n)
    BY DEF UnitsOf, Made
  <2>3. ASSUME NEW i \in DOMAIN events, events[i].type = "cycle"
        PROVE  /\ events[i].order \in 1..ordersStarted
               /\ events[i].unit = Cardinality(UnitsOf(events[i].order, i))
    BY <2>1, <2>2, <2>3 DEF Counted, Numbered
  <2>4. ASSUME NEW id \in 1..ordersStarted
        PROVE  LET made == Cardinality(UnitsOf(id, Len(events)))
               IN  IF order.id = id THEN made = unitSeq /\ made <= order.units ELSE made \in UnitCounts
    <3>1. order # None /\ unitSeq <= order.units
      BY <2>1, <2>4 DEF Counted
    <3> QED
      BY <2>1, <2>2, <3>1 DEF Counted, Complete
  <2>5. ASSUME NEW k \in DOMAIN events, events[k].type = "defect"
        PROVE  \E i \in UnitsOf(events[k].order, k) :
                  events[i].unit = events[k].unit /\ events[i].at = events[k].at
    BY <2>1, <2>2, <2>5 DEF Counted, Matched
  <2> QED
    BY <2>3, <2>4, <2>5 DEF UnitsCountFromOne
<1> QED
  BY <1>1, StoryAlways, PTL

\* No cycle, defect or changeover carries the badge of somebody who is not logged in.
THEOREM OperatorsOnDuty == Spec => []OperatorsAreOnDuty
<1>1. ASSUME StoryInv PROVE OperatorsAreOnDuty
  <2>1. Attended(events, operator)
    BY <1>1 DEF StoryInv, Told
  <2>2. ASSUME NEW i \in DOMAIN events, events[i].type # "change",
               events[i].type = "scan" => events[i].action # "login"
        PROVE  \E j \in 1..i - 1 :
                  /\ events[j].type = "scan" /\ events[j].action = "login"
                  /\ events[j].badge = events[i].badge
                  /\ \A k \in j + 1..i - 1 : events[k].type = "scan"
                                               => events[k].action \notin {"login", "logout"}
    <3>1. OnDuty(events, i - 1, events[i].badge)
      BY <2>1, <2>2 DEF Attended
    <3> QED
      BY <3>1 DEF OnDuty, Decisive
  <2> QED
    BY <2>2 DEF OperatorsAreOnDuty
<1> QED
  BY <1>1, StoryAlways, PTL

\* A login is at the start of its shift, time runs forward from there to the logout, and no
\* unit is begun when the shift has ended, whatever breaks and stops take.
THEOREM TimeRunsForward == Spec => []ShiftsRunInOrder
<1>1. ASSUME StoryInv PROVE ShiftsRunInOrder
  <2>1. Clocked(events, turn, now)
    BY <1>1 DEF StoryInv, Told
  <2>2. \A i : TurnOf(i) = Cardinality(Logins(events, i))
    BY DEF TurnOf, Logins
  <2>3. \A i \in DOMAIN events : OnTime(events, i)
    BY <2>1 DEF Clocked
  <2> QED
    BY <2>2, <2>3 DEF ShiftsRunInOrder, OnTime
<1> QED
  BY <1>1, StoryAlways, PTL

=============================================================================

-------------------------- MODULE TDEngine_proofs --------------------------
(***************************************************************************)
(* For all settings, windows, limits and photos: the engine repeats        *)
(* nothing, keeps to the budget and to what was called off, and counts     *)
(* and pairs truly.                                                        *)
(***************************************************************************)
EXTENDS TDEngine, TLAPS

(* The inductive invariant. *)

Unsent == flight.pc \in {"ready", "connect", "guarded"} /\ flight.kind = "check"
ForEntry == flight.phase = "entry"

\* A flight holds the row of its day, was asked for, and begins each request in
\* the seven minutes; before its check leaves and when its photo has been
\* acknowledged, the school has the student where the phase expects.
FlightOK == flight.pc # "none" =>
  /\ jobs[flight.day] = flight.job
  /\ flight.job.state = IF ForEntry THEN "sending_entry" ELSE "sending_exit"
  /\ ~school.quiet
  /\ ForEntry => /\ flight.stamp = flight.job.entry
                 /\ flight.job.attempted <= DailyLimit(profile)
  /\ flight.pc \in {"connect", "guarded", "reply"} =>
       /\ flight.job.entry <= flight.since /\ flight.since <= now
       /\ flight.since < flight.job.entry + Pair
  /\ Unsent => IF ForEntry
       THEN school.at = "out" /\ school.entries[flight.day] < flight.job.attempted
       ELSE school.at = "in" /\ school.entered = flight.job.entry
  /\ flight.pc = "commit" => IF ForEntry
       THEN school.at = "in" /\ school.entered = flight.job.entry
       ELSE school.at = "out" /\ flight.job.completed < school.exits[flight.day]

\* At most one phase is outstanding, and without one the student is out.
OneOutstanding ==
  /\ \A d, e \in Outstanding : d = e
  /\ Outstanding = {} => school.at = "out"

\* Entries are charged before they leave.
Charged == \A d \in Days : school.entries[d] <= jobs[d].attempted

\* Where an entry was claimed there was time for its pair.
Placed(d) ==
  /\ profile.rules # None /\ d \in OpenOn[profile.rules]
  /\ DayOf[jobs[d].entry] = d
  /\ jobs[d].entry + Margin <= expiry
  /\ \E w \in Windows : w.from <= jobs[d].entry /\ jobs[d].entry + Margin <= w.to

\* Only doubt keeps a switch on after sending was called off: the record of a
\* failure was lost.
CalledOff ==
  school.quiet => \/ ~profile.enabled /\ Queues = {}
                  \/ \E d \in Outstanding : jobs[d].state # "waiting_exit"

IInv ==
  /\ TypeOK /\ now < Horizon
  /\ FlightOK /\ OneOutstanding /\ Charged /\ HonestTally /\ PhotosKept /\ CalledOff
  /\ \A d \in Outstanding : Placed(d)

-----------------------------------------------------------------------------
(* Time. *)

LEMMA TodayType == ASSUME TypeOK, now < Horizon PROVE Today \in Days
  BY TDAssumption DEF TypeOK, Today, Times

LEMMA WindowType ==
  ASSUME NEW t \in Nat
  PROVE  /\ WindowEnd(t) \in Nat
         /\ WindowEnd(t) # 0 => \E w \in Open(t) : WindowEnd(t) = w.to
         /\ Open(t) # {} => WindowEnd(t) > t
<1>1. CASE Open(t) = {}
  BY <1>1 DEF WindowEnd
<1>2. CASE Open(t) # {}
  <2> DEFINE w == CHOOSE w \in Open(t) : TRUE
  <2>1. w \in Open(t)
    BY <1>2
  <2> HIDE DEF w
  <2>2. w \in Windows /\ w.from \in Nat /\ w.to \in Nat /\ t < w.to
    BY <2>1, TDAssumption DEF Open, Times
  <2>3. WindowEnd(t) = w.to
    BY <1>2 DEF WindowEnd, w
  <2> QED
    BY <2>1, <2>2, <2>3
<1> QED
  BY <1>1, <1>2

\* TimeFor: there is a window, and the licence, for the whole of it.
LEMMA TimeForPair ==
  ASSUME TypeOK, TimeFor(Margin)
  PROVE  /\ now + Margin <= expiry
         /\ \E w \in Windows : w.from <= now /\ now + Margin <= w.to
<1>1. now \in Nat /\ expiry \in Nat /\ Margin \in Nat \ {0}
  BY TDAssumption DEF TypeOK
<1>2. now + Margin <= WindowEnd(now) /\ now + Margin <= expiry
  BY <1>1, WindowType DEF TimeFor, Available, Smaller
<1>3. WindowEnd(now) # 0
  BY <1>1, <1>2
<1>4. PICK w \in Open(now) : WindowEnd(now) = w.to
  BY <1>1, <1>3, WindowType
<1> QED
  BY <1>2, <1>4 DEF Open

\* As long as a pair is fresh, and until its last request is out, the day and
\* the window of its entry last.
LEMMA PairInWindow ==
  ASSUME TypeOK, now < Horizon, NEW d \in Days, Placed(d), jobs[d].entry <= now,
         now < jobs[d].entry + Margin
  PROVE  /\ Today = d /\ Licensed /\ WindowEnd(now) # 0
         /\ Today \in OpenOn[profile.rules]
<1> DEFINE e == jobs[d].entry
<1>1. now \in Nat /\ e \in Nat /\ expiry \in Nat /\ Margin \in Nat
  BY TDAssumption DEF TypeOK, Job
<1>2. PICK w \in Windows : w.from <= e /\ e + Margin <= w.to
  BY DEF Placed
<1>3. w.from \in Nat /\ w.to \in Nat
  BY TDAssumption DEF Times
<1>4. DayOf[now] = DayOf[w.from] /\ DayOf[e] = DayOf[w.from]
  <2>1. \A t \in w.from..(w.to - 1) : DayOf[t] = DayOf[w.from]
    BY <1>2, TDAssumption
  <2>2. now \in w.from..(w.to - 1) /\ e \in w.from..(w.to - 1)
    BY <1>1, <1>2, <1>3
  <2> QED
    BY <2>1, <2>2
<1>5. Today = d
  BY <1>4 DEF Placed, Today
<1>6. Licensed
  BY <1>1 DEF Placed, Licensed
<1>7. w \in Open(now)
  BY <1>1, <1>2, <1>3 DEF Open
<1>8. WindowEnd(now) # 0
  BY <1>1, <1>7, WindowType
<1> QED
  BY <1>5, <1>6, <1>8 DEF Placed

THEOREM PairFitsFollows == IInv => PairFits
<1> SUFFICES ASSUME IInv, NEW d \in Days, jobs[d].state = "waiting_exit", Fresh(jobs[d])
             PROVE  /\ Today = d /\ Licensed /\ WindowEnd(now) # 0
                    /\ Today \in OpenOn[profile.rules]
  BY DEF PairFits
<1>1. d \in Outstanding
  BY DEF Outstanding, Busy
<1>2. now \in Nat /\ jobs[d].entry \in Nat
  BY DEF IInv, TypeOK, Job
<1>3. jobs[d].entry <= now /\ now < jobs[d].entry + Margin
  BY <1>2, TDAssumption DEF Fresh
<1> QED
  BY <1>1, <1>3, PairInWindow DEF IInv
-----------------------------------------------------------------------------
(* Rows. *)

\* j is row k, perhaps put in doubt.
Like(j, k) ==
  /\ j \in Job
  /\ j.attempted = k.attempted /\ j.completed = k.completed
  /\ j.entry = k.entry /\ j.group = k.group
  /\ j.state = k.state \/ (k.state \in Busy /\ j.state = "uncertain")

LEMMA EndedLike ==
  ASSUME NEW j \in Job
  PROVE  /\ Ended(j) \in Job /\ ~Queued(Ended(j))
         /\ Ended(j).attempted = j.attempted /\ Ended(j).completed = j.completed
         /\ Ended(j).entry = j.entry /\ Ended(j).group = j.group
         /\ Ended(j).state = j.state
  BY DEF Ended, Job, Queued

LEMMA DoubtLike ==
  ASSUME NEW j \in Job, NEW s \in States
  PROVE  LET k == [Ended(j) EXCEPT !.state = s] IN
         /\ k \in Job /\ ~Queued(k) /\ k.state = s
         /\ k.attempted = j.attempted /\ k.completed = j.completed
         /\ k.entry = j.entry /\ k.group = j.group
  BY DEF Ended, Job, Queued

LEMMA SweptLike ==
  ASSUME TypeOK
  PROVE  /\ Swept \in [Days -> Job]
         /\ \A d \in Days : Like(Swept[d], jobs[d])
         /\ \A d \in Days : Queued(Swept[d]) => Queued(jobs[d])
         /\ Orphans \cup Late = {} /\ Today \in Days => Swept[Today] = jobs[Today]
<1>1. ASSUME NEW d \in Days
      PROVE  /\ Swept[d] \in Job /\ Like(Swept[d], jobs[d])
             /\ Queued(Swept[d]) => Queued(jobs[d])
  <2>1. jobs[d] \in Job
    BY DEF TypeOK
  <2>2. CASE d \in Orphans \cup Late
    <3>1. Swept[d] = [Ended(jobs[d]) EXCEPT !.state = "uncertain"]
      BY <2>2 DEF Swept
    <3>2. jobs[d].state \in Busy
      BY <2>2 DEF Orphans, Late, Busy
    <3>3. "uncertain" \in States
      BY DEF States
    <3> QED
      BY <2>1, <3>1, <3>2, <3>3, DoubtLike DEF Like
  <2>3. CASE d \notin Orphans \cup Late /\ d # Today /\ Queued(jobs[d])
    <3>1. Swept[d] = Ended(jobs[d])
      BY <2>3 DEF Swept
    <3> QED
      BY <2>1, <3>1, EndedLike DEF Like
  <2>4. CASE d \notin Orphans \cup Late /\ ~(d # Today /\ Queued(jobs[d]))
    <3>1. Swept[d] = jobs[d]
      BY <2>4 DEF Swept
    <3> QED
      BY <2>1, <3>1 DEF Like
  <2> QED
    BY <2>2, <2>3, <2>4
<1>2. Swept \in [Days -> Job]
  <2> DEFINE S(d) == IF d \in Orphans \cup Late
                     THEN [Ended(jobs[d]) EXCEPT !.state = "uncertain"]
                     ELSE IF d # Today /\ Queued(jobs[d]) THEN Ended(jobs[d])
                     ELSE jobs[d]
  <2>1. Swept = [d \in Days |-> S(d)]
    BY DEF Swept
  <2>2. ASSUME NEW d \in Days PROVE Swept[d] = S(d)
    BY <2>1
  <2> HIDE DEF S
  <2> QED
    BY <1>1, <2>1, <2>2
<1>3. Orphans \cup Late = {} /\ Today \in Days => Swept[Today] = jobs[Today]
  BY DEF Swept
<1> QED
  BY <1>1, <1>2, <1>3
-----------------------------------------------------------------------------
(* The transaction of a tick either settles or claims. *)

SettleStep ==
  /\ jobs' \in [Days -> Job]
  /\ \A d \in Days : Like(jobs'[d], jobs[d])
  /\ \A d \in Days : Queued(jobs'[d]) => Queued(jobs[d]) \/ profile.enabled
  /\ profile' \in Profile
  /\ profile'.rules = profile.rules /\ (profile'.enabled => profile.enabled)
  /\ UNCHANGED <<flight, school>>

ClaimStep(manual) ==
  /\ ~Blocked
  /\ jobs' \in [Days -> Job] /\ profile' \in Profile /\ flight' \in Flight
  /\ \A d \in Days \ {Today} : Like(jobs'[d], jobs[d])
  /\ profile'.rules = profile.rules /\ profile.rules # None
  /\ Today \in OpenOn[profile.rules]
  /\ flight'.pc = "ready" /\ flight'.kind = "check" /\ flight'.day = Today
  /\ flight'.stamp = now /\ jobs'[Today] = flight'.job
  /\ flight'.job.completed = jobs[Today].completed
  /\ IF jobs[Today].state = "waiting_exit"
     THEN /\ flight'.phase = "exit" /\ flight'.job.state = "sending_exit"
          /\ flight'.job.attempted = jobs[Today].attempted
          /\ flight'.job.entry = jobs[Today].entry
          /\ flight'.job.group = jobs[Today].group
     ELSE /\ flight'.phase = "entry" /\ flight'.job.state = "sending_entry"
          /\ flight'.job.attempted = jobs[Today].attempted + 1
          /\ flight'.job.attempted <= DailyLimit(profile)
          /\ flight'.job.entry = now /\ flight'.job.group \in groups
          /\ TimeFor(Margin)
  /\ manual \/ profile.enabled \/ Queued(jobs[Today])
  /\ school' = IF manual THEN [school EXCEPT !.quiet = FALSE] ELSE school

LEMMA SwitchedType ==
  ASSUME NEW p \in Profile, NEW on \in BOOLEAN
  PROVE  /\ Switched(p, on) \in Profile
         /\ Switched(p, on).rules = p.rules /\ Switched(p, on).enabled = on
         /\ Switched(p, on).reached = p.reached /\ Switched(p, on).last = p.last
  BY DEF Profile, Switched

LEMMA Settles ==
  ASSUME TypeOK, now < Horizon, NEW j, NEW p \in Profile, Like(j, jobs[Today]),
         Queued(j) => Queued(jobs[Today]) \/ profile.enabled,
         p.rules = profile.rules, p.enabled => profile.enabled, Settle(j, p)
  PROVE  SettleStep
<1>1. Today \in Days /\ Swept \in [Days -> Job] /\ j \in Job
  BY TodayType, SweptLike DEF Like
<1>2. jobs' \in [Days -> Job] /\ jobs'[Today] = j
  BY <1>1 DEF Settle
<1>3. \A d \in Days \ {Today} : jobs'[d] = Swept[d]
  BY <1>1 DEF Settle
<1>4. ASSUME NEW d \in Days
      PROVE  /\ Like(jobs'[d], jobs[d])
             /\ Queued(jobs'[d]) => Queued(jobs[d]) \/ profile.enabled
  BY <1>2, <1>3, SweptLike
<1> QED
  BY <1>2, <1>4 DEF Settle, SettleStep

\* What today's row and the profile are when the transaction comes to send.
Prepared(p, j, manual) ==
  /\ ~Blocked
  /\ Like(j, jobs[Today]) /\ j.state = jobs[Today].state
  /\ Queued(j) => Queued(jobs[Today]) \/ profile.enabled
  /\ p \in Profile /\ p.rules = profile.rules /\ (p.enabled => profile.enabled)
  /\ profile.rules # None /\ Today \in OpenOn[profile.rules]
  /\ manual \/ profile.enabled \/ Queued(jobs[Today])

LEMMA LimitType ==
  ASSUME NEW p \in Profile, p.rules # None
  PROVE  DailyLimit(p) \in Nat
  BY TDAssumption DEF Profile, DailyLimit, Smaller, Settings

LEMMA Claims ==
  ASSUME TypeOK, now < Horizon, NEW j, NEW p, NEW manual \in BOOLEAN,
         Prepared(p, j, manual), Claim(p, j, manual),
         Phase(j) = "entry" => Remaining(p, j) # 0 /\ TimeFor(Margin)
  PROVE  ClaimStep(manual)
<1>1. /\ Today \in Days /\ Swept \in [Days -> Job] /\ j \in Job /\ p \in Profile
      /\ profile \in Profile
  BY TodayType, SweptLike DEF Like, Prepared, TypeOK
<1>2. PICK job \in Claimed(p, j, Phase(j)) :
        /\ jobs' = [Swept EXCEPT ![Today] = job]
        /\ profile' = p
        /\ flight' = [pc |-> "ready", kind |-> "check", phase |-> Phase(j), day |-> Today,
                      manual |-> manual, batch |-> Queued(j), job |-> job,
                      stamp |-> now, since |-> now]
        /\ school' = IF manual THEN [school EXCEPT !.quiet = FALSE] ELSE school
  BY DEF Claim
<1>3. /\ job \in Job /\ job.completed = j.completed
      /\ IF j.state = "waiting_exit"
         THEN /\ job.state = "sending_exit" /\ job.attempted = j.attempted
              /\ job.entry = j.entry /\ job.group = j.group
         ELSE /\ job.state = "sending_entry" /\ job.attempted = j.attempted + 1
              /\ job.entry = now /\ job.group \in groups
  <2>1. CASE j.state = "waiting_exit"
    <3>1. job = [j EXCEPT !.state = "sending_exit", !.sender = "this"]
      BY <2>1 DEF Claimed, Phase
    <3> QED
      BY <1>1, <2>1, <3>1 DEF Job, States
  <2>2. CASE j.state # "waiting_exit"
    <3>1. PICK g \in Candidates(p) :
            job = [j EXCEPT !.state = "sending_entry", !.sender = "this",
                     !.attempted = @ + 1, !.entry = now, !.group = g, !.rules = p.rules]
      BY <2>2 DEF Claimed, Phase
    <3>2. g \in groups /\ g \in Groups
      BY DEF Candidates, TypeOK
    <3>3. p.rules \in Settings \cup {None} /\ now \in Nat
      BY <1>1 DEF Profile, TypeOK
    <3>4. /\ job.state = "sending_entry" /\ job.attempted = j.attempted + 1
          /\ job.completed = j.completed /\ job.entry = now /\ job.group = g
      BY <1>1, <3>1 DEF Job
    <3>5. j.attempted + 1 \in Nat /\ "sending_entry" \in States /\ "this" \in {"this", "earlier"}
      BY <1>1 DEF Job, States
    <3>6. job \in Job
      BY <1>1, <3>1, <3>2, <3>3, <3>5 DEF Job
    <3> QED
      BY <2>2, <3>2, <3>4, <3>6
  <2> QED
    BY <2>1, <2>2
<1>4. jobs' \in [Days -> Job] /\ jobs'[Today] = job
  BY <1>1, <1>2, <1>3
<1>5. \A d \in Days \ {Today} : Like(jobs'[d], jobs[d])
  BY <1>1, <1>2, SweptLike
<1>6. flight' \in Flight
  <2>1. Phase(j) \in {"check", "photo", "entry", "exit"} \cap {"entry", "exit"}
    BY DEF Phase
  <2>2. Queued(j) \in BOOLEAN /\ now \in Nat
    BY DEF Queued, TypeOK
  <2> QED
    BY <1>1, <1>2, <1>3, <2>1, <2>2 DEF Flight
<1>7. j.state # "waiting_exit" =>
        j.attempted + 1 <= DailyLimit(profile) /\ TimeFor(Margin)
  <2>1. DailyLimit(p) = DailyLimit(profile) /\ DailyLimit(p) \in Nat
    BY <1>1, LimitType DEF Prepared, DailyLimit
  <2>2. j.attempted \in Nat
    BY <1>1 DEF Job
  <2> QED
    BY <2>1, <2>2 DEF Phase, Remaining
<1>8. /\ flight'.pc = "ready" /\ flight'.kind = "check" /\ flight'.day = Today
      /\ flight'.stamp = now /\ flight'.job = job /\ flight'.phase = Phase(j)
  BY <1>2
<1>9. /\ j.state = jobs[Today].state /\ j.attempted = jobs[Today].attempted
      /\ j.completed = jobs[Today].completed
      /\ j.entry = jobs[Today].entry /\ j.group = jobs[Today].group
  BY DEF Prepared, Like
<1>10. IF jobs[Today].state = "waiting_exit"
       THEN /\ flight'.phase = "exit" /\ flight'.job.state = "sending_exit"
            /\ flight'.job.attempted = jobs[Today].attempted
            /\ flight'.job.entry = jobs[Today].entry
            /\ flight'.job.group = jobs[Today].group
       ELSE /\ flight'.phase = "entry" /\ flight'.job.state = "sending_entry"
            /\ flight'.job.attempted = jobs[Today].attempted + 1
            /\ flight'.job.attempted <= DailyLimit(profile)
            /\ flight'.job.entry = now /\ flight'.job.group \in groups
            /\ TimeFor(Margin)
  BY <1>3, <1>7, <1>8, <1>9 DEF Phase
<1> QED
  BY <1>2, <1>3, <1>4, <1>5, <1>6, <1>8, <1>9, <1>10 DEF ClaimStep, Prepared

LEMMA Proceeds ==
  ASSUME TypeOK, now < Horizon, NEW j, NEW p, NEW manual \in BOOLEAN,
         Prepared(p, j, manual), Proceed(p, j, manual)
  PROVE  SettleStep \/ ClaimStep(manual)
<1>1. /\ j \in Job /\ p \in Profile /\ Like(j, jobs[Today])
      /\ p.rules = profile.rules /\ (p.enabled => profile.enabled)
      /\ Queued(j) => Queued(jobs[Today]) \/ profile.enabled
  BY DEF Prepared, Like
<1>2. ASSUME Settle(j, p) PROVE SettleStep
  BY <1>1, <1>2, Settles
<1>3. ASSUME Settle(Ended(j), p) PROVE SettleStep
  <2>1. Like(Ended(j), jobs[Today]) /\ ~Queued(Ended(j))
    BY <1>1, EndedLike DEF Like
  <2> QED
    BY <1>1, <1>3, <2>1, Settles
<1>4. ASSUME Settle(j, Switched(p, FALSE)) PROVE SettleStep
  <2>1. /\ Switched(p, FALSE) \in Profile /\ ~Switched(p, FALSE).enabled
        /\ Switched(p, FALSE).rules = p.rules
    BY <1>1, SwitchedType
  <2> QED
    BY <1>1, <1>4, <2>1, Settles
<1>5. CASE j.due > now
  BY <1>2, <1>5 DEF Proceed
<1>6. CASE ~(j.due > now) /\ Phase(j) = "exit"
  <2>1. Claim(p, j, manual)
    BY <1>6 DEF Proceed
  <2> QED
    BY <1>6, <2>1, Claims
<1>7. CASE ~(j.due > now) /\ Phase(j) # "exit"
  <2>1. CASE Remaining(p, j) = 0 \/ p.reached
    BY <1>2, <1>3, <1>7, <2>1 DEF Proceed
  <2>2. CASE ~(Remaining(p, j) = 0 \/ p.reached) /\ ~TimeFor(Margin)
    BY <1>2, <1>7, <2>2 DEF Proceed
  <2>3. CASE /\ ~(Remaining(p, j) = 0 \/ p.reached) /\ TimeFor(Margin)
             /\ groups = {}
    BY <1>4, <1>7, <2>3 DEF Proceed
  <2>4. CASE /\ ~(Remaining(p, j) = 0 \/ p.reached) /\ TimeFor(Margin)
             /\ groups # {}
    <3>1. Claim(p, j, manual)
      BY <1>7, <2>4 DEF Proceed
    <3> QED
      BY <2>4, <3>1, Claims
  <2> QED
    BY <2>1, <2>2, <2>3, <2>4
<1> QED
  BY <1>5, <1>6, <1>7

LEMMA ScheduledLike ==
  ASSUME TypeOK, now < Horizon, NEW p, NEW j \in Job, NEW queued \in Scheduled(p, j)
  PROVE  Like(queued, j) /\ queued.state = j.state
<1> DEFINE slack == IF TimeFor(QueueMargin(p, j)) THEN Available - now - QueueMargin(p, j)
                    ELSE 0
           latest == IF j.state # "waiting_exit" /\ j.attempted = 0 THEN slack ELSE 0
<1>1. PICK initial \in 0..latest :
        queued = [j EXCEPT !.batch = "active", !.until = WindowEnd(now),
                    !.due = IF @ > now + initial THEN @ ELSE now + initial]
  BY DEF Scheduled
<1> HIDE DEF latest
<1>2. initial \in Nat /\ now \in Nat /\ WindowEnd(now) \in Nat /\ j.due \in Nat
  <2>1. now \in Nat
    BY DEF TypeOK
  <2> QED
    BY <2>1, WindowType DEF Job
<1>3. (IF j.due > now + initial THEN j.due ELSE now + initial) \in Nat
  BY <1>2
<1> QED
  BY <1>1, <1>2, <1>3 DEF Job, Like

LEMMA Transacts ==
  ASSUME TypeOK, now < Horizon, NEW manual \in BOOLEAN, Transaction(manual)
  PROVE  SettleStep \/ ClaimStep(manual)
<1> DEFINE j == Swept[Today]
           p == Switched(profile, profile.enabled /\ Orphans \cup Late = {})
           over == IF Queued(j) THEN Ended(j) ELSE j
<1>1. Today \in Days /\ jobs[Today] \in Job
  BY TodayType DEF TypeOK
<1>2. j \in Job /\ Like(j, jobs[Today]) /\ (Queued(j) => Queued(jobs[Today]))
  BY <1>1, SweptLike DEF Like
<1>3. /\ p \in Profile /\ p.rules = profile.rules
      /\ p.enabled => profile.enabled
  <2>1. profile \in Profile /\ profile.enabled \in BOOLEAN
    BY DEF TypeOK, Profile
  <2>2. (profile.enabled /\ Orphans \cup Late = {}) \in BOOLEAN
    OBVIOUS
  <2>3. /\ p \in Profile /\ p.rules = profile.rules
        /\ p.enabled = (profile.enabled /\ Orphans \cup Late = {})
    BY <2>1, <2>2, SwitchedType
  <2> QED
    BY <2>3
<1>4. Like(over, jobs[Today]) /\ (Queued(over) => Queued(jobs[Today]))
  BY <1>2, EndedLike DEF Like
<1>5. Like(Ended(j), jobs[Today]) /\ ~Queued(Ended(j))
  BY <1>2, EndedLike DEF Like
<1>6. /\ Switched(p, FALSE) \in Profile /\ ~Switched(p, FALSE).enabled
      /\ Switched(p, FALSE).rules = profile.rules
  BY <1>3, SwitchedType
<1>7. Transaction(manual) =
        (IF Late # {} THEN Settle(j, p)
         ELSE IF Queued(j) /\ now >= j.until THEN Settle(Ended(j), p)
         ELSE IF ~p.enabled /\ ~Queued(j) /\ ~manual THEN Settle(j, p)
         ELSE IF ~Licensed THEN Settle(over, Switched(p, FALSE))
         ELSE IF ~Valid(p, manual \/ Queued(j)) THEN Settle(over, p)
         ELSE IF Blocked THEN Settle(j, p)
         ELSE IF p.enabled /\ ~manual /\ ~Queued(j)
              THEN IF Unscheduled(p, j) THEN Settle(j, p)
                   ELSE \E queued \in Scheduled(p, j) : Proceed(p, queued, manual)
         ELSE Proceed(p, j, manual))
  BY DEF Transaction
<1> HIDE DEF j, p, over
<1>8. ASSUME Settle(j, p) PROVE SettleStep
  BY <1>2, <1>3, <1>8, Settles
<1>9. ASSUME Settle(Ended(j), p) PROVE SettleStep
  BY <1>3, <1>5, <1>9, Settles
<1>10. ASSUME Settle(over, p) PROVE SettleStep
  BY <1>3, <1>4, <1>10, Settles
<1>11. ASSUME Settle(over, Switched(p, FALSE)) PROVE SettleStep
  BY <1>4, <1>6, <1>11, Settles
<1>12. CASE \/ Late # {} \/ (Queued(j) /\ now >= j.until)
            \/ (~p.enabled /\ ~Queued(j) /\ ~manual)
            \/ ~Licensed \/ ~Valid(p, manual \/ Queued(j)) \/ Blocked
  BY <1>7, <1>8, <1>9, <1>10, <1>11, <1>12
<1>13. CASE /\ Late = {} /\ ~(Queued(j) /\ now >= j.until)
            /\ p.enabled \/ Queued(j) \/ manual
            /\ Licensed /\ Valid(p, manual \/ Queued(j)) /\ ~Blocked
  <2>1. Orphans \cup Late = {} /\ j = jobs[Today]
    <3>1. Orphans = {}
      BY <1>13, TodayType DEF Orphans, Blocked, Outstanding, Busy
    <3> QED
      BY <1>1, <1>13, <3>1, SweptLike DEF j
  <2>2. profile.rules # None /\ Today \in OpenOn[profile.rules]
    BY <1>3, <1>13 DEF Valid
  <2>3. CASE p.enabled /\ ~manual /\ ~Queued(j)
    <3>1. CASE Unscheduled(p, j)
      BY <1>7, <1>8, <1>13, <2>3, <3>1
    <3>2. CASE ~Unscheduled(p, j)
      <4>1. PICK queued \in Scheduled(p, j) : Proceed(p, queued, manual)
        BY <1>7, <1>13, <2>3, <3>2
      <4>2. Like(queued, j) /\ queued.state = j.state
        BY <1>2, ScheduledLike
      <4>3. Prepared(p, queued, manual)
        BY <1>3, <1>13, <2>1, <2>2, <2>3, <4>2 DEF Prepared
      <4> QED
        BY <4>1, <4>3, Proceeds
    <3> QED
      BY <3>1, <3>2
  <2>4. CASE ~(p.enabled /\ ~manual /\ ~Queued(j))
    <3>1. Proceed(p, j, manual)
      BY <1>7, <1>13, <2>4
    <3>2. Prepared(p, j, manual)
      BY <1>2, <1>3, <1>13, <2>1, <2>2 DEF Prepared
    <3> QED
      BY <3>1, <3>2, Proceeds
  <2> QED
    BY <2>3, <2>4
<1> QED
  BY <1>12, <1>13
-----------------------------------------------------------------------------
(* Steps that leave the rounds where they are. *)

\* The row of d tells the same of its round, save what is acknowledged of it; a
\* pair that waited may be in doubt.
Kept(d) ==
  /\ jobs'[d].attempted = jobs[d].attempted
  /\ jobs'[d].completed = jobs[d].completed \/ jobs'[d].completed <= school.exits[d]
  /\ jobs'[d].entry = jobs[d].entry /\ jobs'[d].group = jobs[d].group
  /\ jobs'[d].state \in Busy <=> jobs[d].state \in Busy
  /\ jobs'[d].state = "waiting_exit" => jobs[d].state = "waiting_exit"

\* The history as far as it is about requests that left.
SameHistory ==
  /\ school'.at = school.at /\ school'.entered = school.entered
  /\ school'.entries = school.entries /\ school'.exits = school.exits

LEMMA LikeKept ==
  ASSUME NEW d \in Days, Like(jobs'[d], jobs[d])
  PROVE  Kept(d)
  BY DEF Like, Kept, Busy

LEMMA SchoolType ==
  ASSUME TypeOK, NEW q \in BOOLEAN, school' = [school EXCEPT !.quiet = q]
  PROVE  /\ school' \in [at : {"out", "in", "unknown"}, entered : Nat, quiet : BOOLEAN,
                         entries : [Days -> Nat], exits : [Days -> Nat]]
         /\ school'.quiet = q /\ SameHistory
  BY DEF TypeOK, SameHistory

\* Placed is about the row, the settings and the licence.
LEMMA PlacedKept ==
  ASSUME TypeOK, TypeOK', NEW d \in Days, Placed(d), jobs'[d].entry = jobs[d].entry,
         profile'.rules = profile.rules, expiry <= expiry'
  PROVE  Placed(d)'
<1>1. jobs[d].entry + Margin <= expiry'
  <2>1. jobs[d].entry \in Nat /\ expiry \in Nat /\ expiry' \in Nat /\ Margin \in Nat
    BY TDAssumption DEF TypeOK, Job
  <2> QED
    BY <2>1 DEF Placed
<1> QED
  BY <1>1 DEF Placed

LEMMA RoundsKept ==
  ASSUME IInv, TypeOK', now' < Horizon, flight'.pc = "none",
         \A d \in Days : Kept(d), SameHistory, expiry <= expiry',
         Outstanding # {} => profile'.rules = profile.rules,
         \A d \in Outstanding : jobs[d].group \in groups',
         CalledOff'
  PROVE  IInv'
<1>1. Outstanding' = Outstanding
  BY DEF Outstanding, Kept
<1>2. FlightOK'
  BY DEF FlightOK
<1>3. OneOutstanding'
  BY <1>1 DEF IInv, OneOutstanding, SameHistory
<1>4. Charged'
  BY DEF IInv, Charged, Kept, SameHistory
<1>5. HonestTally'
  BY DEF IInv, HonestTally, Kept, SameHistory
<1>6. PhotosKept'
  BY <1>1 DEF PhotosKept, Kept, Outstanding
<1>7. ASSUME NEW d \in Outstanding PROVE Placed(d)'
  BY PlacedKept DEF IInv, Kept, Outstanding
<1> QED
  BY <1>1, <1>2, <1>3, <1>4, <1>5, <1>6, <1>7 DEF IInv

\* Only the clock, the registry or the engine's closing moves.
LEMMA Elapse ==
  ASSUME IInv, TypeOK', now <= now', now' < Horizon,
         UNCHANGED <<profile, jobs, groups, expiry, flight, school>>
  PROVE  IInv'
<1>1. Outstanding' = Outstanding /\ Queues' = Queues
  BY DEF Outstanding, Queues, Queued
<1>2. FlightOK'
  <2>1. now \in Nat /\ now' \in Nat /\ flight.since \in Nat
    BY DEF IInv, TypeOK, Flight
  <2>2. DailyLimit(profile)' = DailyLimit(profile)
    BY DEF DailyLimit, Smaller
  <2>3. flight.since <= now => flight.since <= now'
    BY <2>1
  <2> QED
    BY <2>2, <2>3 DEF IInv, FlightOK, Unsent, ForEntry
<1>3. OneOutstanding' /\ Charged' /\ HonestTally' /\ PhotosKept' /\ CalledOff'
  BY <1>1 DEF IInv, OneOutstanding, Charged, HonestTally, PhotosKept, CalledOff
<1>4. ASSUME NEW d \in Outstanding PROVE Placed(d)'
  BY <1>4 DEF IInv, Placed
<1> QED
  BY <1>1, <1>2, <1>3, <1>4 DEF IInv
-----------------------------------------------------------------------------
(* The transaction. *)

LEMMA CalledOffSettled ==
  ASSUME IInv, SettleStep
  PROVE  CalledOff'
<1>1. \A d \in Days : jobs'[d].state = jobs[d].state
                        \/ (jobs[d].state \in Busy /\ jobs'[d].state = "uncertain")
  BY DEF SettleStep, Like
<1>2. ASSUME NEW d \in Outstanding, jobs[d].state # "waiting_exit"
      PROVE  d \in Outstanding' /\ jobs'[d].state # "waiting_exit"
  BY <1>1, <1>2 DEF Outstanding, Busy
<1>3. ~profile.enabled /\ Queues = {} => ~profile'.enabled /\ Queues' = {}
  BY DEF SettleStep, Queues, Queued
<1> QED
  BY <1>2, <1>3 DEF IInv, CalledOff, SettleStep

LEMMA SettlesKeep ==
  ASSUME IInv, LockFree, SettleStep,
         UNCHANGED <<now, groups, expiry, account, stopping, ticking, restarts>>
  PROVE  IInv'
<1>1. TypeOK'
  BY DEF IInv, TypeOK, SettleStep
<1>2. \A d \in Days : Kept(d)
  BY LikeKept DEF SettleStep
<1>3. SameHistory /\ flight'.pc = "none" /\ now' < Horizon
  BY DEF SettleStep, SameHistory, LockFree, IInv
<1>4. expiry <= expiry'
  BY DEF IInv, TypeOK
<1>5. \A d \in Outstanding : jobs[d].group \in groups'
  BY DEF IInv, PhotosKept
<1> QED
  BY <1>1, <1>2, <1>3, <1>4, <1>5, CalledOffSettled, RoundsKept DEF SettleStep

LEMMA ClaimKeeps ==
  ASSUME IInv, LockFree, NEW manual \in BOOLEAN, ClaimStep(manual),
         UNCHANGED <<now, groups, expiry, account, stopping, ticking, restarts>>
  PROVE  IInv'
<1> DEFINE exit == jobs[Today].state = "waiting_exit"
<1>1. Today \in Days /\ TypeOK /\ now \in Nat
  BY TodayType DEF IInv, TypeOK
<1>2. /\ SameHistory /\ ~school'.quiet
      /\ school' \in [at : {"out", "in", "unknown"}, entered : Nat, quiet : BOOLEAN,
                      entries : [Days -> Nat], exits : [Days -> Nat]]
  <2>1. CASE manual
    BY <1>1, <2>1, SchoolType DEF ClaimStep
  <2>2. CASE ~manual
    <3>1. school' = school
      BY <2>2 DEF ClaimStep
    <3>2. ~\E d \in Outstanding : jobs[d].state # "waiting_exit"
      BY DEF ClaimStep, Blocked
    <3>3. profile.enabled \/ Queues # {}
      BY <1>1, <2>2 DEF ClaimStep, Queues
    <3>4. ~school.quiet
      BY <3>2, <3>3 DEF IInv, CalledOff
    <3> QED
      BY <1>1, <3>1, <3>4 DEF SameHistory, TypeOK
  <2> QED
    BY <2>1, <2>2
<1>3. TypeOK'
  BY <1>1, <1>2 DEF TypeOK, ClaimStep
<1>4. Outstanding \subseteq {Today} /\ (Outstanding = {} <=> ~exit)
  BY <1>1 DEF ClaimStep, Blocked, Outstanding, Busy
<1>5. Outstanding' = {Today}
  <2>1. Today \in Outstanding'
    BY <1>1 DEF ClaimStep, Outstanding, Busy
  <2>2. ASSUME NEW d \in Days \ {Today} PROVE d \notin Outstanding'
    <3>1. jobs[d].state \notin Busy /\ Like(jobs'[d], jobs[d])
      BY <1>4 DEF Outstanding, ClaimStep
    <3> QED
      BY <3>1 DEF Like, Outstanding
  <2> QED
    BY <1>1, <2>1, <2>2 DEF Outstanding
<1>6. /\ ~exit => school.at = "out"
      /\ exit => school.at = "in" /\ school.entered = jobs[Today].entry
  BY <1>1, <1>4 DEF IInv, OneOutstanding, HonestTally
<1>7. school.entries[Today] <= jobs[Today].attempted /\ school.entries[Today] \in Nat
      /\ jobs[Today].attempted \in Nat
  BY <1>1 DEF IInv, Charged, TypeOK, Job
<1>8. DailyLimit(profile)' = DailyLimit(profile)
  BY DEF DailyLimit, ClaimStep, Smaller
<1>9. FlightOK'
  <2>1. jobs'[flight'.day] = flight'.job
    BY DEF ClaimStep
  <2>2. CASE exit
    BY <1>2, <1>6, <2>1, <2>2 DEF FlightOK, Unsent, ForEntry, ClaimStep, SameHistory
  <2>3. CASE ~exit
    <3>1. school'.at = "out" /\ school'.entries[flight'.day] < flight'.job.attempted
      BY <1>2, <1>6, <1>7, <2>3 DEF SameHistory, ClaimStep
    <3> QED
      BY <1>2, <1>8, <2>1, <2>3, <3>1 DEF FlightOK, Unsent, ForEntry, ClaimStep
  <2> QED
    BY <2>2, <2>3
<1>10. OneOutstanding'
  BY <1>5 DEF OneOutstanding
<1>11. Charged'
  <2>1. school'.entries[Today] <= jobs'[Today].attempted
    BY <1>2, <1>7 DEF ClaimStep, SameHistory
  <2>2. ASSUME NEW d \in Days \ {Today} PROVE school'.entries[d] <= jobs'[d].attempted
    BY <1>2 DEF IInv, Charged, ClaimStep, Like, SameHistory
  <2> QED
    BY <2>1, <2>2 DEF Charged
<1>12. HonestTally'
  <2>1. ASSUME NEW d \in Days PROVE jobs'[d].completed = jobs[d].completed
    BY DEF ClaimStep, Like
  <2>2. ASSUME NEW d \in Days PROVE jobs'[d].state # "waiting_exit"
    BY <1>5, <2>2 DEF Outstanding, Busy, ClaimStep
  <2> QED
    BY <1>2, <2>1, <2>2 DEF IInv, HonestTally, SameHistory
<1>13. PhotosKept'
  <2>1. exit => jobs[Today].group \in groups
    BY <1>1 DEF IInv, PhotosKept, Outstanding, Busy
  <2> QED
    BY <1>5, <2>1 DEF PhotosKept, ClaimStep
<1>14. CalledOff'
  BY <1>2 DEF CalledOff
<1>15. Placed(Today)'
  <2>1. CASE exit
    <3>1. Placed(Today)
      BY <1>1, <2>1 DEF IInv, Outstanding, Busy
    <3> QED
      BY <2>1, <3>1 DEF Placed, ClaimStep, Today
  <2>2. CASE ~exit
    <3>1. /\ now + Margin <= expiry
          /\ \E w \in Windows : w.from <= now /\ now + Margin <= w.to
      BY <1>1, <2>2, TimeForPair DEF ClaimStep
    <3>2. jobs'[Today].entry = now
      BY <2>2 DEF ClaimStep
    <3>3. DayOf[now] = Today
      BY DEF Today
    <3> QED
      BY <3>1, <3>2, <3>3 DEF Placed, ClaimStep, Today
  <2> QED
    BY <2>1, <2>2
<1>16. \A d \in Outstanding' : Placed(d)'
  <2>1. Today' = Today
    BY DEF Today
  <2> QED
    BY <1>5, <1>15, <2>1 DEF Placed
<1> QED
  BY <1>3, <1>9, <1>10, <1>11, <1>12, <1>13, <1>14, <1>16 DEF IInv
-----------------------------------------------------------------------------
(* The flight. *)

LEMMA FlightFacts ==
  ASSUME IInv, flight.pc # "none"
  PROVE  /\ flight \in Flight /\ flight.day \in Days /\ flight.job \in Job
         /\ jobs[flight.day] = flight.job
         /\ flight.job.state \in {"sending_entry", "sending_exit"}
         /\ Outstanding = {flight.day}
         /\ ~school.quiet /\ profile \in Profile /\ profile.rules # None
<1>1. flight \in Flight /\ flight.day \in Days /\ flight.job \in Job /\ profile \in Profile
  BY DEF IInv, TypeOK, Flight
<1>2. /\ jobs[flight.day] = flight.job /\ ~school.quiet
      /\ flight.job.state \in {"sending_entry", "sending_exit"}
  BY DEF IInv, FlightOK
<1>3. flight.day \in Outstanding
  BY <1>1, <1>2 DEF Outstanding, Busy
<1>4. Outstanding = {flight.day}
  BY <1>3 DEF IInv, OneOutstanding
<1> QED
  BY <1>1, <1>2, <1>3, <1>4 DEF IInv, Placed

\* A step within the flight: the request's place and the school's side move.
LEMMA InFlight ==
  ASSUME IInv, flight.pc # "none", TypeOK', OnlyFlight, FlightOK',
         school'.quiet = school.quiet, Charged',
         \A d \in Days : school.exits[d] <= school'.exits[d]
  PROVE  IInv'
<1>1. Outstanding' = Outstanding
  BY DEF Outstanding, OnlyFlight
<1>2. OneOutstanding'
  BY <1>1, FlightFacts DEF OneOutstanding
<1>3. HonestTally'
  <2>1. ASSUME NEW d \in Days PROVE jobs'[d].completed <= school'.exits[d]
    <3>1. /\ jobs[d].completed \in Nat /\ school.exits[d] \in Nat /\ school'.exits[d] \in Nat
          /\ jobs[d].completed <= school.exits[d]
      BY DEF IInv, TypeOK, Job, HonestTally
    <3> QED
      BY <3>1 DEF OnlyFlight
  <2>2. ASSUME NEW d \in Days PROVE jobs'[d].state # "waiting_exit"
    BY FlightFacts DEF Outstanding, Busy, OnlyFlight
  <2> QED
    BY <2>1, <2>2 DEF HonestTally
<1>4. PhotosKept' /\ CalledOff'
  BY <1>1, FlightFacts DEF IInv, PhotosKept, CalledOff, OnlyFlight
<1>5. \A d \in Outstanding' : Placed(d)'
  BY <1>1 DEF IInv, Placed, OnlyFlight
<1> QED
  BY <1>2, <1>3, <1>4, <1>5 DEF IInv, OnlyFlight

\* The limit does not move under a flight, nor does anything it began with.
SameFlight ==
  /\ flight' \in Flight /\ flight'.day = flight.day /\ flight'.job = flight.job
  /\ flight'.phase = flight.phase /\ flight'.stamp = flight.stamp

LEMMA SameFlightOK ==
  ASSUME IInv, flight.pc # "none", flight'.pc # "none", OnlyFlight, SameFlight,
         school'.quiet = school.quiet,
         flight'.pc \in {"connect", "guarded", "reply"} =>
           /\ flight.job.entry <= flight'.since /\ flight'.since <= now
           /\ flight'.since < flight.job.entry + Pair,
         Unsent' => Unsent /\ school' = school,
         flight'.pc = "commit" => IF ForEntry
           THEN school'.at = "in" /\ school'.entered = flight.job.entry
           ELSE school'.at = "out" /\ flight.job.completed < school'.exits[flight.day]
  PROVE  FlightOK'
<1>1. DailyLimit(profile)' = DailyLimit(profile) /\ jobs' = jobs /\ now' = now
  BY DEF DailyLimit, Smaller, OnlyFlight
<1>2. ForEntry' <=> ForEntry
  BY DEF ForEntry, SameFlight
<1>3. FlightOK
  BY DEF IInv
<1>4. /\ jobs'[flight'.day] = flight'.job
      /\ flight'.job.state = IF ForEntry' THEN "sending_entry" ELSE "sending_exit"
      /\ ~school'.quiet
      /\ ForEntry' => /\ flight'.stamp = flight'.job.entry
                      /\ flight'.job.attempted <= DailyLimit(profile)'
  BY <1>1, <1>2, <1>3 DEF FlightOK, SameFlight
<1>5. Unsent' => IF ForEntry'
        THEN school'.at = "out" /\ school'.entries[flight'.day] < flight'.job.attempted
        ELSE school'.at = "in" /\ school'.entered = flight'.job.entry
  BY <1>2, <1>3 DEF FlightOK, SameFlight
<1> QED
  BY <1>1, <1>2, <1>4, <1>5 DEF FlightOK, SameFlight

\* Whoever passes the guard is in the seven minutes.
LEMMA GuardFresh ==
  ASSUME IInv, flight.pc # "none", Guard
  PROVE  /\ now \in Nat /\ flight.job.entry \in Nat
         /\ flight.job.entry <= now /\ now < flight.job.entry + Pair
<1>1. now \in Nat /\ flight.job.entry \in Nat /\ Pair \in Nat
  BY FlightFacts, TDAssumption DEF IInv, TypeOK, Job
<1>2. Fresh(flight.job)
  BY DEF Guard
<1> QED
  BY <1>1, <1>2 DEF Fresh

LEMMA Unmoved ==
  ASSUME IInv, OnlyFlight, flight' \in Flight, school' = school
  PROVE  TypeOK' /\ Charged'
  BY DEF IInv, TypeOK, OnlyFlight, Charged

LEMMA BeginKeeps == ASSUME IInv, Begin PROVE IInv'
<1>1. flight.pc = "ready" /\ OnlyFlight /\ school' = school
  BY DEF Begin, AtRequest
<1>2. /\ SameFlight /\ flight'.pc = "connect" /\ flight'.since = now
      /\ flight'.kind = flight.kind
  BY <1>1, FlightFacts, GuardFresh DEF Begin, Flight, SameFlight
<1>3. TypeOK' /\ Charged'
  BY <1>1, <1>2, Unmoved DEF SameFlight
<1>4. FlightOK'
  <2>1. now <= now /\ flight.job.entry <= now /\ now < flight.job.entry + Pair
    BY <1>1, GuardFresh DEF Begin
  <2> QED
    BY <1>1, <1>2, <2>1, SameFlightOK DEF Unsent
<1>5. \A d \in Days : school.exits[d] <= school'.exits[d]
  BY <1>1 DEF IInv, TypeOK
<1> QED
  BY <1>1, <1>3, <1>4, <1>5, InFlight

LEMMA ConnectedKeeps == ASSUME IInv, Connected PROVE IInv'
<1>1. flight.pc = "connect" /\ OnlyFlight /\ school' = school
  BY DEF Connected, AtRequest
<1>2. /\ SameFlight /\ flight'.pc = "guarded" /\ flight'.since = flight.since
      /\ flight'.kind = flight.kind
  BY <1>1, FlightFacts DEF Connected, Advance, Flight, SameFlight
<1>3. TypeOK' /\ Charged'
  BY <1>1, <1>2, Unmoved DEF SameFlight
<1>4. FlightOK'
  <2>1. /\ flight.job.entry <= flight.since /\ flight.since <= now
        /\ flight.since < flight.job.entry + Pair
    BY <1>1 DEF IInv, FlightOK
  <2> QED
    BY <1>1, <1>2, <2>1, SameFlightOK DEF Unsent
<1>5. \A d \in Days : school.exits[d] <= school'.exits[d]
  BY <1>1 DEF IInv, TypeOK
<1> QED
  BY <1>1, <1>3, <1>4, <1>5, InFlight

LEMMA LeaveKeeps == ASSUME IInv, Leave PROVE IInv'
<1> DEFINE left == [school EXCEPT !.at = "unknown",
                      !.entries[flight.day] = IF flight.phase = "entry" THEN @ + 1 ELSE @]
<1>1. /\ flight.pc = "guarded" /\ OnlyFlight
      /\ school' = IF flight.kind = "photo" THEN school ELSE left
  BY DEF Leave, AtRequest
<1>2. /\ SameFlight /\ flight'.pc = "reply" /\ flight'.since = flight.since
      /\ flight'.kind = flight.kind
  BY <1>1, FlightFacts DEF Leave, Advance, Flight, SameFlight
<1>3. flight.day \in Days /\ TypeOK
  BY <1>1, FlightFacts DEF IInv
<1>4. /\ school' \in [at : {"out", "in", "unknown"}, entered : Nat, quiet : BOOLEAN,
                      entries : [Days -> Nat], exits : [Days -> Nat]]
      /\ school'.quiet = school.quiet /\ school'.exits = school.exits
  <2> DEFINE more == [school.entries EXCEPT
                        ![flight.day] = IF flight.phase = "entry" THEN @ + 1 ELSE @]
  <2>1. more \in [Days -> Nat]
    BY <1>3 DEF TypeOK
  <2>2. left = [school EXCEPT !.at = "unknown", !.entries = more]
    OBVIOUS
  <2> HIDE DEF more, left
  <2> QED
    BY <1>1, <1>3, <2>1, <2>2 DEF TypeOK
<1>5. TypeOK'
  BY <1>1, <1>2, <1>3, <1>4 DEF TypeOK, SameFlight, OnlyFlight
<1>6. Charged'
  <2>1. CASE flight.kind = "photo" \/ flight.phase # "entry"
    <3>1. school'.entries = school.entries
      BY <1>1, <1>3, <2>1 DEF TypeOK
    <3> QED
      BY <1>1, <3>1 DEF IInv, Charged, OnlyFlight
  <2>2. CASE flight.kind # "photo" /\ flight.phase = "entry"
    <3>1. /\ school'.entries[flight.day] = school.entries[flight.day] + 1
          /\ \A d \in Days \ {flight.day} : school'.entries[d] = school.entries[d]
      BY <1>1, <1>3, <2>2 DEF TypeOK
    <3>2. school.entries[flight.day] < flight.job.attempted
      <4>1. flight.kind = "check"
        BY <1>1, <2>2, FlightFacts DEF Flight
      <4> QED
        BY <1>1, <2>2, <4>1 DEF IInv, FlightOK, Unsent, ForEntry
    <3>3. jobs[flight.day].attempted = flight.job.attempted
      BY <1>1, FlightFacts
    <3>4. school.entries[flight.day] \in Nat /\ jobs[flight.day].attempted \in Nat
      BY <1>3 DEF TypeOK, Job
    <3>5. school'.entries[flight.day] <= jobs[flight.day].attempted
      BY <3>1, <3>2, <3>3, <3>4
    <3> QED
      BY <1>1, <3>1, <3>5 DEF IInv, Charged, OnlyFlight
  <2> QED
    BY <2>1, <2>2
<1>7. FlightOK'
  <2>1. /\ flight.job.entry <= flight.since /\ flight.since <= now
        /\ flight.since < flight.job.entry + Pair
    BY <1>1 DEF IInv, FlightOK
  <2> QED
    BY <1>1, <1>2, <1>4, <2>1, SameFlightOK DEF Unsent
<1>8. \A d \in Days : school.exits[d] <= school'.exits[d]
  BY <1>4 DEF IInv, TypeOK
<1> QED
  BY <1>1, <1>4, <1>5, <1>6, <1>7, <1>8, InFlight

LEMMA AcceptedKeeps == ASSUME IInv, Accepted PROVE IInv'
<1>1. flight.pc = "reply" /\ OnlyFlight /\ school' = school
  BY DEF Accepted, AtRequest
<1>2. /\ SameFlight /\ flight'.pc = "connect" /\ flight'.since = now
      /\ flight'.kind = "photo"
  BY <1>1, FlightFacts, GuardFresh DEF Accepted, Flight, SameFlight
<1>3. TypeOK' /\ Charged'
  BY <1>1, <1>2, Unmoved DEF SameFlight
<1>4. FlightOK'
  <2>1. now <= now /\ flight.job.entry <= now /\ now < flight.job.entry + Pair
    BY <1>1, GuardFresh DEF Accepted
  <2> QED
    BY <1>1, <1>2, <2>1, SameFlightOK DEF Unsent
<1>5. \A d \in Days : school.exits[d] <= school'.exits[d]
  BY <1>1 DEF IInv, TypeOK
<1> QED
  BY <1>1, <1>3, <1>4, <1>5, InFlight

LEMMA PhotoAcceptedKeeps == ASSUME IInv, PhotoAccepted PROVE IInv'
<1>1. /\ flight.pc = "reply" /\ OnlyFlight
      /\ school' = [school EXCEPT
           !.at = IF flight.phase = "entry" THEN "in" ELSE "out",
           !.entered = IF flight.phase = "entry" THEN flight.stamp ELSE @,
           !.exits[flight.day] = IF flight.phase = "exit" THEN @ + 1 ELSE @]
  BY DEF PhotoAccepted, AtRequest
<1>2. SameFlight /\ flight'.pc = "commit"
  BY <1>1, FlightFacts DEF PhotoAccepted, Advance, Flight, SameFlight
<1>3. /\ flight.day \in Days /\ TypeOK /\ flight.stamp \in Nat
      /\ flight.phase \in {"entry", "exit"} /\ flight.job \in Job
  BY <1>1, FlightFacts DEF IInv, Flight
<1>4. /\ school' \in [at : {"out", "in", "unknown"}, entered : Nat, quiet : BOOLEAN,
                      entries : [Days -> Nat], exits : [Days -> Nat]]
      /\ school'.quiet = school.quiet /\ school'.entries = school.entries
      /\ school'.at = IF flight.phase = "entry" THEN "in" ELSE "out"
      /\ flight.phase = "entry" => school'.entered = flight.stamp
      /\ \A d \in Days \ {flight.day} : school'.exits[d] = school.exits[d]
      /\ school'.exits[flight.day] =
           IF flight.phase = "exit" THEN school.exits[flight.day] + 1
           ELSE school.exits[flight.day]
  <2> DEFINE more == [school.exits EXCEPT
                        ![flight.day] = IF flight.phase = "exit" THEN @ + 1 ELSE @]
             place == IF flight.phase = "entry" THEN "in" ELSE "out"
             stamp == IF flight.phase = "entry" THEN flight.stamp ELSE school.entered
  <2>1. /\ more \in [Days -> Nat]
        /\ \A d \in Days \ {flight.day} : more[d] = school.exits[d]
        /\ more[flight.day] = IF flight.phase = "exit" THEN school.exits[flight.day] + 1
                              ELSE school.exits[flight.day]
    BY <1>3 DEF TypeOK
  <2>2. school' = [school EXCEPT !.at = place, !.entered = stamp, !.exits = more]
    BY <1>1
  <2>3. /\ place \in {"out", "in", "unknown"} /\ stamp \in Nat
        /\ flight.phase = "entry" => stamp = flight.stamp
    BY <1>3 DEF TypeOK
  <2>4. place = IF flight.phase = "entry" THEN "in" ELSE "out"
    OBVIOUS
  <2> HIDE DEF more, place, stamp
  <2>5. /\ school'.quiet = school.quiet /\ school'.entries = school.entries
        /\ school'.at = place /\ school'.entered = stamp /\ school'.exits = more
        /\ school' \in [at : {"out", "in", "unknown"}, entered : Nat, quiet : BOOLEAN,
                         entries : [Days -> Nat], exits : [Days -> Nat]]
    BY <1>3, <2>1, <2>2, <2>3 DEF TypeOK
  <2> QED
    BY <2>1, <2>3, <2>4, <2>5
<1>5. \A d \in Days : school.exits[d] \in Nat /\ school.exits[d] <= school'.exits[d]
  BY <1>3, <1>4 DEF TypeOK
<1>6. TypeOK'
  BY <1>1, <1>2, <1>3, <1>4 DEF TypeOK, SameFlight, OnlyFlight
<1>7. Charged'
  BY <1>1, <1>4 DEF IInv, Charged, OnlyFlight
<1>8. FlightOK'
  <2>1. ~ForEntry => flight.job.completed < school'.exits[flight.day]
    <3>1. flight.job.completed <= school.exits[flight.day] /\ flight.job.completed \in Nat
      BY <1>1, <1>3, FlightFacts DEF IInv, HonestTally, Job
    <3> QED
      BY <1>3, <1>4, <1>5, <3>1 DEF ForEntry
  <2>2. ForEntry => flight.stamp = flight.job.entry
    BY <1>1 DEF IInv, FlightOK
  <2>3. IF ForEntry THEN school'.at = "in" /\ school'.entered = flight.job.entry
        ELSE school'.at = "out" /\ flight.job.completed < school'.exits[flight.day]
    BY <1>4, <2>1, <2>2 DEF ForEntry
  <2> QED
    BY <1>1, <1>2, <1>4, <2>3, SameFlightOK DEF Unsent
<1> QED
  BY <1>1, <1>4, <1>5, <1>6, <1>7, <1>8, InFlight

LEMMA GroundedType == Grounded \in Flight /\ Grounded.pc = "none"
<1>1. (CHOOSE d \in Days : TRUE) \in Days
  <2>1. 0 \in Times
    BY TDAssumption DEF Times
  <2>2. DayOf[0] \in Days
    BY <2>1, TDAssumption
  <2> QED
    BY <2>2
<1>2. NoJob \in Job
  BY DEF NoJob, Job, States
<1> DEFINE day == CHOOSE d \in Days : TRUE
<1>3. Grounded = [pc |-> "none", kind |-> "check", phase |-> "entry", day |-> day,
                  manual |-> FALSE, batch |-> FALSE, job |-> NoJob, stamp |-> 0,
                  since |-> 0]
  BY DEF Grounded
<1> HIDE DEF day
<1> QED
  BY <1>1, <1>2, <1>3 DEF Flight, day

\* The row of an acknowledged phase: an exit makes the round complete.
LEMMA AcknowledgedRow ==
  ASSUME IInv, flight.pc # "none", NEW pause \in Gap
  PROVE  LET j == Acknowledged(pause) IN
         /\ j \in Job /\ j.attempted = flight.job.attempted /\ j.group = flight.job.group
         /\ j.entry = flight.job.entry
         /\ IF ForEntry
            THEN j.state = "waiting_exit" /\ j.completed = flight.job.completed
            ELSE j.state = "idle" /\ j.completed = flight.job.completed + 1
<1>1. /\ flight.job \in Job /\ pause \in Nat
      /\ flight.stamp + pause \in Nat /\ now + pause \in Nat
      /\ flight.job.completed + 1 \in Nat
  BY FlightFacts, TDAssumption DEF IInv, TypeOK, Flight, Job
<1>2. CASE ForEntry
  <2>1. Acknowledged(pause) =
          [flight.job EXCEPT !.state = "waiting_exit", !.due = flight.stamp + pause]
    BY <1>2 DEF Acknowledged, ForEntry
  <2> QED
    BY <1>1, <1>2, <2>1 DEF Job, States
<1>3. CASE ~ForEntry
  <2>1. Acknowledged(pause) =
          [flight.job EXCEPT !.state = "idle", !.completed = @ + 1, !.due = now + pause]
    BY <1>3 DEF Acknowledged, ForEntry
  <2> QED
    BY <1>1, <1>3, <2>1 DEF Job, States
<1> QED
  BY <1>2, <1>3

LEMMA CommitKeeps == ASSUME IInv, Commit PROVE IInv'
<1>1. /\ flight.pc = "commit" /\ flight' = Grounded
      /\ UNCHANGED <<now, groups, expiry, account, stopping, ticking, restarts, school>>
  BY DEF Commit, AtRequest
<1>2. /\ flight.day \in Days /\ flight.job \in Job /\ flight.stamp \in Nat
      /\ jobs[flight.day] = flight.job /\ Outstanding = {flight.day}
      /\ flight.phase \in {"entry", "exit"} /\ ~school.quiet
      /\ profile \in Profile /\ TypeOK
  BY <1>1, FlightFacts DEF IInv, Flight
<1>3. PICK reached \in BOOLEAN, pause \in Gap :
        LET j == Acknowledged(pause)
            over == flight.batch /\ (Remaining(profile, j) = 0 \/ reached)
        IN IF flight.phase = "entry"
           THEN /\ jobs' = [jobs EXCEPT ![flight.day] = j]
                /\ profile' = [profile EXCEPT !.reached = reached]
           ELSE /\ jobs' = [jobs EXCEPT ![flight.day] = IF over THEN Ended(j) ELSE j]
                /\ profile' = [profile EXCEPT !.reached = reached, !.last = j.group]
  <2>1. profile.reached \in BOOLEAN
    BY <1>2 DEF Profile
  <2> QED
    BY <2>1 DEF Commit
<1> DEFINE j == Acknowledged(pause)
<1>4. /\ j \in Job /\ j.attempted = flight.job.attempted /\ j.group = flight.job.group
       /\ j.entry = flight.job.entry
       /\ IF ForEntry
          THEN j.state = "waiting_exit" /\ j.completed = flight.job.completed
          ELSE j.state = "idle" /\ j.completed = flight.job.completed + 1
  BY <1>1, AcknowledgedRow
<1> HIDE DEF j
<1>5. /\ profile' \in Profile /\ profile'.rules = profile.rules
  <2>1. j.group \in Groups \cup {None}
    BY <1>4 DEF Job
  <2> QED
    BY <1>2, <1>3, <2>1 DEF Profile, j
<1>6. PICK row \in Job :
        /\ jobs' = [jobs EXCEPT ![flight.day] = row]
        /\ row.attempted = flight.job.attempted /\ row.group = flight.job.group
        /\ row.entry = flight.job.entry
        /\ IF ForEntry
           THEN row.state = "waiting_exit" /\ row.completed = flight.job.completed
           ELSE row.state = "idle" /\ row.completed = flight.job.completed + 1
  <2>1. CASE ForEntry
    <3>1. jobs' = [jobs EXCEPT ![flight.day] = j]
      BY <1>3, <2>1 DEF ForEntry, j
    <3> QED
      BY <1>4, <2>1, <3>1
  <2>2. CASE ~ForEntry
    <3>1. jobs' = [jobs EXCEPT ![flight.day] = j]
            \/ jobs' = [jobs EXCEPT ![flight.day] = Ended(j)]
      BY <1>3, <2>2 DEF ForEntry, j
    <3> QED
      BY <1>4, <2>2, <3>1, EndedLike
  <2> QED
    BY <2>1, <2>2
<1>7. /\ jobs' \in [Days -> Job] /\ jobs'[flight.day] = row
      /\ \A d \in Days \ {flight.day} : jobs'[d] = jobs[d]
  BY <1>2, <1>6 DEF TypeOK
<1>8. TypeOK'
  BY <1>1, <1>2, <1>5, <1>7, GroundedType DEF TypeOK
<1>9. Outstanding' = IF ForEntry THEN {flight.day} ELSE {}
  BY <1>2, <1>6, <1>7 DEF Outstanding, Busy
<1>10. IF ForEntry THEN school.at = "in" /\ school.entered = flight.job.entry
      ELSE school.at = "out" /\ flight.job.completed < school.exits[flight.day]
  BY <1>1 DEF IInv, FlightOK
<1>11. OneOutstanding'
  BY <1>1, <1>9, <1>10 DEF OneOutstanding
<1>12. Charged'
  BY <1>1, <1>2, <1>6, <1>7 DEF IInv, Charged
<1>13. HonestTally'
  <2>1. jobs'[flight.day].completed <= school.exits[flight.day]
    <3>1. /\ flight.job.completed \in Nat /\ school.exits[flight.day] \in Nat
          /\ flight.job.completed <= school.exits[flight.day]
      BY <1>2 DEF IInv, HonestTally, TypeOK, Job
    <3> QED
      BY <1>6, <1>7, <1>10, <3>1
  <2>2. ASSUME NEW d \in Days, jobs'[d].state = "waiting_exit"
        PROVE  school.at = "in" /\ school.entered = jobs'[d].entry
    <3>1. d \in Outstanding'
      BY <2>2 DEF Outstanding, Busy
    <3>2. d = flight.day /\ ForEntry
      BY <1>9, <3>1
    <3> QED
      BY <1>6, <1>7, <1>10, <3>2
  <2> QED
    BY <1>1, <1>7, <2>1, <2>2 DEF IInv, HonestTally
<1>14. PhotosKept' /\ CalledOff'
  BY <1>1, <1>2, <1>6, <1>7, <1>9 DEF IInv, PhotosKept, CalledOff
<1>15. \A d \in Outstanding' : Placed(d)'
  <2>1. Placed(flight.day)
    BY <1>2 DEF IInv
  <2> QED
    BY <1>1, <1>2, <1>5, <1>6, <1>7, <1>9, <2>1 DEF Placed
<1>16. FlightOK' /\ now' < Horizon
  BY <1>1, GroundedType DEF FlightOK, IInv
<1> QED
  BY <1>8, <1>11, <1>12, <1>13, <1>14, <1>15, <1>16 DEF IInv

\* A phase that ends in doubt stays outstanding, and counts as complete only when
\* its exit was acknowledged.
LEMMA FailStateKeeps ==
  ASSUME IInv, flight.pc # "none", NEW state \in {"uncertain", "rejected"},
         NEW job \in Local, FailState(job, state), flight' = Grounded,
         school' = [school EXCEPT !.quiet = TRUE],
         UNCHANGED <<now, groups, expiry, account, stopping, ticking, restarts>>
  PROVE  IInv'
<1> DEFINE row == [Ended(job) EXCEPT !.state = state]
<1>1. /\ flight.day \in Days /\ flight.job \in Job /\ profile \in Profile
      /\ jobs[flight.day] = flight.job /\ Outstanding = {flight.day} /\ TypeOK
      /\ flight.job.state \in {"sending_entry", "sending_exit"}
  BY FlightFacts DEF IInv
<1>2. /\ job \in Job /\ job.attempted = flight.job.attempted
       /\ job.entry = flight.job.entry /\ job.group = flight.job.group
       /\ job.completed <= school.exits[flight.day]
  <2>1. /\ flight.job.completed \in Nat /\ school.exits[flight.day] \in Nat
        /\ flight.job.completed <= school.exits[flight.day]
    BY <1>1 DEF IInv, HonestTally, TypeOK, Job
  <2>2. CASE job = flight.job
    BY <1>1, <2>1, <2>2
  <2>3. ASSUME NEW pause \in Gap, flight.pc = "commit", job = Acknowledged(pause)
        PROVE  /\ job \in Job /\ job.attempted = flight.job.attempted
               /\ job.entry = flight.job.entry /\ job.group = flight.job.group
               /\ job.completed <= school.exits[flight.day]
    <3>1. ~ForEntry => flight.job.completed < school.exits[flight.day]
      BY <2>3 DEF IInv, FlightOK
    <3>2. /\ job \in Job /\ job.attempted = flight.job.attempted
          /\ job.entry = flight.job.entry /\ job.group = flight.job.group
          /\ job.completed = flight.job.completed
               \/ (~ForEntry /\ job.completed = flight.job.completed + 1)
      BY <2>3, AcknowledgedRow
    <3> QED
      BY <2>1, <3>1, <3>2
  <2> QED
    BY <2>2, <2>3 DEF Local
<1>3. /\ row \in Job /\ row.state = state /\ row.attempted = flight.job.attempted
      /\ row.completed <= school.exits[flight.day] /\ row.entry = flight.job.entry
      /\ row.group = flight.job.group
  <2>1. state \in States
    BY DEF States
  <2> QED
    BY <1>2, <2>1, DoubtLike
<1>4. jobs' = [jobs EXCEPT ![flight.day] = row]
  BY DEF FailState
<1> HIDE DEF row
<1>5. /\ jobs' \in [Days -> Job] /\ jobs'[flight.day] = row
      /\ \A d \in Days \ {flight.day} : jobs'[d] = jobs[d]
  BY <1>1, <1>3, <1>4 DEF TypeOK
<1>6. profile' \in Profile /\ profile'.rules = profile.rules
  BY <1>1, SwitchedType DEF FailState
<1>7. /\ school' \in [at : {"out", "in", "unknown"}, entered : Nat, quiet : BOOLEAN,
                      entries : [Days -> Nat], exits : [Days -> Nat]]
      /\ SameHistory
  BY <1>1, SchoolType
<1>8. TypeOK'
  BY <1>1, <1>5, <1>6, <1>7, GroundedType DEF TypeOK
<1>9. \A d \in Days : Kept(d)
  BY <1>1, <1>3, <1>5 DEF Kept, Busy
<1>10. CalledOff'
  <2>1. flight.day \in Outstanding' /\ jobs'[flight.day].state # "waiting_exit"
    BY <1>1, <1>3, <1>5 DEF Outstanding, Busy
  <2> QED
    BY <2>1 DEF CalledOff
<1>11. \A d \in Outstanding : jobs[d].group \in groups'
  BY DEF IInv, PhotosKept
<1>12. now' < Horizon /\ expiry <= expiry' /\ flight'.pc = "none"
  BY <1>1, GroundedType DEF IInv, TypeOK
<1> QED
  BY <1>6, <1>7, <1>8, <1>9, <1>10, <1>11, <1>12, RoundsKept

LEMMA FailUnsavedKeeps == ASSUME IInv, FailUnsaved PROVE IInv'
<1>1. /\ flight.pc # "none" /\ flight' = Grounded /\ OnlyFlight
      /\ school' = [school EXCEPT !.quiet = TRUE]
  BY DEF FailUnsaved
<1>2. TypeOK
  BY DEF IInv
<1>3. /\ school' \in [at : {"out", "in", "unknown"}, entered : Nat, quiet : BOOLEAN,
                      entries : [Days -> Nat], exits : [Days -> Nat]]
      /\ SameHistory
  BY <1>1, <1>2, SchoolType
<1>4. TypeOK'
  BY <1>1, <1>2, <1>3, GroundedType DEF TypeOK, OnlyFlight
<1>5. \A d \in Days : Kept(d)
  BY <1>1 DEF Kept, OnlyFlight
<1>6. CalledOff'
  <2>1. flight.day \in Outstanding' /\ jobs'[flight.day].state # "waiting_exit"
    BY <1>1, FlightFacts DEF Outstanding, Busy, OnlyFlight
  <2> QED
    BY <2>1 DEF CalledOff
<1>7. \A d \in Outstanding : jobs[d].group \in groups'
  BY <1>1 DEF IInv, PhotosKept, OnlyFlight
<1>8. /\ now' < Horizon /\ expiry <= expiry' /\ flight'.pc = "none"
      /\ profile'.rules = profile.rules
  BY <1>1, <1>2, GroundedType DEF IInv, TypeOK, OnlyFlight
<1> QED
  BY <1>3, <1>4, <1>5, <1>6, <1>7, <1>8, RoundsKept
-----------------------------------------------------------------------------
(* The student's requests. *)

LEMMA StartBatchKeeps == ASSUME IInv, StartBatch PROVE IInv'
<1> DEFINE row == [jobs[Today] EXCEPT !.batch = "active", !.until = WindowEnd(now)]
<1>1. /\ LockFree /\ profile' = profile /\ school' = [school EXCEPT !.quiet = FALSE]
      /\ UNCHANGED <<now, groups, expiry, account, stopping, flight, restarts>>
      /\ ticking' = TRUE
  BY DEF StartBatch, StartTicks, Admitted, Rest
<1>2. TypeOK /\ Today \in Days /\ jobs[Today] \in Job /\ WindowEnd(now) \in Nat
  <2>1. now \in Nat
    BY DEF IInv, TypeOK
  <2> QED
    BY <2>1, TodayType, WindowType DEF IInv, TypeOK
<1>3. jobs' = [jobs EXCEPT ![Today] = row]
  BY <1>2 DEF StartBatch
<1>4. /\ row \in Job /\ row.attempted = jobs[Today].attempted
      /\ row.completed = jobs[Today].completed /\ row.entry = jobs[Today].entry
      /\ row.group = jobs[Today].group /\ row.state = jobs[Today].state
  BY <1>2 DEF Job
<1> HIDE DEF row
<1>5. /\ jobs' \in [Days -> Job] /\ jobs'[Today] = row
      /\ \A d \in Days \ {Today} : jobs'[d] = jobs[d]
  BY <1>2, <1>3, <1>4 DEF TypeOK
<1>6. /\ school' \in [at : {"out", "in", "unknown"}, entered : Nat, quiet : BOOLEAN,
                      entries : [Days -> Nat], exits : [Days -> Nat]]
      /\ SameHistory /\ ~school'.quiet
  BY <1>1, <1>2, SchoolType
<1>7. TypeOK'
  BY <1>1, <1>2, <1>5, <1>6 DEF TypeOK
<1>8. \A d \in Days : Kept(d)
  BY <1>4, <1>5 DEF Kept
<1>9. /\ \A d \in Outstanding : jobs[d].group \in groups'
      /\ now' < Horizon /\ expiry <= expiry' /\ flight'.pc = "none" /\ CalledOff'
  BY <1>1, <1>2, <1>6 DEF IInv, PhotosKept, TypeOK, LockFree, CalledOff
<1> QED
  BY <1>1, <1>6, <1>7, <1>8, <1>9, RoundsKept

LEMMA EnableGuardKeeps == ASSUME IInv, EnableGuard PROVE IInv'
<1> DEFINE row == [jobs[Today] EXCEPT !.batch = "none"]
<1>1. /\ LockFree /\ profile' = Switched(profile, TRUE)
      /\ school' = [school EXCEPT !.quiet = FALSE]
      /\ UNCHANGED <<now, groups, expiry, account, stopping, flight, restarts>>
      /\ ticking' = TRUE
  BY DEF EnableGuard, StartTicks, Admitted, Rest
<1>2. TypeOK /\ Today \in Days /\ jobs[Today] \in Job
  BY TodayType DEF IInv, TypeOK
<1>3. jobs' = [jobs EXCEPT ![Today] = row]
  BY <1>2 DEF EnableGuard
<1>4. /\ row \in Job /\ row.attempted = jobs[Today].attempted
      /\ row.completed = jobs[Today].completed /\ row.entry = jobs[Today].entry
      /\ row.group = jobs[Today].group /\ row.state = jobs[Today].state
  BY <1>2 DEF Job
<1> HIDE DEF row
<1>5. /\ jobs' \in [Days -> Job] /\ jobs'[Today] = row
      /\ \A d \in Days \ {Today} : jobs'[d] = jobs[d]
  BY <1>2, <1>3, <1>4 DEF TypeOK
<1>6. /\ school' \in [at : {"out", "in", "unknown"}, entered : Nat, quiet : BOOLEAN,
                      entries : [Days -> Nat], exits : [Days -> Nat]]
      /\ SameHistory /\ ~school'.quiet
  BY <1>1, <1>2, SchoolType
<1>7. profile' \in Profile /\ profile'.rules = profile.rules
  BY <1>1, <1>2, SwitchedType DEF TypeOK
<1>8. TypeOK'
  BY <1>1, <1>2, <1>5, <1>6, <1>7 DEF TypeOK
<1>9. \A d \in Days : Kept(d)
  BY <1>4, <1>5 DEF Kept
<1>10. /\ \A d \in Outstanding : jobs[d].group \in groups'
       /\ now' < Horizon /\ expiry <= expiry' /\ flight'.pc = "none" /\ CalledOff'
  BY <1>1, <1>2, <1>6 DEF IInv, PhotosKept, TypeOK, LockFree, CalledOff
<1> QED
  BY <1>6, <1>7, <1>8, <1>9, <1>10, RoundsKept

LEMMA CallOffRows ==
  ASSUME TypeOK, NEW d \in Days
  PROVE  LET j == IF Queued(jobs[d]) THEN Ended(jobs[d]) ELSE jobs[d] IN
         /\ j \in Job /\ ~Queued(j) /\ j.state = jobs[d].state
         /\ j.attempted = jobs[d].attempted /\ j.completed = jobs[d].completed
         /\ j.entry = jobs[d].entry /\ j.group = jobs[d].group
  BY EndedLike DEF TypeOK

\* Switch and queues end together, by a pause or by the removal of the account.
LEMMA CallOffKeeps ==
  ASSUME IInv, LockFree, CallOff,
         account' \in [present : BOOLEAN, leaving : {"no", "due", "waiting"}, removals : Nat],
         ticking' \in BOOLEAN,
         UNCHANGED <<now, groups, expiry, stopping, flight, restarts>>
  PROVE  IInv'
<1>1. /\ TypeOK /\ profile' = Switched(profile, FALSE)
      /\ school' = [school EXCEPT !.quiet = TRUE]
      /\ jobs' = [d \in Days |-> IF Queued(jobs[d]) THEN Ended(jobs[d]) ELSE jobs[d]]
  BY DEF IInv, CallOff
<1>2. /\ school' \in [at : {"out", "in", "unknown"}, entered : Nat, quiet : BOOLEAN,
                      entries : [Days -> Nat], exits : [Days -> Nat]]
      /\ SameHistory
  BY <1>1, SchoolType
<1>3. profile' \in Profile /\ profile'.rules = profile.rules /\ ~profile'.enabled
  BY <1>1, SwitchedType DEF TypeOK
<1>4. \A d \in Days : jobs'[d] \in Job /\ ~Queued(jobs'[d]) /\ Kept(d)
  BY <1>1, CallOffRows DEF Kept
<1>5. jobs' \in [Days -> Job]
  BY <1>1, <1>4
<1>6. TypeOK'
  BY <1>1, <1>2, <1>3, <1>5 DEF TypeOK
<1>7. CalledOff'
  BY <1>3, <1>4 DEF CalledOff, Queues
<1>8. /\ \A d \in Outstanding : jobs[d].group \in groups'
      /\ now' < Horizon /\ expiry <= expiry' /\ flight'.pc = "none"
  BY <1>1 DEF IInv, PhotosKept, TypeOK, LockFree
<1> QED
  BY <1>2, <1>3, <1>4, <1>6, <1>7, <1>8, RoundsKept

LEMMA ResolveKeeps == ASSUME IInv, Resolve PROVE IInv'
<1> DEFINE row(d) == IF Queued(jobs[d]) THEN Ended(jobs[d]) ELSE jobs[d]
           last(d) == IF d \in Outstanding THEN [row(d) EXCEPT !.state = "resolved"]
                      ELSE row(d)
<1>1. /\ TypeOK /\ LockFree /\ profile' = Switched(profile, FALSE)
      /\ school' = [school EXCEPT !.at = "out", !.quiet = TRUE]
      /\ UNCHANGED <<now, groups, expiry, account, stopping, ticking, flight, restarts>>
      /\ jobs' = [d \in Days |-> last(d)]
  BY DEF IInv, Resolve, Admitted, Rest
<1>2. ASSUME NEW d \in Days
      PROVE  /\ last(d) \in Job /\ ~Queued(last(d)) /\ last(d).state \notin Busy
             /\ last(d).attempted = jobs[d].attempted
             /\ last(d).completed = jobs[d].completed
  <2>1. /\ row(d) \in Job /\ ~Queued(row(d)) /\ row(d).state = jobs[d].state
        /\ row(d).attempted = jobs[d].attempted /\ row(d).completed = jobs[d].completed
    BY <1>1, CallOffRows
  <2> HIDE DEF row
  <2>2. CASE d \in Outstanding
    BY <2>1, <2>2 DEF Job, States, Busy, Queued
  <2>3. CASE d \notin Outstanding
    BY <2>1, <2>3 DEF Outstanding
  <2> QED
    BY <2>2, <2>3
<1>3. \A d \in Days : jobs'[d] = last(d)
  BY <1>1
<1> HIDE DEF last
<1>4. jobs' \in [Days -> Job]
  BY <1>1, <1>2
<1>5. Outstanding' = {} /\ Queues' = {}
  BY <1>2, <1>3 DEF Outstanding, Queues
<1>6. /\ school' \in [at : {"out", "in", "unknown"}, entered : Nat, quiet : BOOLEAN,
                      entries : [Days -> Nat], exits : [Days -> Nat]]
      /\ school'.at = "out" /\ school'.entries = school.entries
      /\ school'.exits = school.exits
  BY <1>1 DEF TypeOK
<1>7. profile' \in Profile /\ ~profile'.enabled
  BY <1>1, SwitchedType DEF TypeOK
<1>8. TypeOK'
  BY <1>1, <1>4, <1>6, <1>7 DEF TypeOK
<1>9. Charged'
  BY <1>2, <1>3, <1>6 DEF IInv, Charged
<1>10. HonestTally'
  BY <1>2, <1>3, <1>6 DEF IInv, HonestTally, Busy
<1>11. OneOutstanding' /\ PhotosKept' /\ CalledOff' /\ FlightOK'
  BY <1>1, <1>5, <1>6, <1>7 DEF OneOutstanding, PhotosKept, CalledOff, FlightOK, LockFree
<1> QED
  BY <1>1, <1>5, <1>8, <1>9, <1>10, <1>11 DEF IInv

\* Settings, counter, photos and licence; the rows stay as they are.
LEMMA RowsStay ==
  ASSUME IInv, TypeOK', LockFree, UNCHANGED <<now, jobs, flight>>, SameHistory,
         expiry <= expiry', Outstanding # {} => profile'.rules = profile.rules,
         \A d \in Outstanding : jobs[d].group \in groups', CalledOff'
  PROVE  IInv'
<1>1. \A d \in Days : Kept(d)
  BY DEF Kept
<1>2. flight'.pc = "none" /\ now' < Horizon
  BY DEF IInv, LockFree
<1> QED
  BY <1>1, <1>2, RoundsKept

LEMMA ConfigureKeeps == ASSUME IInv, Configure PROVE IInv'
<1>1. PICK rules \in Settings, reached \in BOOLEAN :
        /\ LockFree /\ Queues = {}
        /\ rules # profile.rules => Outstanding = {}
        /\ profile' = [profile EXCEPT !.rules = rules, !.enabled = FALSE,
                                      !.reached = reached]
        /\ school' = [school EXCEPT !.quiet = TRUE]
        /\ UNCHANGED <<jobs, now, groups, expiry, account, stopping, ticking, flight,
                       restarts>>
  BY DEF Configure, Admitted, Rest
<1>2. TypeOK
  BY DEF IInv
<1>3. profile' \in Profile /\ profile'.rules = rules /\ ~profile'.enabled
  BY <1>1, <1>2 DEF TypeOK, Profile
<1>4. /\ school' \in [at : {"out", "in", "unknown"}, entered : Nat, quiet : BOOLEAN,
                      entries : [Days -> Nat], exits : [Days -> Nat]]
      /\ SameHistory
  BY <1>1, <1>2, SchoolType
<1>5. TypeOK'
  BY <1>1, <1>2, <1>3, <1>4 DEF TypeOK
<1>6. CalledOff'
  BY <1>1, <1>3 DEF CalledOff, Queues, Queued
<1>7. (\A d \in Outstanding : jobs[d].group \in groups') /\ expiry <= expiry'
  BY <1>1, <1>2 DEF IInv, PhotosKept, TypeOK
<1> QED
  BY <1>1, <1>3, <1>4, <1>5, <1>6, <1>7, RowsStay

LEMMA RecordCountKeeps == ASSUME IInv, RecordCount PROVE IInv'
<1>1. PICK reached \in BOOLEAN :
        /\ LockFree /\ profile' = [profile EXCEPT !.reached = reached]
        /\ UNCHANGED <<jobs, school, now, groups, expiry, account, stopping, ticking, flight,
                       restarts>>
  BY DEF RecordCount, Admitted, Rest
<1>2. TypeOK
  BY DEF IInv
<1>3. /\ profile' \in Profile /\ profile'.rules = profile.rules
      /\ profile'.enabled = profile.enabled
  BY <1>1, <1>2 DEF TypeOK, Profile
<1>4. TypeOK' /\ SameHistory
  BY <1>1, <1>2, <1>3 DEF TypeOK, SameHistory
<1>5. CalledOff'
  BY <1>1, <1>3 DEF IInv, CalledOff, Queues, Queued, Outstanding
<1>6. (\A d \in Outstanding : jobs[d].group \in groups') /\ expiry <= expiry'
  BY <1>1, <1>2 DEF IInv, PhotosKept, TypeOK
<1> QED
  BY <1>1, <1>3, <1>4, <1>5, <1>6, RowsStay

LEMMA LibraryKeeps ==
  ASSUME IInv, LockFree, groups' \subseteq Groups, expiry' \in Nat, expiry <= expiry',
         \A d \in Outstanding : jobs[d].group \in groups',
         UNCHANGED <<now, profile, jobs, account, stopping, ticking, flight, restarts, school>>
  PROVE  IInv'
<1>1. TypeOK' /\ SameHistory
  BY DEF IInv, TypeOK, SameHistory
<1>2. CalledOff'
  BY DEF IInv, CalledOff, Queues, Queued, Outstanding
<1> QED
  BY <1>1, <1>2, RowsStay

LEMMA CreateGroupKeeps == ASSUME IInv, CreateGroup PROVE IInv'
<1>1. /\ LockFree /\ groups' \subseteq Groups /\ groups \subseteq groups'
      /\ UNCHANGED <<now, profile, jobs, expiry, account, stopping, ticking, flight, restarts,
                     school>>
  BY DEF IInv, TypeOK, CreateGroup, Admitted
<1>2. \A d \in Outstanding : jobs[d].group \in groups'
  BY <1>1 DEF IInv, PhotosKept
<1>3. expiry' \in Nat /\ expiry <= expiry'
  BY <1>1 DEF IInv, TypeOK
<1> QED
  BY <1>1, <1>2, <1>3, LibraryKeeps

LEMMA DeleteGroupKeeps == ASSUME IInv, DeleteGroup PROVE IInv'
<1>1. PICK g \in groups :
        /\ LockFree /\ groups' = groups \ {g}
        /\ \A d \in Outstanding : jobs[d].group # g
        /\ UNCHANGED <<now, profile, jobs, expiry, account, stopping, ticking, flight, restarts,
                       school>>
  BY DEF DeleteGroup, Admitted
<1>2. \A d \in Outstanding : jobs[d].group \in groups'
  BY <1>1 DEF IInv, PhotosKept
<1>3. expiry' \in Nat /\ expiry <= expiry' /\ groups' \subseteq Groups
  BY <1>1 DEF IInv, TypeOK
<1> QED
  BY <1>1, <1>2, <1>3, LibraryKeeps

LEMMA ActivateKeeps == ASSUME IInv, Activate PROVE IInv'
<1>1. /\ LockFree /\ expiry' \in Expiries /\ expiry' > expiry
      /\ UNCHANGED <<now, profile, jobs, groups, account, stopping, ticking, flight, restarts,
                     school>>
  BY DEF Activate, Admitted
<1>2. expiry' \in Nat /\ expiry <= expiry' /\ groups' \subseteq Groups
  BY <1>1, TDAssumption DEF IInv, TypeOK
<1>3. \A d \in Outstanding : jobs[d].group \in groups'
  BY <1>1 DEF IInv, PhotosKept
<1> QED
  BY <1>1, <1>2, <1>3, LibraryKeeps
-----------------------------------------------------------------------------
(* What no lock holds up. *)

LEMMA RegistryKeeps ==
  ASSUME IInv, Remove \/ Login \/ Close \/ Clock
  PROVE  IInv'
<1>1. TypeOK /\ now \in Nat
  BY DEF IInv, TypeOK
<1>2. /\ UNCHANGED <<profile, jobs, groups, expiry, flight, school>>
      /\ now' = now \/ (now' = now + 1 /\ now + 1 < Horizon)
  BY DEF Remove, Login, Close, Clock
<1>3. TypeOK'
  <2>1. account' \in [present : BOOLEAN, leaving : {"no", "due", "waiting"},
                      removals : Nat]
    <3>1. /\ account.removals \in Nat /\ account.removals + 1 \in Nat
          /\ (IF LockFree THEN "due" ELSE "waiting") \in {"no", "due", "waiting"}
      BY <1>1 DEF TypeOK
    <3>2. CASE Remove
      BY <3>1, <3>2 DEF Remove
    <3>3. CASE Login
      BY <1>1, <3>3 DEF TypeOK, Login
    <3>4. CASE Close \/ Clock
      BY <1>1, <3>4 DEF TypeOK, Close, Clock
    <3> QED
      BY <3>2, <3>3, <3>4
  <2>2. stopping' \in BOOLEAN /\ ticking' \in BOOLEAN /\ restarts' \in Nat
    BY <1>1 DEF TypeOK, Remove, Login, Close, Clock
  <2>3. now' \in Nat
    BY <1>1, <1>2
  <2> QED
    BY <1>1, <1>2, <2>1, <2>2, <2>3 DEF TypeOK
<1>4. now <= now' /\ now' < Horizon
  BY <1>1, <1>2 DEF IInv
<1> QED
  BY <1>2, <1>3, <1>4, Elapse

LEMMA RestartKeeps == ASSUME IInv, Restart PROVE IInv'
<1>1. /\ TypeOK /\ flight' = Grounded /\ stopping' = FALSE /\ restarts' = restarts + 1
      /\ jobs' = [d \in Days |-> [jobs[d] EXCEPT !.sender = "earlier"]]
      /\ account' = [account EXCEPT !.leaving = "no"] /\ ticking' \in BOOLEAN
      /\ UNCHANGED <<now, profile, groups, expiry, school>>
  BY DEF IInv, Restart
<1>2. ASSUME NEW d \in Days
      PROVE  /\ jobs'[d] \in Job /\ Kept(d) /\ jobs'[d].state = jobs[d].state
             /\ jobs'[d].batch = jobs[d].batch
  BY <1>1 DEF TypeOK, Job, Kept
<1>3. jobs' \in [Days -> Job]
  BY <1>1, <1>2
<1>4. TypeOK'
  <2>1. account' \in [present : BOOLEAN, leaving : {"no", "due", "waiting"},
                      removals : Nat]
    BY <1>1 DEF TypeOK
  <2>2. stopping' \in BOOLEAN /\ ticking' \in BOOLEAN /\ restarts' \in Nat
    <3>1. restarts' \in Nat
      BY <1>1 DEF TypeOK
    <3>2. stopping' \in BOOLEAN /\ ticking' \in BOOLEAN
      BY <1>1, Zenon
    <3> QED
      BY <3>1, <3>2
  <2>3. flight' \in Flight
    BY <1>1, GroundedType
  <2> QED
    BY <1>1, <1>3, <2>1, <2>2, <2>3 DEF TypeOK
<1>5. CalledOff'
  BY <1>1, <1>2 DEF IInv, CalledOff, Outstanding, Queues, Queued
<1>6. /\ \A d \in Outstanding : jobs[d].group \in groups'
      /\ now' < Horizon /\ expiry <= expiry' /\ flight'.pc = "none" /\ SameHistory
  BY <1>1, GroundedType DEF IInv, PhotosKept, TypeOK, SameHistory
<1> QED
  BY <1>1, <1>2, <1>4, <1>5, <1>6, RoundsKept
-----------------------------------------------------------------------------
(* The theorems. *)

LEMMA Initial == ASSUME Init PROVE IInv
<1>1. TypeOK
  <2>1. NoJob \in Job
    BY DEF NoJob, Job, States
  <2>2. jobs \in [Days -> Job] /\ flight \in Flight
    BY <2>1, GroundedType DEF Init
  <2>3. profile \in Profile
    BY DEF Init, Profile
  <2> QED
    BY <2>2, <2>3 DEF Init, TypeOK
<1>2. \A d \in Days : /\ jobs[d].state \notin Busy /\ ~Queued(jobs[d])
                      /\ jobs[d].attempted = 0 /\ jobs[d].completed = 0
  BY DEF Init, NoJob, Busy, Queued
<1>3. Outstanding = {} /\ Queues = {}
  BY <1>2 DEF Outstanding, Queues
<1>4. FlightOK
  BY GroundedType DEF Init, FlightOK
<1>5. OneOutstanding /\ PhotosKept /\ CalledOff
  BY <1>3 DEF Init, OneOutstanding, PhotosKept, CalledOff
<1>6. Charged /\ HonestTally
  BY <1>2 DEF Init, Charged, HonestTally, Busy
<1>7. now < Horizon
  BY TDAssumption DEF Init
<1> QED
  BY <1>1, <1>3, <1>4, <1>5, <1>6, <1>7 DEF IInv

LEMMA TransactionKeeps ==
  ASSUME IInv, LockFree, NEW manual \in BOOLEAN, Transaction(manual),
         UNCHANGED <<now, groups, expiry, account, stopping, ticking, restarts>>
  PROVE  IInv'
<1>1. SettleStep \/ ClaimStep(manual)
  BY Transacts DEF IInv
<1> QED
  BY <1>1, SettlesKeep, ClaimKeeps

LEMMA Consecution == ASSUME IInv, [Next]_vars PROVE IInv'
<1>1. ASSUME Tick \/ Manual PROVE IInv'
  BY <1>1, TransactionKeeps DEF Tick, Manual, Admitted
<1>2. ASSUME Send PROVE IInv'
  <2>1. ASSUME Fail PROVE IInv'
    <3>1. PICK job \in Local : FailState(job, "uncertain")
      BY <2>1 DEF Fail
    <3> QED
      BY <2>1, <3>1, FailStateKeeps DEF Fail
  <2>2. ASSUME Rejected PROVE IInv'
    <3>1. flight.pc # "none" /\ flight.job \in Local
      BY <2>2 DEF Rejected, AtRequest, Local
    <3> QED
      BY <2>2, <3>1, FailStateKeeps DEF Rejected
  <2> QED
    BY <1>2, <2>1, <2>2, BeginKeeps, ConnectedKeeps, LeaveKeeps, AcceptedKeeps,
       PhotoAcceptedKeeps, CommitKeeps, FailUnsavedKeeps DEF Send
<1>3. ASSUME Ask PROVE IInv'
  <2>1. ASSUME DisableGuard PROVE IInv'
    <3>1. account \in [present : BOOLEAN, leaving : {"no", "due", "waiting"},
                       removals : Nat]
      BY DEF IInv, TypeOK
    <3> QED
      BY <2>1, <3>1, CallOffKeeps DEF DisableGuard, StartTicks, Admitted, Rest
  <2> QED
    BY <1>1, <1>3, <2>1, StartBatchKeeps, EnableGuardKeeps, ResolveKeeps, ConfigureKeeps,
       RecordCountKeeps, CreateGroupKeeps, DeleteGroupKeeps, ActivateKeeps DEF Ask
<1>4. ASSUME Environment PROVE IInv'
  <2>1. ASSUME RemoveHook PROVE IInv'
    <3>1. account' \in [present : BOOLEAN, leaving : {"no", "due", "waiting"},
                        removals : Nat]
      BY <2>1 DEF RemoveHook, IInv, TypeOK
    <3>2. ticking' \in BOOLEAN
      BY <2>1 DEF RemoveHook, IInv, TypeOK
    <3> QED
      BY <2>1, <3>1, <3>2, CallOffKeeps DEF RemoveHook
  <2> QED
    BY <1>4, <2>1, RegistryKeeps, RestartKeeps DEF Environment
<1>5. ASSUME UNCHANGED vars PROVE IInv'
  <2>1. /\ UNCHANGED <<profile, jobs, groups, expiry, flight, school>> /\ now' = now
        /\ TypeOK' /\ now <= now' /\ now' < Horizon
    BY <1>5 DEF vars, IInv, TypeOK
  <2> QED
    BY <2>1, Elapse
<1> QED
  BY <1>1, <1>2, <1>3, <1>4, <1>5 DEF Next

\* The inductive invariant holds of every reachable state.
THEOREM TDInvariance == Spec => []IInv
<1>1. Init => IInv
  BY Initial
<1>2. IInv /\ [Next]_vars => IInv'
  BY Consecution
<1> QED
  BY <1>1, <1>2, PTL DEF Spec

\* Rows, flight and history stay well formed.
THEOREM TDTypeCorrect == Spec => []TypeOK
<1>1. IInv => TypeOK
  BY DEF IInv
<1> QED
  BY <1>1, TDInvariance, PTL

\* What is counted as done was acknowledged by the school, whatever was lost.
THEOREM TDHonestTally == Spec => []HonestTally
<1>1. IInv => HonestTally
  BY DEF IInv
<1> QED
  BY <1>1, TDInvariance, PTL

\* No group is deleted that a phase under way, or one to come, needs.
THEOREM TDPhotosKept == Spec => []PhotosKept
<1>1. IInv => PhotosKept
  BY DEF IInv
<1> QED
  BY <1>1, TDInvariance, PTL

\* Neither the closing hour nor the end of the licence comes between an entry
\* and its exit.
THEOREM TDPairFits == Spec => []PairFits
  BY PairFitsFollows, TDInvariance, PTL

\* Only the flight's own step lets a request leave or an entry count.
LEMMA OnlyLeave ==
  ASSUME IInv, [Next]_vars, RequestLeaves \/ EntryLeaves
  PROVE  Leave
<1>1. school.entries \in [Days -> Nat] /\ TypeOK
  BY DEF IInv, TypeOK
<1>2. ASSUME Leave \/ (school'.entries = school.entries /\ ~RequestLeaves) PROVE Leave
  BY <1>1, <1>2 DEF EntryLeaves
<1>3. ASSUME Tick \/ Manual PROVE school'.entries = school.entries /\ ~RequestLeaves
  <2>1. PICK manual \in BOOLEAN : SettleStep \/ ClaimStep(manual)
    BY <1>3, Transacts DEF IInv, Tick, Manual
  <2>2. school'.entries = school.entries
    BY <1>1, <2>1, SchoolType DEF SettleStep, ClaimStep, SameHistory
  <2>3. flight.pc = "none"
    BY <1>3 DEF Tick, Manual, Admitted, LockFree
  <2> QED
    BY <2>2, <2>3 DEF RequestLeaves
<1>4. ASSUME Begin \/ Connected \/ Accepted \/ PhotoAccepted \/ Commit
      PROVE  school'.entries = school.entries /\ ~RequestLeaves
  <2>1. flight \in Flight
    BY <1>1 DEF TypeOK
  <2>2. ASSUME Begin \/ Connected \/ Accepted \/ Commit PROVE school' = school
    BY <2>2 DEF Begin, Connected, Accepted, Commit
  <2>3. ASSUME PhotoAccepted PROVE school'.entries = school.entries
    BY <1>1, <2>3 DEF PhotoAccepted, TypeOK
  <2>4. ASSUME RequestLeaves PROVE FALSE
    BY <1>4, <2>1, <2>4 DEF RequestLeaves, Begin, Connected, Accepted, PhotoAccepted,
       Commit, AtRequest, Advance, Flight
  <2> QED
    BY <1>4, <2>2, <2>3, <2>4
<1>5. ASSUME Fail \/ Rejected \/ FailUnsaved \/ Restart
      PROVE  school'.entries = school.entries /\ ~RequestLeaves
  <2>1. flight'.pc = "none"
    BY <1>5, GroundedType DEF Fail, Rejected, FailUnsaved, Restart
  <2>2. school'.entries = school.entries
    BY <1>1, <1>5, SchoolType DEF Fail, Rejected, FailUnsaved, Restart, SameHistory
  <2> QED
    BY <2>1, <2>2 DEF RequestLeaves
<1>6. ASSUME UNCHANGED flight, SameHistory
      PROVE  school'.entries = school.entries /\ ~RequestLeaves
  BY <1>6 DEF SameHistory, RequestLeaves
<1>7. ASSUME StartBatch \/ EnableGuard \/ DisableGuard \/ Configure \/ RemoveHook
      PROVE  UNCHANGED flight /\ SameHistory
  BY <1>1, <1>7, SchoolType
     DEF StartBatch, EnableGuard, DisableGuard, Configure, RemoveHook, CallOff, Rest
<1>8. ASSUME Resolve PROVE school'.entries = school.entries /\ ~RequestLeaves
  <2>1. school' = [school EXCEPT !.at = "out", !.quiet = TRUE] /\ flight' = flight
    BY <1>8 DEF Resolve, Rest
  <2> QED
    BY <1>1, <2>1 DEF TypeOK, RequestLeaves
<1>9. ASSUME \/ RecordCount \/ CreateGroup \/ DeleteGroup \/ Activate
             \/ Remove \/ Login \/ Close \/ Clock \/ UNCHANGED vars
      PROVE  UNCHANGED flight /\ SameHistory
  BY <1>9 DEF RecordCount, CreateGroup, DeleteGroup, Activate, Remove, Login, Close,
     Clock, vars, Rest, SameHistory
<1> QED
  BY <1>2, <1>3, <1>4, <1>5, <1>6, <1>7, <1>8, <1>9 DEF Next, Send, Ask, Environment

\* No day sees more entries than the settings and the hard limit allow.
THEOREM TDEntryBudget == Spec => EntryBudget
<1>1. ASSUME IInv, [Next]_vars, EntryLeaves
      PROVE  school.entries[flight.day] < DailyLimit(profile)
  <2>1. Leave /\ TypeOK /\ flight.pc = "guarded"
    BY <1>1, OnlyLeave DEF IInv, Leave, AtRequest
  <2>2. flight.kind = "check" /\ ForEntry
    <3>1. CASE flight.kind = "photo" \/ flight.phase # "entry"
      <4>1. school'.entries = school.entries
        BY <2>1, <3>1, FlightFacts, <1>1 DEF Leave, TypeOK
      <4> QED
        BY <1>1, <2>1, <4>1 DEF EntryLeaves, TypeOK
    <3>2. flight.kind \in {"check", "photo"}
      BY <2>1 DEF TypeOK, Flight
    <3> QED
      BY <3>1, <3>2 DEF ForEntry
  <2>3. /\ school.entries[flight.day] < flight.job.attempted
        /\ flight.job.attempted <= DailyLimit(profile)
    BY <1>1, <2>1, <2>2 DEF IInv, FlightOK, Unsent
  <2>4. /\ flight.day \in Days /\ flight.job.attempted \in Nat
        /\ DailyLimit(profile) \in Nat
    BY <1>1, <2>1, FlightFacts, LimitType DEF Job
  <2>5. school.entries[flight.day] \in Nat
    BY <2>1, <2>4 DEF TypeOK
  <2> QED
    BY <2>3, <2>4, <2>5
<1>2. IInv /\ [Next]_vars =>
        [EntryLeaves => school.entries[flight.day] < DailyLimit(profile)]_vars
  BY <1>1
<1> QED
  BY <1>2, TDInvariance, PTL DEF Spec, EntryBudget

\* Nothing whose outcome is unknown is sent again, and an exit leaves only after
\* its own entry was acknowledged, on its day and in its seven minutes.
THEOREM TDNoReplay == Spec => NoReplay
<1> DEFINE Right == IF flight.phase = "entry" THEN school.at = "out"
                    ELSE /\ school.at = "in"
                         /\ school.entered = flight.job.entry
                         /\ Today = flight.day
                         /\ now < school.entered + Pair + Wire
<1>1. ASSUME IInv, [Next]_vars, CheckLeaves
      PROVE  Right
  <2>1. Leave /\ flight.pc = "guarded" /\ flight.kind = "check"
    BY <1>1, OnlyLeave DEF CheckLeaves, RequestLeaves
  <2>2. IF ForEntry THEN school.at = "out"
        ELSE school.at = "in" /\ school.entered = flight.job.entry
    BY <1>1, <2>1 DEF IInv, FlightOK, Unsent
  <2>3. /\ now \in Nat /\ flight.since \in Nat /\ flight.job.entry \in Nat
        /\ Pair \in Nat /\ Wire \in Nat /\ Margin \in Nat /\ Pair + Wire <= Margin
    BY <1>1, <2>1, FlightFacts, TDAssumption DEF IInv, TypeOK, Flight, Job
  <2>4. /\ flight.job.entry <= flight.since /\ flight.since <= now
        /\ flight.since < flight.job.entry + Pair /\ now - flight.since <= Wire
    BY <1>1, <2>1 DEF IInv, FlightOK, Leave, InTime
  <2>5. now < flight.job.entry + Pair + Wire
    BY <2>3, <2>4
  <2>6. flight.job.entry <= now /\ now < flight.job.entry + Margin
    BY <2>3, <2>4, <2>5
  <2>7. /\ flight.day \in Days /\ Placed(flight.day)
        /\ jobs[flight.day].entry = flight.job.entry
    BY <1>1, <2>1, FlightFacts DEF IInv
  <2>8. Today = flight.day
    BY <1>1, <2>6, <2>7, PairInWindow DEF IInv
  <2> QED
    BY <2>2, <2>5, <2>8 DEF ForEntry
<1>2. IInv /\ [Next]_vars => [CheckLeaves => Right]_vars
  BY <1>1
<1> QED
  BY <1>2, TDInvariance, PTL DEF Spec, NoReplay

\* A pause, a failure, a verification, new settings or a removal end the sending
\* until the student asks again.
THEOREM TDQuietStays == Spec => QuietStays
<1>1. IInv /\ [Next]_vars => [RequestLeaves => ~school.quiet]_vars
  BY FlightFacts DEF RequestLeaves
<1> QED
  BY <1>1, TDInvariance, PTL DEF Spec, QuietStays
=============================================================================

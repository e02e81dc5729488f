----------------------- MODULE AccountRegistry_proofs -----------------------
(***************************************************************************)
(* For any objects, requests, orders and files: a removed account and a    *)
(* stopped switch stay silent, the daemon follows the switches, and an     *)
(* incident is closed for good reason.                                     *)
(***************************************************************************)
EXTENDS AccountRegistry, FiniteSetTheorems, TLAPS

(* The inductive invariant. *)

Wants(on) == on["select"] \/ on["sign"]
\* p has changed switches of the Boya daemon and saves them.
Writes(p) == Place(p) = "write" /\ Kind(p) = "boya"
WritesRegular(p) == Place(p) = "write" /\ Kind(p) = "regular"
WorkPlaces == {"renew", "read", "preflight", "ordinary", "submit", "posted"}
Working(o) == check.of = o /\ check.pc \in WorkPlaces

\* Each kind of request has places of its own.
PlaceFits(r) ==
  /\ r.pc \in {"hooks", "close"} => r.kind = "remove"
  /\ r.pc \in {"lock", "decide"} => r.kind = "boya"
  /\ r.pc \in {"sign", "save"} => r.kind \notin {"boya", "regular"}
  /\ r.pc \in {"block", "sso", "sync"} => r.kind \in {"login", "connect"}
PlacesFit == \A p \in Pages : PlaceFits(page[p])

\* Nothing refers to an object that has not been made.
Fresh ==
  /\ listed # None => listed <= made
  /\ check.of <= made
  /\ \A p \in Pages : Of(p) <= made
  /\ \A o \in Objects : made < o => ~account[o].gone

LocksHeld ==
  /\ \A o \in Objects : lock[o] = Worker <=> Working(o)
  /\ \A p \in Pages : Writes(p) => lock[Of(p)] = p

LoopHeld == \A p \in Pages :
  Place(p) = "block" \/ (Place(p) = "write" /\ Kind(p) # "boya") => loop = p

RemovedOnes ==
  /\ listed # None => ~account[listed].removed
  /\ \A p \in Pages : Kind(p) = "remove" => account[Of(p)].removed

\* Once its client has been closed, a removed object gets no session any more.
Closed(o) ==
  \/ account[o].gone
  \/ \E p \in Pages : Kind(p) = "remove" /\ Of(p) = o /\ Place(p) = "sign"
Shut == \A o \in Objects :
  Closed(o) => account[o].removed /\ ~account[o].token /\ lock[o] # Worker

\* Orders are for the switches of their page.
Orderly == \A p \in Pages : \A s \in Switches :
  Order(p)[s] # "keep" => (s = "regular" <=> Kind(p) # "boya")

\* Until it is saved, a change is what the switches show.
Changed == \A p \in Pages : ~account[Of(p)].removed =>
  /\ WritesRegular(p) /\ Order(p)["regular"] = "on" => account[Of(p)].on["regular"]
  /\ Writes(p) => \A s \in Actions :
       account[Of(p)].on[s] <=> Applied(Order(p), page[p].prev)[s]

\* A stop that was answered has nobody against it.
SaidOff == \A s \in said :
  /\ \A p \in Pages : Order(p)[s] = "keep"
  /\ listed # None => ~account[listed].on[s]

PostedOn == check.pc = "posted" /\ check.of = listed => account[listed].on[check.action]

\* The daemon follows, or somebody is about to decide.
Settled == daemon.running \/ refused \/ \E p \in Pages : Place(p) = "decide"
Follows ==
  /\ AnyBoya /\ (\A p \in Pages : Writes(p) => Of(p) # listed) => Settled
  /\ \A p \in Pages :
       Writes(p) /\ Of(p) = listed /\ Stops(Order(p)) = {} /\ Wants(page[p].prev) => Settled

\* A first complete reading is not younger than the incident has it.
CalmTrue ==
  incident.stable = 1 =>
    /\ calm \in {"fresh", "old"} /\ incident.age \in {"fresh", "old"}
    /\ incident.age = "old" => calm = "old"

IInv ==
  /\ TypeOK /\ PlacesFit /\ Fresh /\ LocksHeld /\ LoopHeld /\ RemovedOnes /\ Shut
  /\ Orderly /\ Changed /\ SaidOff /\ PostedOn /\ Follows /\ CalmTrue
-----------------------------------------------------------------------------
(* Types. *)

Pcs == {"idle", "auth", "block", "sign", "sso", "sync", "save", "write",
        "hooks", "close", "lock", "decide"}
PageType ==
  [pc : Pcs, kind : {"login"} \cup Kinds, of : Objects, acc : Objects,
   order : [Switches -> {"on", "off", "keep"}], prev : [Switches -> BOOLEAN],
   image : [Switches -> BOOLEAN] \cup {None}]

LEMMA ObjectFacts ==
  /\ Cardinality(Objects) \in Nat /\ 1 \in Objects /\ Objects \subseteq Nat
  /\ \A n \in Objects : n < Cardinality(Objects) => n + 1 \in Objects
  /\ \A n \in Objects : 1 <= n
<1>1. Cardinality(Objects) \in Nat
  BY FS_CardinalityType, RegistryAssumption
<1> QED
  BY <1>1, RegistryAssumption

LEMMA IdleFacts ==
  /\ IdlePage \in PageType /\ IdlePage.pc = "idle" /\ IdlePage.kind = "login"
  /\ IdlePage.of = 1 /\ \A s \in Switches : IdlePage.order[s] = "keep"
  /\ IdlePage.acc = 1
<1>1. Keep \in [Switches -> {"on", "off", "keep"}] /\ Off \in [Switches -> BOOLEAN]
  BY DEF Keep, Off
<1>2. \A s \in Switches : Keep[s] = "keep"
  BY DEF Keep
<1> QED
  BY <1>1, <1>2, ObjectFacts DEF IdlePage, PageType, Pcs

LEMMA PageFacts ==
  ASSUME TypeOK
  PROVE  /\ page \in [Pages -> PageType]
         /\ \A p \in Pages : /\ page[p] \in PageType /\ Of(p) \in Objects /\ Acc(p) \in Objects
                             /\ Place(p) \in Pcs /\ Kind(p) \in {"login"} \cup Kinds
                             /\ Order(p) \in [Switches -> {"on", "off", "keep"}]
                             /\ page[p].prev \in [Switches -> BOOLEAN]
<1>1. page \in [Pages -> PageType]
  BY DEF TypeOK, PageType, Pcs
<1> QED
  BY <1>1 DEF PageType, Of, Acc, Place, Kind, Order

LEMMA TypeParts ==
  ASSUME TypeOK
  PROVE  /\ account \in [Objects -> Account] /\ listed \in Objects \cup {None}
         /\ authLock \in [Objects -> Pages \cup {Nobody}] /\ loop \in Pages \cup {Nobody}
         /\ made \in Objects /\ said \subseteq Switches
         /\ lock \in [Objects -> Pages \cup {Worker, Nobody}]
         /\ file \in [Switches -> BOOLEAN] \cup {None}
         /\ budget \in [requests : 0..Requests, faults : 0..Faults]
  BY DEF TypeOK, DaemonTypeOK

LEMMA CheckFacts ==
  ASSUME TypeOK
  PROVE  check.of \in Objects /\ check.action \in Actions /\ Actions \subseteq Switches
  BY DEF TypeOK, DaemonTypeOK, Check, Actions, Switches

\* What is not changed of the accounts while they keep their switches.
Similar ==
  /\ account' \in [Objects -> Account]
  /\ \A o \in Objects : /\ account'[o].removed = account[o].removed
                        /\ account'[o].on = account[o].on
                        /\ account'[o].gone => account[o].gone \/ o <= made

\* ... and change in their sessions and pauses only.
Alike ==
  /\ account' \in [Objects -> Account]
  /\ \A o \in Objects : /\ account'[o].removed = account[o].removed
                        /\ account'[o].gone = account[o].gone
                        /\ account'[o].on = account[o].on

LEMMA SameAlike == ASSUME TypeOK, UNCHANGED account PROVE Alike
  BY DEF TypeOK, DaemonTypeOK, Alike

LEMMA RowStep ==
  ASSUME TypeOK, NEW x \in Objects, NEW r \in Account, account' = [account EXCEPT ![x] = r]
  PROVE  /\ account' \in [Objects -> Account] /\ account'[x] = r
         /\ \A o \in Objects \ {x} : account'[o] = account[o]
  BY DEF TypeOK, DaemonTypeOK

LEMMA TokenStep ==
  ASSUME TypeOK, NEW x \in Objects, NEW t \in BOOLEAN,
         account' = [account EXCEPT ![x].token = t]
  PROVE  /\ Alike /\ account'[x].token = t
         /\ \A o \in Objects \ {x} : account'[o] = account[o]
<1> DEFINE r == [account[x] EXCEPT !.token = t]
<1>1. account[x] \in Account
  BY DEF TypeOK, DaemonTypeOK
<1>2. /\ r \in Account /\ r.token = t /\ r.removed = account[x].removed
      /\ r.gone = account[x].gone /\ r.on = account[x].on
  BY <1>1 DEF Account
<1>3. account' = [account EXCEPT ![x] = r]
  OBVIOUS
<1> HIDE DEF r
<1> QED
  BY <1>2, <1>3, RowStep DEF Alike

LEMMA FlagStep ==
  ASSUME TypeOK, NEW x \in Objects, NEW m \in BOOLEAN, NEW i \in BOOLEAN,
         account' = [account EXCEPT ![x].maintenance = m, ![x].input = i]
  PROVE  /\ Alike /\ \A o \in Objects : account'[o].token = account[o].token
<1> DEFINE r == [account[x] EXCEPT !.maintenance = m, !.input = i]
<1>1. account[x] \in Account
  BY DEF TypeOK, DaemonTypeOK
<1>2. /\ r \in Account /\ r.token = account[x].token /\ r.removed = account[x].removed
      /\ r.gone = account[x].gone /\ r.on = account[x].on
  BY <1>1 DEF Account
<1>3. account' = [account EXCEPT ![x] = r]
  BY DEF TypeOK, DaemonTypeOK
<1> HIDE DEF r
<1> QED
  BY <1>2, <1>3, RowStep DEF Alike

LEMMA OnStep ==
  ASSUME TypeOK, NEW x \in Objects, NEW on \in [Switches -> BOOLEAN],
         account' = [account EXCEPT ![x].on = on]
  PROVE  /\ account' \in [Objects -> Account]
         /\ account'[x].on = on
         /\ \A o \in Objects : /\ account'[o].removed = account[o].removed
                               /\ account'[o].gone = account[o].gone
                               /\ account'[o].token = account[o].token
         /\ \A o \in Objects \ {x} : account'[o] = account[o]
<1> DEFINE r == [account[x] EXCEPT !.on = on]
<1>1. account[x] \in Account
  BY DEF TypeOK, DaemonTypeOK
<1>2. /\ r \in Account /\ r.token = account[x].token /\ r.removed = account[x].removed
      /\ r.gone = account[x].gone /\ r.on = on
  BY <1>1 DEF Account
<1>3. account' = [account EXCEPT ![x] = r]
  OBVIOUS
<1> HIDE DEF r
<1> QED
  BY <1>2, <1>3, RowStep

LEMMA NewType ==
  ASSUME NEW on \in [Switches -> BOOLEAN]
  PROVE  /\ NewAccount(on) \in Account /\ ~NewAccount(on).removed /\ ~NewAccount(on).gone
         /\ ~NewAccount(on).token /\ NewAccount(on).on = on
  BY DEF NewAccount, Account

LEMMA AppliedType ==
  ASSUME NEW order \in [Switches -> {"on", "off", "keep"}], NEW on \in [Switches -> BOOLEAN]
  PROVE  /\ Applied(order, on) \in [Switches -> BOOLEAN]
         /\ \A s \in Switches : order[s] = "keep" => Applied(order, on)[s] = on[s]
         /\ \A s \in Switches : order[s] # "keep" => (Applied(order, on)[s] <=> order[s] = "on")
  BY DEF Applied

LEMMA RestoredType ==
  ASSUME NEW order \in [Switches -> {"on", "off", "keep"}], NEW on \in [Switches -> BOOLEAN],
         NEW prev \in [Switches -> BOOLEAN]
  PROVE  /\ Restored(order, prev, on) \in [Switches -> BOOLEAN]
         /\ \A s \in Switches : order[s] # "on" => Restored(order, prev, on)[s] = on[s]
         /\ \A s \in Switches : order[s] = "on" => Restored(order, prev, on)[s] = prev[s]
  BY DEF Restored
-----------------------------------------------------------------------------
(* Steps of a request that leave rows, locks and switches alone. *)

LEMMA MoveFacts ==
  ASSUME TypeOK, NEW p \in Pages, NEW place \in Pcs, Move(p, place)
  PROVE  \E r \in PageType :
           /\ page' = [page EXCEPT ![p] = r]
           /\ r.pc = place /\ r.kind = Kind(p) /\ r.of = Of(p) /\ r.acc = Acc(p)
           /\ r.order = Order(p) /\ r.prev = page[p].prev /\ r.image = page[p].image
<1> DEFINE r == [page[p] EXCEPT !.pc = place]
<1>1. page[p] \in PageType
  BY PageFacts
<1>2. /\ r \in PageType /\ r.pc = place /\ r.kind = page[p].kind /\ r.of = page[p].of
      /\ r.acc = page[p].acc /\ r.order = page[p].order /\ r.prev = page[p].prev
      /\ r.image = page[p].image
  BY <1>1 DEF PageType
<1>3. page' = [page EXCEPT ![p] = r]
  BY DEF Move
<1> HIDE DEF r
<1> QED
  BY <1>2, <1>3 DEF Kind, Of, Acc, Order

LEMMA PageStep ==
  ASSUME TypeOK, NEW p \in Pages, NEW r \in PageType, page' = [page EXCEPT ![p] = r]
  PROVE  /\ page' \in [Pages -> PageType] /\ page'[p] = r
         /\ \A q \in Pages \ {p} : page'[q] = page[q]
  BY PageFacts

LEMMA AnswerFacts ==
  ASSUME TypeOK, NEW p \in Pages, Answer(p)
  PROVE  /\ page' = [page EXCEPT ![p] = IdlePage] /\ IdlePage \in PageType
         /\ authLock' \in [Objects -> Pages \cup {Nobody}]
  BY IdleFacts DEF Answer, TypeOK

\* The loop is taken when it is free, and released by who holds it.
LEMMA LoopStep ==
  ASSUME TypeOK, LoopHeld, NEW p \in Pages, NEW r \in PageType,
         page' = [page EXCEPT ![p] = r],
         loop' = loop \/ loop = p \/ loop = Nobody,
         r.pc = "block" \/ (r.pc = "write" /\ r.kind # "boya") => loop' = p
  PROVE  LoopHeld'
<1>1. page'[p] = r /\ \A q \in Pages \ {p} : page'[q] = page[q]
  BY PageStep
<1>2. Nobody \notin Pages
  BY RegistryAssumption
<1>3. ASSUME NEW q \in Pages,
             page'[q].pc = "block" \/ (page'[q].pc = "write" /\ page'[q].kind # "boya")
      PROVE  loop' = q
  <2>1. CASE q = p
    BY <1>1, <1>3, <2>1
  <2>2. CASE q # p
    <3>1. loop = q
      BY <1>1, <1>3, <2>2 DEF LoopHeld, Place, Kind
    <3> QED
      BY <1>2, <2>2, <3>1
  <2> QED
    BY <2>1, <2>2
<1> QED
  BY <1>3 DEF LoopHeld, Place, Kind

\* Nobody begins to close an object, and only those in use get a session.
LEMMA ShutHeld ==
  ASSUME TypeOK, Shut, NEW p \in Pages, NEW r \in PageType,
         page' = [page EXCEPT ![p] = r],
         ~(r.kind = "remove" /\ r.pc = "sign"), UNCHANGED lock,
         \A o \in Objects : /\ account'[o].removed = account[o].removed
                            /\ account'[o].gone = account[o].gone
                            /\ account'[o].token => account[o].token \/ ~account[o].removed
  PROVE  Shut'
<1>1. page'[p] = r /\ \A q \in Pages \ {p} : page'[q] = page[q]
  BY PageStep
<1>2. ASSUME NEW o \in Objects, Closed(o)'
      PROVE  Closed(o)
  BY <1>1, <1>2 DEF Closed, Kind, Of, Place
<1> QED
  BY <1>2 DEF Shut

LEMMA ShutKept ==
  ASSUME TypeOK, Shut, NEW p \in Pages, NEW r \in PageType,
         page' = [page EXCEPT ![p] = r],
         ~(r.kind = "remove" /\ r.pc = "sign"), Alike, UNCHANGED lock,
         \A o \in Objects : account'[o].token => account[o].token \/ ~account[o].removed
  PROVE  Shut'
  BY ShutHeld DEF Alike

\* What is not changed of the accounts while the Boya switches in use stay.
Steady ==
  /\ account' \in [Objects -> Account]
  /\ \A o \in Objects :
       /\ account'[o].removed = account[o].removed
       /\ account'[o].gone => account[o].gone \/ o <= made
       /\ ~account[o].removed => \A s \in Actions : account'[o].on[s] <=> account[o].on[s]

RegularChanged == \A p \in Pages :
  WritesRegular(p) /\ Order(p)["regular"] = "on" /\ ~account[Of(p)].removed =>
    account[Of(p)].on["regular"]

LEMMA SteadyPage ==
  ASSUME IInv, NEW p \in Pages, NEW r \in PageType, page' = [page EXCEPT ![p] = r],
         ~Writes(p), Place(p) # "decide", ~(r.pc = "write" /\ r.kind = "boya"),
         PlaceFits(r), r.of <= made, r.kind = "remove" => account[r.of].removed,
         \A s \in Switches : r.order[s] # "keep" => (s = "regular" <=> r.kind # "boya"),
         Steady, UNCHANGED <<listed, lock, daemon, check, made, refused>>,
         TypeOK', LoopHeld', Shut', SaidOff', RegularChanged', CalmTrue'
  PROVE  IInv'
<1>1. TypeOK
  BY DEF IInv
<1>2. page'[p] = r /\ \A q \in Pages \ {p} : page'[q] = page[q]
  BY <1>1, PageStep
<1>3. r.of \in Objects /\ \A q \in Pages : Of(q) \in Objects
  BY <1>1, PageFacts DEF PageType
<1>4. PlacesFit'
  BY <1>2 DEF IInv, PlacesFit
<1>5. Fresh'
  <2>1. /\ made \in Nat /\ \A o \in Objects : o \in Nat
    BY <1>1, ObjectFacts DEF TypeOK
  <2>2. \A o \in Objects : made' < o => ~account'[o].gone
    BY <2>1 DEF IInv, Fresh, Steady
  <2> QED
    BY <1>2, <2>2 DEF IInv, Fresh, Of
<1>6. \A q \in Pages : Writes(q)' <=> Writes(q) /\ q # p
  BY <1>2 DEF Writes, Place, Kind
<1>7. LocksHeld'
  BY <1>2, <1>6 DEF IInv, LocksHeld, Working, Of
<1>8. listed # None => /\ listed \in Objects /\ ~account[listed].removed
                       /\ ~account'[listed].removed
                       /\ \A s \in Actions : account'[listed].on[s] <=> account[listed].on[s]
  BY <1>1, TypeParts DEF IInv, RemovedOnes, Steady
<1>9. RemovedOnes'
  <2>1. ASSUME NEW q \in Pages, page'[q].kind = "remove"
        PROVE  account'[page'[q].of].removed
    BY <1>2, <1>3, <2>1 DEF IInv, RemovedOnes, Steady, Kind, Of
  <2> QED
    BY <1>8, <2>1 DEF RemovedOnes, Kind, Of
<1>10. Orderly'
  BY <1>2 DEF IInv, Orderly, Order, Kind
<1>11. Changed'
  <2>1. ASSUME NEW q \in Pages, ~account'[Of(q)'].removed, Writes(q)', NEW s \in Actions
        PROVE  account'[Of(q)'].on[s] <=> Applied(Order(q)', page'[q].prev)[s]
    <3>1. q # p /\ Writes(q)
      BY <1>6, <2>1
    <3>2. page'[q] = page[q]
      BY <1>2, <3>1
    <3>3. ~account[Of(q)].removed
      BY <1>3, <2>1, <3>2 DEF Steady, Of
    <3>4. account[Of(q)].on[s] <=> Applied(Order(q), page[q].prev)[s]
      BY <3>1, <3>3 DEF IInv, Changed
    <3> QED
      BY <1>3, <3>2, <3>3, <3>4 DEF Steady, Of, Order
  <2> QED
    BY <2>1 DEF Changed, RegularChanged
<1>12. PostedOn'
  <2>1. ASSUME check.pc = "posted", check.of = listed
        PROVE  account'[listed].on[check.action]
    <3>1. listed # None /\ check.action \in Actions /\ account[listed].on[check.action]
      BY <1>1, <2>1, CheckFacts, RegistryAssumption DEF IInv, PostedOn
    <3> QED
      BY <1>8, <3>1
  <2> QED
    BY <2>1 DEF PostedOn
<1>13. Follows'
  <2>1. Settled => Settled'
    BY <1>2 DEF Settled, Place
  <2>2. ASSUME AnyBoya' PROVE AnyBoya
    <3>1. PICK s \in Actions : listed # None /\ account'[listed].on[s]
      BY <2>2 DEF AnyBoya, Actions
    <3>2. account[listed].on[s]
      BY <1>8, <3>1
    <3> QED
      BY <3>1, <3>2 DEF AnyBoya, Actions
  <2>3. ASSUME AnyBoya', \A q \in Pages : Writes(q)' => Of(q)' # listed'
        PROVE  Settled'
    BY <1>2, <1>6, <2>1, <2>2, <2>3 DEF IInv, Follows, Of
  <2>4. ASSUME NEW q \in Pages, Writes(q)', Of(q)' = listed', Stops(Order(q))' = {},
               Wants(page[q].prev)'
        PROVE  Settled'
    <3>1. q # p /\ Writes(q)
      BY <1>6, <2>4
    <3>2. page'[q] = page[q]
      BY <1>2, <3>1
    <3>3. Of(q) = listed /\ Stops(Order(q)) = {} /\ Wants(page[q].prev)
      BY <2>4, <3>2 DEF Of, Order, Stops, Wants
    <3> QED
      BY <2>1, <3>1, <3>3 DEF IInv, Follows
  <2> QED
    BY <2>3, <2>4 DEF Follows
<1> QED
  BY <1>4, <1>5, <1>7, <1>9, <1>10, <1>11, <1>12, <1>13 DEF IInv

LEMMA QuietPage ==
  ASSUME IInv, NEW p \in Pages, NEW r \in PageType, page' = [page EXCEPT ![p] = r],
         ~Writes(p), Place(p) # "decide",
         ~(r.pc = "write" /\ r.kind \in {"boya", "regular"}),
         PlaceFits(r), r.of <= made, r.kind = "remove" => account[r.of].removed,
         \A s \in Switches :
           r.order[s] # "keep" => (s = "regular" <=> r.kind # "boya") /\ s \notin said',
         said' \subseteq said,
         Similar, UNCHANGED <<listed, lock, daemon, check, incident, calm, made, refused>>,
         TypeOK', LoopHeld', Shut'
  PROVE  IInv'
<1>1. TypeOK
  BY DEF IInv
<1>2. page'[p] = r /\ \A q \in Pages \ {p} : page'[q] = page[q]
  BY <1>1, PageStep
<1>3. \A q \in Pages : Of(q) \in Objects
  BY <1>1, PageFacts
<1>4. Steady
  BY DEF Similar, Steady
<1>5. RegularChanged'
  <2>1. ASSUME NEW q \in Pages, WritesRegular(q)', Order(q)'["regular"] = "on",
               ~account'[Of(q)'].removed
        PROVE  account'[Of(q)'].on["regular"]
    <3>1. q # p
      BY <1>2, <2>1 DEF WritesRegular, Place, Kind
    <3>2. page'[q] = page[q]
      BY <1>2, <3>1
    <3> QED
      BY <1>3, <2>1, <3>2
      DEF IInv, Changed, Similar, WritesRegular, Place, Kind, Order, Of
  <2> QED
    BY <2>1 DEF RegularChanged
<1>6. SaidOff'
  <2>1. ASSUME NEW s \in said' PROVE \A q \in Pages : page'[q].order[s] = "keep"
    <3>1. s \in Switches
      BY <1>1 DEF TypeOK
    <3> QED
      BY <1>2, <3>1, <2>1 DEF IInv, SaidOff, Order
  <2>2. ASSUME NEW s \in said', listed' # None PROVE ~account'[listed'].on[s]
    BY <1>1, <2>2 DEF IInv, SaidOff, Similar, TypeOK, DaemonTypeOK
  <2> QED
    BY <2>1, <2>2 DEF SaidOff, Order
<1>7. CalmTrue'
  BY DEF IInv, CalmTrue
<1> QED
  BY <1>4, <1>5, <1>6, <1>7, SteadyPage

NewTokens == \A o \in Objects :
  account'[o].token => account[o].token \/ ~account[o].removed

LEMMA AnswerKeeps ==
  ASSUME IInv, NEW p \in Pages, Answer(p), ~Writes(p), Place(p) # "decide", Alike, NewTokens,
         loop' = loop \/ loop = p, said' = said, TypeOK',
         UNCHANGED <<listed, lock, daemon, check, incident, calm, made, refused>>
  PROVE  IInv'
<1>1. TypeOK
  BY DEF IInv
<1>2. page' = [page EXCEPT ![p] = IdlePage] /\ IdlePage \in PageType
  BY <1>1, AnswerFacts
<1>3. /\ IdlePage.pc = "idle" /\ IdlePage.kind = "login" /\ IdlePage.of <= made
      /\ \A s \in Switches : IdlePage.order[s] = "keep"
  BY <1>1, IdleFacts, ObjectFacts DEF TypeOK
<1>4. LoopHeld'
  BY <1>1, <1>2, <1>3, LoopStep DEF IInv
<1>5. Shut'
  BY <1>1, <1>2, <1>3, ShutKept DEF IInv, NewTokens
<1>6. PlaceFits(IdlePage)
  BY <1>3 DEF PlaceFits
<1> QED
  BY <1>2, <1>3, <1>4, <1>5, <1>6, QuietPage DEF Alike, Similar

LEMMA MoveKeeps ==
  ASSUME IInv, NEW p \in Pages, NEW place \in Pcs, Move(p, place),
         ~Writes(p), Place(p) # "decide", place \notin {"write", "decide"},
         place \in {"hooks", "close"} => Kind(p) = "remove",
         place = "lock" => Kind(p) = "boya",
         place \in {"sign", "save"} => Kind(p) \notin {"boya", "regular"},
         place \in {"block", "sso", "sync"} => Kind(p) \in {"login", "connect"},
         Alike, loop' = loop \/ loop = p \/ loop = Nobody, place = "block" => loop' = p,
         said' = said, TypeOK', Kind(p) = "remove" /\ place = "sign" => Shut',
         NewTokens, UNCHANGED <<listed, lock, daemon, check, incident, calm, made, refused>>
  PROVE  IInv'
<1>1. TypeOK
  BY DEF IInv
<1>2. PICK r \in PageType :
           /\ page' = [page EXCEPT ![p] = r]
           /\ r.pc = place /\ r.kind = Kind(p) /\ r.of = Of(p) /\ r.acc = Acc(p)
           /\ r.order = Order(p) /\ r.prev = page[p].prev /\ r.image = page[p].image
  BY <1>1, MoveFacts
<1>3. LoopHeld'
  BY <1>1, <1>2, LoopStep DEF IInv
<1>4. Shut'
  BY <1>1, <1>2, ShutKept DEF IInv, NewTokens
<1>5. PlaceFits(r) /\ r.of <= made /\ (r.kind = "remove" => account[r.of].removed)
  BY <1>2 DEF IInv, PlaceFits, Fresh, RemovedOnes
<1>6. \A s \in Switches :
        r.order[s] # "keep" => (s = "regular" <=> r.kind # "boya") /\ s \notin said'
  BY <1>2 DEF IInv, Orderly, SaidOff
<1> QED
  BY <1>2, <1>3, <1>4, <1>5, <1>6, QuietPage DEF Alike, Similar

\* What is left of TypeOK when a request leaves the daemon and the file alone.
LEMMA PageTyped ==
  ASSUME TypeOK, page' \in [Pages -> PageType], account' \in [Objects -> Account],
         authLock' \in [Objects -> Pages \cup {Nobody}], loop' \in Pages \cup {Nobody},
         listed' \in Objects \cup {None}, made' \in Objects, said' \subseteq Switches,
         lock' \in [Objects -> Pages \cup {Worker, Nobody}],
         file' \in [Switches -> BOOLEAN] \cup {None},
         budget' \in [requests : 0..Requests, faults : 0..Faults],
         UNCHANGED <<daemon, check, incident, age, calm, refused>>
  PROVE  TypeOK'
  BY DEF TypeOK, DaemonTypeOK, PageType, Pcs

LEMMA BudgetFacts ==
  ASSUME TypeOK
  PROVE  /\ budget.requests > 0 =>
              [budget EXCEPT !.requests = @ - 1] \in [requests : 0..Requests, faults : 0..Faults]
         /\ budget.faults > 0 =>
              [budget EXCEPT !.faults = @ - 1] \in [requests : 0..Requests, faults : 0..Faults]
<1>1. /\ budget.requests > 0 => budget.requests - 1 \in 0..Requests
      /\ budget.faults > 0 => budget.faults - 1 \in 0..Faults
  BY RegistryAssumption DEF TypeOK
<1> QED
  BY <1>1 DEF TypeOK

LEMMA AnswerLoginFacts ==
  ASSUME TypeOK, NEW p \in Pages, NEW input \in BOOLEAN, AnswerLogin(p, input)
  PROVE  Answer(p) /\ Alike /\ NewTokens
<1>1. Of(p) \in Objects /\ (account[Of(p)].input \/ input) \in BOOLEAN
  BY PageFacts
<1>2. account' = [account EXCEPT ![Of(p)].maintenance = FALSE,
                                 ![Of(p)].input = account[Of(p)].input \/ input]
  BY DEF AnswerLogin
<1> QED
  BY <1>1, <1>2, FlagStep DEF AnswerLogin, NewTokens

LEMMA MoveTyped ==
  ASSUME TypeOK, NEW p \in Pages, NEW place \in Pcs, Move(p, place)
  PROVE  page' \in [Pages -> PageType]
  BY MoveFacts, PageStep

LEMMA AnswerTyped ==
  ASSUME TypeOK, NEW p \in Pages, Answer(p)
  PROVE  /\ page' \in [Pages -> PageType]
         /\ authLock' \in [Objects -> Pages \cup {Nobody}]
  BY AnswerFacts, PageStep
-----------------------------------------------------------------------------
(* login and connect. *)

LEMMA ConnectStartsKeeps == ASSUME IInv, NEW p \in Pages, ConnectStarts(p) PROVE IInv'
<1> DEFINE r == [IdlePage EXCEPT !.pc = "auth", !.kind = "connect", !.of = listed,
                                 !.acc = listed]
<1>1. TypeOK /\ Place(p) = "idle" /\ "connect" \in Kinds /\ listed \in Objects
  BY DEF IInv, TypeOK, DaemonTypeOK, ConnectStarts, Request
<1>2. /\ r \in PageType /\ r.pc = "auth" /\ r.kind = "connect" /\ r.of = listed
      /\ \A s \in Switches : r.order[s] = "keep"
  BY <1>1, IdleFacts DEF PageType, Pcs
<1>3. page' = [page EXCEPT ![p] = r]
  BY DEF ConnectStarts
<1> HIDE DEF r
<1>4. /\ UNCHANGED <<daemonVars, authLock, file, made, refused, said>>
      /\ budget.requests > 0 /\ budget' = [budget EXCEPT !.requests = @ - 1]
  BY DEF ConnectStarts, Request
<1>5. page' \in [Pages -> PageType]
  BY <1>1, <1>2, <1>3, PageStep
<1>6. TypeOK'
  BY <1>1, <1>4, <1>5, TypeParts, BudgetFacts, PageTyped DEF daemonVars
<1>7. Alike /\ NewTokens
  BY <1>1, <1>4, SameAlike DEF NewTokens, daemonVars
<1>8. LoopHeld' /\ Shut'
  BY <1>1, <1>2, <1>3, <1>4, <1>7, LoopStep, ShutKept DEF IInv, NewTokens, daemonVars
<1>9. ~Writes(p) /\ PlaceFits(r) /\ r.of <= made
  BY <1>1, <1>2 DEF Writes, PlaceFits, IInv, Fresh, ConnectStarts
<1> QED
  BY <1>1, <1>2, <1>3, <1>4, <1>6, <1>7, <1>8, <1>9, QuietPage DEF daemonVars, Alike, Similar

LEMMA AuthenticatesKeeps == ASSUME IInv, NEW p \in Pages, Authenticates(p) PROVE IInv'
<1>1. /\ TypeOK /\ loop = Nobody /\ Place(p) = "auth" /\ Of(p) \in Objects
      /\ Kind(p) \in {"login", "connect"}
      /\ UNCHANGED <<listed, lock, daemon, check, incident, age, calm>>
      /\ UNCHANGED <<file, made, refused, said, budget>>
  BY PageFacts DEF IInv, Authenticates, LoopFree
<1>2. ~Writes(p)
  BY <1>1 DEF Writes
<1>3. CASE account[Of(p)].removed \/ (Kind(p) = "connect" /\ account[Of(p)].input)
  <2>1. Answer(p) /\ UNCHANGED <<account, loop>>
    BY <1>3 DEF Authenticates
  <2>2. Alike /\ NewTokens
    BY <1>1, <2>1, SameAlike DEF NewTokens
  <2>3. TypeOK'
    BY <1>1, <2>1, TypeParts, AnswerTyped, PageTyped
  <2> QED
    BY <1>1, <1>2, <2>1, <2>2, <2>3, AnswerKeeps
<1>4. CASE ~(account[Of(p)].removed \/ (Kind(p) = "connect" /\ account[Of(p)].input))
  <2>1. /\ authLock' = [authLock EXCEPT ![Of(p)] = p]
        /\ account' = [account EXCEPT ![Of(p)].maintenance = TRUE,
                         ![Of(p)].input = account[Of(p)].input /\ Kind(p) = "connect"]
        /\ loop' = p /\ Move(p, "block")
    BY <1>4 DEF Authenticates
  <2>2. (account[Of(p)].input /\ Kind(p) = "connect") \in BOOLEAN
    OBVIOUS
  <2>3. Alike /\ NewTokens
    BY <1>1, <2>1, <2>2, FlagStep DEF NewTokens
  <2>4. "block" \in Pcs
    BY DEF Pcs
  <2>5. authLock' \in [Objects -> Pages \cup {Nobody}]
    BY <1>1, <2>1, TypeParts
  <2>6. TypeOK'
    BY <1>1, <2>1, <2>3, <2>4, <2>5, TypeParts, MoveTyped, PageTyped DEF Alike
  <2> QED
    BY <1>1, <1>2, <2>1, <2>3, <2>4, <2>6, MoveKeeps
<1> QED
  BY <1>3, <1>4

LEMMA BlocksKeeps == ASSUME IInv, NEW p \in Pages, Blocks(p) PROVE IInv'
<1>1. /\ TypeOK /\ Place(p) = "block" /\ Of(p) \in Objects /\ loop' = Nobody
      /\ Move(p, "sign") /\ account' = [account EXCEPT ![Of(p)].token = FALSE]
      /\ UNCHANGED <<listed, lock, daemon, check, incident, age, calm, authLock>>
      /\ UNCHANGED <<file, made, refused, said, budget>>
  BY PageFacts DEF IInv, Blocks
<1>2. ~Writes(p) /\ loop = p
  BY <1>1 DEF Writes, IInv, LoopHeld
<1>3. Alike /\ NewTokens
  BY <1>1, TokenStep DEF NewTokens
<1>4. "sign" \in Pcs
  BY DEF Pcs
<1>5. TypeOK'
  BY <1>1, <1>3, <1>4, TypeParts, MoveTyped, PageTyped DEF Alike
<1>6. Kind(p) \in {"login", "connect"}
  BY <1>1 DEF IInv, PlacesFit, PlaceFits, Place, Kind
<1> QED
  BY <1>1, <1>2, <1>3, <1>4, <1>5, <1>6, MoveKeeps

LEMMA ConnectLockedKeeps == ASSUME IInv, NEW p \in Pages, ConnectLocked(p) PROVE IInv'
<1>1. /\ TypeOK /\ Place(p) = "sign" /\ Kind(p) = "connect" /\ Move(p, "sso")
      /\ UNCHANGED <<daemonVars, authLock, file, made, refused, said, budget>>
  BY DEF IInv, ConnectLocked
<1>2. ~Writes(p) /\ "sso" \in Pcs
  BY <1>1 DEF Writes, Pcs
<1>3. Alike /\ NewTokens
  BY <1>1, SameAlike DEF NewTokens, daemonVars
<1>4. TypeOK'
  BY <1>1, <1>2, TypeParts, MoveTyped, PageTyped DEF daemonVars
<1> QED
  BY <1>1, <1>2, <1>3, <1>4, MoveKeeps DEF daemonVars

LEMMA SsoRepliesKeeps == ASSUME IInv, NEW p \in Pages, SsoReplies(p) PROVE IInv'
<1>1. /\ TypeOK /\ Place(p) = "sso"
      /\ UNCHANGED <<listed, lock, loop, daemon, check, incident, age, calm>>
      /\ UNCHANGED <<file, made, refused, said, budget>>
  BY DEF IInv, SsoReplies
<1>2. ~Writes(p) /\ "sync" \in Pcs /\ Kind(p) \in {"login", "connect"}
  BY <1>1 DEF Writes, Pcs, IInv, PlacesFit, PlaceFits, Place, Kind
<1>3. CASE Move(p, "sync") /\ UNCHANGED <<account, authLock>>
  <2>1. Alike /\ NewTokens
    BY <1>1, <1>3, SameAlike DEF NewTokens
  <2>2. TypeOK'
    BY <1>1, <1>2, <1>3, TypeParts, MoveTyped, PageTyped
  <2> QED
    BY <1>1, <1>2, <1>3, <2>1, <2>2, MoveKeeps
<1>4. ASSUME NEW input \in BOOLEAN, AnswerLogin(p, input \/ Kind(p) = "login")
      PROVE  IInv'
  <2>1. (input \/ Kind(p) = "login") \in BOOLEAN
    OBVIOUS
  <2>2. Answer(p) /\ Alike /\ NewTokens
    BY <1>1, <1>4, <2>1, AnswerLoginFacts
  <2>3. TypeOK'
    BY <1>1, <2>2, TypeParts, AnswerTyped, PageTyped DEF Alike
  <2> QED
    BY <1>1, <1>2, <2>2, <2>3, AnswerKeeps
<1> QED
  BY <1>3, <1>4 DEF SsoReplies

LEMMA BoyaSyncedKeeps == ASSUME IInv, NEW p \in Pages, BoyaSynced(p) PROVE IInv'
<1>1. /\ TypeOK /\ Place(p) = "sync" /\ Acc(p) \in Objects /\ Move(p, "save")
      /\ UNCHANGED <<listed, lock, loop, daemon, check, incident, age, calm, authLock>>
      /\ UNCHANGED <<file, made, refused, said, budget>>
  BY PageFacts DEF IInv, BoyaSynced
<1>2. ~Writes(p) /\ "save" \in Pcs /\ Kind(p) \in {"login", "connect"}
  BY <1>1 DEF Writes, Pcs, IInv, PlacesFit, PlaceFits, Place, Kind
<1>3. PICK ready \in BOOLEAN : account' = [account EXCEPT ![Acc(p)].token =
        IF account[Acc(p)].removed THEN account[Acc(p)].token ELSE ready]
  BY DEF BoyaSynced
<1> DEFINE t == IF account[Acc(p)].removed THEN account[Acc(p)].token ELSE ready
<1>4. t \in BOOLEAN /\ (t => account[Acc(p)].token \/ ~account[Acc(p)].removed)
  BY <1>1, TypeParts DEF Account
<1>5. account' = [account EXCEPT ![Acc(p)].token = t]
  BY <1>3
<1> HIDE DEF t
<1>6. Alike /\ NewTokens
  BY <1>1, <1>4, <1>5, TokenStep DEF NewTokens
<1>7. TypeOK'
  BY <1>1, <1>2, <1>6, TypeParts, MoveTyped, PageTyped DEF Alike
<1> QED
  BY <1>1, <1>2, <1>6, <1>7, MoveKeeps

LEMMA RemovedMeanwhileKeeps ==
  ASSUME IInv, NEW p \in Pages, RemovedMeanwhile(p) PROVE IInv'
<1>1. /\ TypeOK /\ Place(p) = "save" /\ AnswerLogin(p, FALSE)
      /\ UNCHANGED <<listed, lock, loop, daemon, check, incident, age, calm>>
      /\ UNCHANGED <<file, made, refused, said, budget>>
  BY DEF IInv, RemovedMeanwhile
<1>2. ~Writes(p)
  BY <1>1 DEF Writes
<1>3. Answer(p) /\ Alike /\ NewTokens
  BY <1>1, AnswerLoginFacts
<1>4. TypeOK'
  BY <1>1, <1>3, TypeParts, AnswerTyped, PageTyped DEF Alike
<1> QED
  BY <1>1, <1>2, <1>3, <1>4, AnswerKeeps

LEMMA SaveBeginsKeeps == ASSUME IInv, NEW p \in Pages, SaveBegins(p) PROVE IInv'
<1> DEFINE r == [page[p] EXCEPT !.pc = "write", !.image = Snapshot, !.order = Keep]
<1>1. /\ TypeOK /\ Place(p) = "save" /\ loop = Nobody /\ loop' = p
      /\ UNCHANGED <<account, listed, lock, daemon, check, incident, age, calm>>
      /\ UNCHANGED <<authLock, file, made, refused, said, budget>>
  BY DEF IInv, SaveBegins, LoopFree
<1>2. ~Writes(p) /\ Kind(p) \notin {"boya", "regular"}
  BY <1>1 DEF Writes, IInv, PlacesFit, PlaceFits, Place, Kind
<1>3. Snapshot \in [Switches -> BOOLEAN] \cup {None}
  BY <1>1, TypeParts DEF Snapshot, Account
<1>4. Keep \in [Switches -> {"on", "off", "keep"}] /\ \A s \in Switches : Keep[s] = "keep"
  BY DEF Keep
<1>5. /\ r \in PageType /\ r.pc = "write" /\ r.kind = Kind(p) /\ r.of = Of(p)
      /\ \A s \in Switches : r.order[s] = "keep"
  BY <1>1, <1>3, <1>4, PageFacts DEF PageType, Pcs, Kind, Of
<1>6. page' = [page EXCEPT ![p] = r]
  BY DEF SaveBegins
<1> HIDE DEF r
<1>7. Alike /\ NewTokens
  BY <1>1, SameAlike DEF NewTokens
<1>8. page' \in [Pages -> PageType]
  BY <1>1, <1>5, <1>6, PageStep
<1>9. TypeOK'
  BY <1>1, <1>8, TypeParts, PageTyped
<1>10. LoopHeld' /\ Shut'
  <2>1. LoopHeld'
    BY <1>1, <1>5, <1>6, LoopStep DEF IInv
  <2>2. ~(r.kind = "remove" /\ r.pc = "sign")
    BY <1>5
  <2>3. Shut'
    BY <1>1, <1>5, <1>6, <1>7, <2>2, ShutKept DEF IInv, NewTokens
  <2> QED
    BY <2>1, <2>3
<1>11. PlaceFits(r) /\ r.of <= made /\ (r.kind = "remove" => account[r.of].removed)
  BY <1>5 DEF PlaceFits, IInv, Fresh, RemovedOnes
<1> QED
  BY <1>1, <1>2, <1>5, <1>6, <1>7, <1>9, <1>10, <1>11, QuietPage DEF Alike, Similar

LEMMA SavedKeeps == ASSUME IInv, NEW p \in Pages, Saved(p) PROVE IInv'
<1>1. /\ TypeOK /\ Place(p) = "write" /\ Kind(p) \in {"login", "connect", "remove"}
      /\ loop' = Nobody
      /\ UNCHANGED <<listed, lock, daemon, check, incident, age, calm, made, refused, said>>
  BY DEF IInv, Saved
<1>2. ~Writes(p) /\ loop = p
  BY <1>1 DEF Writes, IInv, LoopHeld
<1>3. /\ file' \in [Switches -> BOOLEAN] \cup {None}
      /\ budget' \in [requests : 0..Requests, faults : 0..Faults]
  BY <1>1, TypeParts, BudgetFacts, PageFacts DEF Saved, PageType
<1>4. Answer(p) /\ Alike /\ NewTokens
  <2>1. CASE Kind(p) = "remove"
    BY <1>1, <2>1, SameAlike DEF Saved, NewTokens
  <2>2. CASE Kind(p) # "remove"
    BY <1>1, <2>2, AnswerLoginFacts DEF Saved
  <2> QED
    BY <2>1, <2>2
<1>5. TypeOK'
  BY <1>1, <1>3, <1>4, TypeParts, AnswerTyped, PageTyped DEF Alike
<1>6. page' = [page EXCEPT ![p] = IdlePage] /\ IdlePage \in PageType
  BY <1>1, <1>4, AnswerFacts
<1>7. /\ IdlePage.pc = "idle" /\ IdlePage.kind = "login" /\ IdlePage.of <= made
      /\ \A s \in Switches : IdlePage.order[s] = "keep"
  BY <1>1, IdleFacts, ObjectFacts DEF TypeOK
<1>8. LoopHeld' /\ Shut'
  BY <1>1, <1>2, <1>4, <1>6, <1>7, LoopStep, ShutKept DEF IInv, NewTokens
<1>9. PlaceFits(IdlePage)
  BY <1>7 DEF PlaceFits
<1> QED
  BY <1>1, <1>2, <1>4, <1>5, <1>6, <1>7, <1>8, <1>9, QuietPage DEF Alike, Similar
-----------------------------------------------------------------------------
(* remove_account. *)

LEMMA DisposeLocksKeeps == ASSUME IInv, NEW p \in Pages, DisposeLocks(p) PROVE IInv'
<1>1. /\ TypeOK /\ Place(p) = "auth" /\ Kind(p) = "remove" /\ Of(p) \in Objects
      /\ authLock' = [authLock EXCEPT ![Of(p)] = p] /\ Move(p, "close")
      /\ UNCHANGED <<daemonVars, file, made, refused, said, budget>>
  BY PageFacts DEF IInv, DisposeLocks
<1>2. ~Writes(p) /\ "close" \in Pcs
  BY <1>1 DEF Writes, Pcs
<1>3. Alike /\ NewTokens
  BY <1>1, SameAlike DEF NewTokens, daemonVars
<1>4. authLock' \in [Objects -> Pages \cup {Nobody}]
  BY <1>1, TypeParts
<1>5. TypeOK'
  BY <1>1, <1>2, <1>4, TypeParts, MoveTyped, PageTyped DEF daemonVars
<1> QED
  BY <1>1, <1>2, <1>3, <1>5, MoveKeeps DEF daemonVars

LEMMA CloseBoyaKeeps == ASSUME IInv, NEW p \in Pages, CloseBoya(p) PROVE IInv'
<1>1. /\ TypeOK /\ Place(p) = "close" /\ Of(p) \in Objects /\ lock[Of(p)] = Nobody
      /\ Move(p, "sign") /\ account' = [account EXCEPT ![Of(p)].token = FALSE]
      /\ UNCHANGED <<listed, lock, loop, daemon, check, incident, age, calm, authLock>>
      /\ UNCHANGED <<file, made, refused, said, budget>>
  BY PageFacts DEF IInv, CloseBoya
<1>2. ~Writes(p) /\ "sign" \in Pcs /\ Kind(p) = "remove"
  BY <1>1 DEF Writes, Pcs, IInv, PlacesFit, PlaceFits, Place, Kind
<1>3. /\ Alike /\ NewTokens /\ ~account'[Of(p)].token
      /\ \A o \in Objects \ {Of(p)} : account'[o] = account[o]
  BY <1>1, TokenStep DEF NewTokens
<1>4. TypeOK'
  BY <1>1, <1>2, <1>3, TypeParts, MoveTyped, PageTyped DEF Alike
<1>5. Shut'
  <2>1. PICK r \in PageType : /\ page' = [page EXCEPT ![p] = r] /\ r.of = Of(p)
    BY <1>1, <1>2, MoveFacts
  <2>2. page'[p] = r /\ \A q \in Pages \ {p} : page'[q] = page[q]
    BY <1>1, <2>1, PageStep
  <2>3. ASSUME NEW o \in Objects, o # Of(p), Closed(o)'
        PROVE  Closed(o)
    BY <1>3, <2>1, <2>2, <2>3 DEF Closed, Kind, Of, Place
  <2>4. ASSUME NEW o \in Objects, o # Of(p), Closed(o)'
        PROVE  account'[o].removed /\ ~account'[o].token /\ lock'[o] # Worker
    BY <1>1, <1>3, <2>3, <2>4 DEF IInv, Shut
  <2>5. account'[Of(p)].removed /\ lock'[Of(p)] # Worker
    BY <1>1, <1>2, <1>3, RegistryAssumption DEF IInv, RemovedOnes, Alike
  <2> QED
    BY <1>3, <2>4, <2>5 DEF Shut
<1> QED
  BY <1>1, <1>2, <1>3, <1>4, <1>5, MoveKeeps

LEMMA DisposedKeeps == ASSUME IInv, NEW p \in Pages, Disposed(p) PROVE IInv'
<1>1. /\ TypeOK /\ Place(p) = "sign" /\ Kind(p) = "remove" /\ Of(p) \in Objects
      /\ account' = [account EXCEPT ![Of(p)].gone = TRUE]
      /\ authLock' = [authLock EXCEPT ![Of(p)] = Nobody] /\ Move(p, "save")
      /\ UNCHANGED <<listed, lock, loop, daemon, check, incident, age, calm>>
      /\ UNCHANGED <<file, made, refused, said, budget>>
  BY PageFacts DEF IInv, Disposed
<1>2. ~Writes(p) /\ "save" \in Pcs
  BY <1>1 DEF Writes, Pcs
<1>3. PICK r \in PageType :
           /\ page' = [page EXCEPT ![p] = r]
           /\ r.pc = "save" /\ r.kind = Kind(p) /\ r.of = Of(p) /\ r.order = Order(p)
  BY <1>1, <1>2, MoveFacts
<1>4. page'[p] = r /\ \A q \in Pages \ {p} : page'[q] = page[q]
  BY <1>1, <1>3, PageStep
<1>5. /\ account' \in [Objects -> Account]
      /\ account'[Of(p)].removed = account[Of(p)].removed
      /\ account'[Of(p)].on = account[Of(p)].on
      /\ account'[Of(p)].token = account[Of(p)].token
      /\ \A o \in Objects \ {Of(p)} : account'[o] = account[o]
  <2> DEFINE row == [account[Of(p)] EXCEPT !.gone = TRUE]
  <2>1. account[Of(p)] \in Account
    BY <1>1, TypeParts
  <2>2. /\ row \in Account /\ row.token = account[Of(p)].token /\ row.on = account[Of(p)].on
        /\ row.removed = account[Of(p)].removed
    BY <2>1 DEF Account
  <2>3. account' = [account EXCEPT ![Of(p)] = row]
    BY <1>1
  <2> HIDE DEF row
  <2> QED
    BY <1>1, <2>2, <2>3, RowStep
<1>6. Of(p) <= made
  BY DEF IInv, Fresh
<1>7. Similar
  BY <1>5, <1>6 DEF Similar
<1>8. authLock' \in [Objects -> Pages \cup {Nobody}]
  BY <1>1, TypeParts
<1>9. TypeOK'
  BY <1>1, <1>2, <1>5, <1>8, TypeParts, MoveTyped, PageTyped
<1>10. LoopHeld'
  BY <1>1, <1>3, LoopStep DEF IInv
<1>11. Shut'
  <2>1. ASSUME NEW o \in Objects, Closed(o)'
        PROVE  Closed(o)
    <3>1. CASE o = Of(p)
      BY <1>1, <3>1 DEF Closed
    <3>2. CASE o # Of(p)
      BY <1>3, <1>4, <1>5, <2>1, <3>2 DEF Closed, Kind, Of, Place
    <3> QED
      BY <3>1, <3>2
  <2>2. \A o \in Objects : /\ account'[o].removed = account[o].removed
                           /\ account'[o].token = account[o].token
    BY <1>5
  <2> QED
    BY <1>1, <2>1, <2>2 DEF IInv, Shut
<1>12. PlaceFits(r) /\ r.of <= made /\ (r.kind = "remove" => account[r.of].removed)
  BY <1>1, <1>3 DEF PlaceFits, IInv, Fresh, RemovedOnes
<1>13. \A s \in Switches :
         r.order[s] # "keep" => (s = "regular" <=> r.kind # "boya") /\ s \notin said'
  BY <1>1, <1>3 DEF IInv, Orderly, SaidOff
<1> QED
  BY <1>1, <1>2, <1>3, <1>7, <1>9, <1>10, <1>11, <1>12, <1>13, QuietPage

LEMMA OrderFacts ==
  ASSUME NEW k \in Kinds, NEW order \in Orders[k]
  PROVE  /\ order \in [Switches -> {"on", "off", "keep"}]
         /\ \A s \in Switches : order[s] # "keep" => (s = "regular" <=> k # "boya")
  BY RegistryAssumption

LEMMA BoyaStartsKeeps == ASSUME IInv, NEW p \in Pages, BoyaStarts(p) PROVE IInv'
<1>1. /\ TypeOK /\ Place(p) = "idle" /\ "boya" \in Kinds /\ listed \in Objects
      /\ budget.requests > 0 /\ budget' = [budget EXCEPT !.requests = @ - 1]
      /\ UNCHANGED <<daemonVars, authLock, file, made, refused>>
  BY DEF IInv, TypeOK, DaemonTypeOK, BoyaStarts, Request
<1>2. PICK order \in Orders["boya"] :
       /\ page' = [page EXCEPT ![p] = [IdlePage EXCEPT !.pc = "lock", !.kind = "boya",
                     !.of = listed, !.acc = listed, !.order = order]]
       /\ said' = said \ Named(order)
  BY DEF BoyaStarts
<1> DEFINE r == [IdlePage EXCEPT !.pc = "lock", !.kind = "boya", !.of = listed,
                                 !.acc = listed, !.order = order]
<1>3. /\ order \in [Switches -> {"on", "off", "keep"}]
      /\ \A s \in Switches : order[s] # "keep" => s # "regular"
  BY <1>1, OrderFacts
<1>4. r \in PageType /\ r.pc = "lock" /\ r.kind = "boya" /\ r.of = listed /\ r.order = order
  BY <1>1, <1>3, IdleFacts DEF PageType, Pcs
<1>5. page' = [page EXCEPT ![p] = r]
  BY <1>2
<1> HIDE DEF r
<1>6. Alike /\ NewTokens
  BY <1>1, SameAlike DEF NewTokens, daemonVars
<1>7. page' \in [Pages -> PageType] /\ said' \subseteq said /\ said' \subseteq Switches
  BY <1>1, <1>2, <1>4, <1>5, PageStep, TypeParts
<1>8. TypeOK'
  BY <1>1, <1>7, TypeParts, BudgetFacts, PageTyped DEF daemonVars
<1>9. LoopHeld' /\ Shut'
  BY <1>1, <1>4, <1>5, <1>6, LoopStep, ShutKept DEF IInv, NewTokens, daemonVars
<1>10. ~Writes(p) /\ PlaceFits(r) /\ r.of <= made
  BY <1>1, <1>4 DEF Writes, PlaceFits, IInv, Fresh, BoyaStarts
<1>11. \A s \in Switches :
         r.order[s] # "keep" => (s = "regular" <=> r.kind # "boya") /\ s \notin said'
  <2>1. ASSUME NEW s \in Switches, r.order[s] # "keep"
        PROVE  s # "regular" /\ s \notin said'
    BY <1>2, <1>3, <1>4, <2>1 DEF Named
  <2> QED
    BY <1>4, <2>1
<1> QED
  BY <1>1, <1>4, <1>5, <1>6, <1>7, <1>8, <1>9, <1>10, <1>11, QuietPage
  DEF daemonVars, Alike, Similar
-----------------------------------------------------------------------------
(* A new object. *)

LEMMA NewFacts ==
  ASSUME TypeOK, NEW on \in [Switches -> BOOLEAN], NewObject(on)
  PROVE  /\ made + 1 \in Objects /\ made' = made + 1 /\ listed' = made + 1
         /\ made \in Nat /\ account' \in [Objects -> Account]
         /\ account'[made + 1] = NewAccount(on)
         /\ \A o \in Objects \ {made + 1} : account'[o] = account[o]
<1>1. made + 1 \in Objects /\ made \in Nat
  BY ObjectFacts, TypeParts DEF NewObject
<1>2. NewAccount(on) \in Account
  BY NewType
<1> QED
  BY <1>1, <1>2, RowStep DEF NewObject

\* Switches that ask for nothing of the daemon, and for nothing that was stopped.
Harmless(on) ==
  /\ on \in [Switches -> BOOLEAN] /\ ~on["select"] /\ ~on["sign"]
  /\ \A s \in said' : ~on[s]

LEMMA NewObjectKeeps ==
  ASSUME IInv, NEW on, Harmless(on), NewObject(on),
         NEW p \in Pages, NEW r \in PageType, page' = [page EXCEPT ![p] = r],
         ~Writes(p), Place(p) # "decide", r.pc \in {"auth", "sso"}, r.kind = "login",
         r.of <= made + 1, said' \subseteq said,
         \A s \in Switches : r.order[s] # "keep" => s = "regular" /\ s \notin said',
         UNCHANGED <<lock, loop, daemon, check, incident, calm, refused>>, TypeOK'
  PROVE  IInv'
<1>1. TypeOK /\ on \in [Switches -> BOOLEAN]
  BY DEF IInv, Harmless
<1>2. page'[p] = r /\ \A q \in Pages \ {p} : page'[q] = page[q]
  BY <1>1, PageStep
<1>3. /\ made + 1 \in Objects /\ made' = made + 1 /\ listed' = made + 1
      /\ made \in Nat /\ account' \in [Objects -> Account]
      /\ account'[made + 1] = NewAccount(on)
      /\ \A o \in Objects \ {made + 1} : account'[o] = account[o]
  BY <1>1, NewFacts
<1>4. /\ ~account'[made + 1].removed /\ ~account'[made + 1].gone
      /\ account'[made + 1].on = on
  BY <1>1, <1>3, NewType
<1>5. \A q \in Pages : Of(q) \in Objects /\ Of(q) \in Nat /\ Of(q) <= made
  BY <1>1, PageFacts, ObjectFacts DEF IInv, Fresh
<1>6. \A q \in Pages : Of(q) # made + 1 /\ account'[Of(q)] = account[Of(q)]
  BY <1>3, <1>5
<1>7. check.of \in Objects /\ check.of \in Nat /\ check.of <= made
  BY <1>1, CheckFacts, ObjectFacts DEF IInv, Fresh
<1>8. \A q \in Pages : /\ Writes(q)' <=> Writes(q) /\ q # p
                       /\ WritesRegular(q)' <=> WritesRegular(q) /\ q # p
  BY <1>2 DEF Writes, WritesRegular, Place, Kind
<1>9. PlacesFit'
  BY <1>2 DEF IInv, PlacesFit, PlaceFits
<1>10. Fresh'
  <2>1. \A q \in Pages : page'[q].of <= made + 1
    BY <1>2, <1>3, <1>5 DEF Of
  <2>2. \A o \in Objects : made + 1 < o => ~account'[o].gone
    BY <1>3, ObjectFacts DEF IInv, Fresh
  <2> QED
    BY <1>3, <1>7, <2>1, <2>2 DEF Fresh, Of
<1>11. LocksHeld'
  BY <1>2, <1>8 DEF IInv, LocksHeld, Working, Of
<1>12. LoopHeld'
  BY <1>1, LoopStep DEF IInv
<1>13. RemovedOnes'
  <2>1. ASSUME NEW q \in Pages, page'[q].kind = "remove"
        PROVE  account'[page'[q].of].removed
    BY <1>2, <1>6, <2>1 DEF IInv, RemovedOnes, Kind, Of
  <2> QED
    BY <1>3, <1>4, <2>1 DEF RemovedOnes, Kind, Of
<1>14. Shut'
  <2>1. ASSUME NEW o \in Objects, Closed(o)'
        PROVE  Closed(o) /\ o # made + 1
    BY <1>2, <1>3, <1>4, <1>6, <2>1 DEF Closed, Kind, Of, Place
  <2> QED
    BY <1>3, <2>1 DEF IInv, Shut
<1>15. Orderly'
  BY <1>2 DEF IInv, Orderly, Order, Kind
<1>16. Changed'
  <2>1. ASSUME NEW q \in Pages, Writes(q)' \/ WritesRegular(q)'
        PROVE  q # p /\ page'[q] = page[q] /\ account'[Of(q)] = account[Of(q)]
    BY <1>2, <1>6, <1>8, <2>1
  <2> QED
    BY <1>8, <2>1 DEF IInv, Changed, Of, Order
<1>17. SaidOff'
  <2>1. ASSUME NEW s \in said' PROVE \A q \in Pages : page'[q].order[s] = "keep"
    <3>1. s \in Switches
      BY <1>1 DEF TypeOK
    <3> QED
      BY <1>2, <3>1, <2>1 DEF IInv, SaidOff, Order
  <2> QED
    BY <1>3, <1>4, <2>1 DEF SaidOff, Order, Harmless
<1>18. PostedOn'
  BY <1>3, <1>7 DEF PostedOn
<1>19. Follows'
  <2>1. ~AnyBoya'
    BY <1>3, <1>4 DEF AnyBoya, Harmless
  <2>2. ASSUME NEW q \in Pages, Writes(q)' PROVE Of(q)' # listed'
    BY <1>2, <1>3, <1>6, <1>8, <2>2 DEF Of
  <2> QED
    BY <2>1, <2>2 DEF Follows
<1>20. CalmTrue'
  BY DEF IInv, CalmTrue
<1> QED
  BY <1>9, <1>10, <1>11, <1>12, <1>13, <1>14, <1>15, <1>16, <1>17, <1>18, <1>19, <1>20
  DEF IInv

LEMMA LoginStartsKeeps == ASSUME IInv, NEW p \in Pages, LoginStarts(p) PROVE IInv'
<1>1. /\ TypeOK /\ Place(p) = "idle" /\ "login" \in Kinds
      /\ budget.requests > 0 /\ budget' = [budget EXCEPT !.requests = @ - 1]
      /\ UNCHANGED <<lock, loop, daemon, check, incident, age, calm, authLock, file, refused>>
  BY DEF IInv, LoginStarts, Request
<1>2. PICK order \in Orders["login"] :
       /\ page' = [page EXCEPT ![p] = [IdlePage EXCEPT !.pc = "auth", !.kind = "login",
            !.of = IF listed = None THEN made + 1 ELSE listed, !.order = order]]
       /\ said' = said \ Named(order)
  BY DEF LoginStarts
<1>3. /\ order \in [Switches -> {"on", "off", "keep"}]
      /\ \A s \in Switches : order[s] # "keep" => s = "regular" /\ s \notin said'
  <2>1. /\ order \in [Switches -> {"on", "off", "keep"}]
        /\ \A s \in Switches : order[s] # "keep" => s = "regular"
    BY <1>1, OrderFacts
  <2> QED
    BY <1>2, <2>1 DEF Named
<1> DEFINE x == IF listed = None THEN made + 1 ELSE listed
           r == [IdlePage EXCEPT !.pc = "auth", !.kind = "login", !.of = x, !.order = order]
<1>4. Off \in [Switches -> BOOLEAN] /\ ~Off["select"] /\ ~Off["sign"]
      /\ \A s \in Switches : ~Off[s]
  BY DEF Off, Switches
<1>5. /\ x \in Objects /\ made' \in Objects /\ listed' \in Objects
      /\ account' \in [Objects -> Account]
  <2>1. CASE listed = None
    BY <1>1, <1>4, <2>1, NewFacts DEF LoginStarts
  <2>2. CASE listed # None
    BY <1>1, <2>2, TypeParts DEF LoginStarts
  <2> QED
    BY <2>1, <2>2
<1>6. r \in PageType /\ r.pc = "auth" /\ r.kind = "login" /\ r.of = x /\ r.order = order
  BY <1>1, <1>3, <1>5, IdleFacts DEF PageType, Pcs
<1>7. page' = [page EXCEPT ![p] = r]
  BY <1>2
<1> HIDE DEF r
<1>8. page' \in [Pages -> PageType] /\ said' \subseteq said /\ said' \subseteq Switches
  BY <1>1, <1>2, <1>6, <1>7, PageStep, TypeParts
<1>9. TypeOK'
  BY <1>1, <1>5, <1>8, TypeParts, BudgetFacts, PageTyped
<1>10. ~Writes(p) /\ Place(p) # "decide"
  BY <1>1 DEF Writes
<1>11. CASE listed = None
  <2>1. NewObject(Off) /\ r.of = made + 1 /\ made \in Nat
    BY <1>1, <1>6, <1>11, TypeParts, ObjectFacts DEF LoginStarts
  <2>2. \A s \in said' : ~Off[s]
    BY <1>4, <1>8
  <2>3. \A s \in Switches : r.order[s] # "keep" => s = "regular" /\ s \notin said'
    BY <1>3, <1>6
  <2>4. r.pc \in {"auth", "sso"} /\ r.of <= made + 1
    <3>1. made + 1 <= made + 1
      BY <2>1
    <3> QED
      BY <1>6, <2>1, <3>1
  <2>5. Harmless(Off)
    BY <1>4, <2>2 DEF Harmless
  <2>6. UNCHANGED <<lock, loop, daemon, check, incident, calm, refused>>
    BY <1>1
  <2> HIDE DEF x
  <2> QED
    BY <1>6, <1>7, <1>8, <1>9, <1>10, <2>1, <2>3, <2>4, <2>5, <2>6, NewObjectKeeps
<1>12. CASE listed # None
  <2>1. UNCHANGED <<account, listed, made>> /\ r.of = listed /\ r.of <= made
    BY <1>6, <1>12 DEF LoginStarts, IInv, Fresh
  <2>2. Alike /\ NewTokens
    BY <1>1, <2>1, SameAlike DEF NewTokens
  <2>3. LoopHeld' /\ Shut'
    BY <1>1, <1>6, <1>7, <2>1, <2>2, LoopStep, ShutKept DEF IInv, NewTokens
  <2>4. PlaceFits(r)
    BY <1>6 DEF PlaceFits
  <2>5. \A s \in Switches :
          r.order[s] # "keep" => (s = "regular" <=> r.kind # "boya") /\ s \notin said'
    BY <1>3, <1>6
  <2> HIDE DEF x
  <2> QED
    BY <1>1, <1>6, <1>7, <1>8, <1>9, <1>10, <2>1, <2>2, <2>3, <2>4, <2>5, QuietPage
    DEF Alike, Similar
<1> QED
  BY <1>11, <1>12

\* A change of the regular switch of x, the account listed or one removed.
LEMMA RegularSteady ==
  ASSUME TypeOK, NEW x \in Objects, NEW on \in [Switches -> BOOLEAN],
         account' = [account EXCEPT ![x].on = on],
         account[x].removed \/ \A s \in Actions : on[s] <=> account[x].on[s]
  PROVE  /\ Steady /\ account'[x].on = on
         /\ \A o \in Objects : /\ account'[o].removed = account[o].removed
                               /\ account'[o].gone = account[o].gone
                               /\ account'[o].token = account[o].token
         /\ \A o \in Objects \ {x} : account'[o] = account[o]
<1>1. /\ account' \in [Objects -> Account]
      /\ account'[x].on = on
      /\ \A o \in Objects : /\ account'[o].removed = account[o].removed
                            /\ account'[o].gone = account[o].gone
                            /\ account'[o].token = account[o].token
      /\ \A o \in Objects \ {x} : account'[o] = account[o]
  BY OnStep
<1>2. ASSUME NEW o \in Objects, ~account[o].removed, NEW s \in Actions
      PROVE  account'[o].on[s] <=> account[o].on[s]
  <2>1. CASE o = x
    BY <1>1, <1>2, <2>1
  <2>2. CASE o # x
    BY <1>1, <2>2
  <2> QED
    BY <2>1, <2>2
<1> QED
  BY <1>1, <1>2 DEF Steady

LEMMA LoginLockedKeeps == ASSUME IInv, NEW p \in Pages, LoginLocked(p) PROVE IInv'
<1> DEFINE x == IF listed = None THEN made + 1 ELSE listed
           r == [page[p] EXCEPT !.pc = "sso", !.acc = x]
<1>1. /\ TypeOK /\ loop = Nobody /\ Place(p) = "sign" /\ Kind(p) = "login"
      /\ UNCHANGED <<lock, loop, daemon, check, incident, age, calm, authLock, file>>
      /\ UNCHANGED <<refused, said, budget>>
  BY DEF IInv, LoginLocked, LoopFree
<1>2. /\ Order(p) \in [Switches -> {"on", "off", "keep"}]
      /\ \A s \in Switches : Order(p)[s] # "keep" => s = "regular" /\ s \notin said
  BY <1>1, PageFacts DEF IInv, Orderly, SaidOff
<1>3. /\ ~Writes(p) /\ Place(p) # "decide" /\ said' \subseteq said /\ said' \subseteq Switches
      /\ \A q \in Pages : ~WritesRegular(q)
  BY <1>1, TypeParts, RegistryAssumption DEF Writes, WritesRegular, IInv, LoopHeld
<1> DEFINE on == [Off EXCEPT !["regular"] = Order(p)["regular"] = "on"]
           now == Applied(Order(p), account[listed].on)
<1>4. Harmless(on)
  <2>1. /\ on \in [Switches -> BOOLEAN] /\ ~on["select"] /\ ~on["sign"]
        /\ on["regular"] <=> Order(p)["regular"] = "on"
    BY DEF Off, Switches
  <2>2. \A s \in said' : s \in Switches /\ Order(p)[s] = "keep"
    BY <1>1, <1>2, <1>3
  <2>3. \A s \in said' : ~on[s]
    BY <2>1, <2>2 DEF Switches
  <2> HIDE DEF on
  <2> QED
    BY <2>1, <2>3 DEF Harmless
<1>5. ASSUME listed # None
      PROVE  /\ listed \in Objects /\ ~account[listed].removed
             /\ now \in [Switches -> BOOLEAN]
             /\ \A s \in Switches : Order(p)[s] = "keep" => now[s] = account[listed].on[s]
             /\ account' = [account EXCEPT ![listed].on = now] /\ UNCHANGED <<listed, made>>
  <2>1. listed \in Objects /\ account[listed].on \in [Switches -> BOOLEAN]
    BY <1>1, <1>5, TypeParts DEF Account
  <2>2. account' = [account EXCEPT ![listed].on = now] /\ UNCHANGED <<listed, made>>
    BY <1>5, <2>1 DEF LoginLocked
  <2>3. ~account[listed].removed
    BY <1>5 DEF IInv, RemovedOnes
  <2> QED
    BY <1>2, <2>1, <2>2, <2>3, AppliedType
<1>6. listed = None => NewObject(on) /\ on \in [Switches -> BOOLEAN]
  BY <1>4 DEF LoginLocked, Harmless
<1> HIDE DEF on, now
<1>7. ASSUME listed # None
      PROVE  /\ Steady /\ account'[listed].on = now
             /\ \A o \in Objects : /\ account'[o].removed = account[o].removed
                                   /\ account'[o].gone = account[o].gone
                                   /\ account'[o].token = account[o].token
  <2>1. \A s \in Actions : now[s] <=> account[listed].on[s]
    BY <1>2, <1>5, <1>7 DEF Actions, Switches
  <2> QED
    BY <1>1, <1>5, <1>7, <2>1, RegularSteady
<1>8. /\ x \in Objects /\ made' \in Objects /\ listed' \in Objects
      /\ account' \in [Objects -> Account]
  <2>1. CASE listed = None
    BY <1>1, <1>6, <2>1, NewFacts
  <2>2. CASE listed # None
    BY <1>1, <1>5, <1>7, <2>2, TypeParts DEF Steady
  <2> QED
    BY <2>1, <2>2
<1>9. /\ r \in PageType /\ r.pc = "sso" /\ r.kind = "login" /\ r.of = Of(p)
      /\ r.order = Order(p)
  BY <1>1, <1>8, PageFacts DEF PageType, Pcs, Kind, Of, Order
<1>10. page' = [page EXCEPT ![p] = r]
  BY DEF LoginLocked
<1> HIDE DEF r, x
<1>11. page' \in [Pages -> PageType]
  BY <1>1, <1>9, <1>10, PageStep
<1>12. TypeOK'
  BY <1>1, <1>3, <1>8, <1>11, TypeParts, PageTyped
<1>13. /\ r.of <= made /\ made \in Nat /\ made <= made + 1 /\ r.of \in Nat
  <2>1. made \in Nat /\ Of(p) \in Nat
    BY <1>1, PageFacts, TypeParts, ObjectFacts
  <2>2. Of(p) <= made
    BY DEF IInv, Fresh
  <2>3. r.of = Of(p)
    BY <1>9
  <2> QED
    BY <2>1, <2>2, <2>3
<1>14. CASE listed = None
  <2>1. r.pc \in {"auth", "sso"} /\ r.of <= made + 1
    BY <1>9, <1>13
  <2>2. \A s \in Switches : r.order[s] # "keep" => s = "regular" /\ s \notin said'
    BY <1>1, <1>2, <1>9
  <2> QED
    BY <1>1, <1>3, <1>4, <1>6, <1>9, <1>10, <1>12, <1>14, <2>1, <2>2, NewObjectKeeps
<1>15. CASE listed # None
  <2>1. page'[p] = r /\ \A q \in Pages \ {p} : page'[q] = page[q]
    BY <1>1, <1>9, <1>10, PageStep
  <2>2. LoopHeld'
    BY <1>1, <1>9, <1>10, LoopStep DEF IInv
  <2>3. Shut'
    BY <1>1, <1>7, <1>9, <1>10, <1>15, ShutHeld DEF IInv
  <2>4. RegularChanged'
    BY <1>3, <1>9, <2>1 DEF RegularChanged, WritesRegular, Place, Kind
  <2>5. SaidOff'
    <3>1. ASSUME NEW s \in said', NEW q \in Pages PROVE page'[q].order[s] = "keep"
      BY <1>1, <1>9, <2>1, <3>1 DEF IInv, SaidOff, Order
    <3>2. ASSUME NEW s \in said' PROVE ~account'[listed].on[s]
      <4>1. s \in Switches /\ Order(p)[s] = "keep" /\ ~account[listed].on[s]
        BY <1>1, <1>3, <1>15, <3>2 DEF IInv, SaidOff
      <4> QED
        BY <1>5, <1>7, <1>15, <4>1
    <3> QED
      BY <1>5, <1>15, <3>1, <3>2 DEF SaidOff, Order
  <2>6. CalmTrue'
    BY <1>1 DEF IInv, CalmTrue
  <2>7. PlaceFits(r)
    BY <1>9 DEF PlaceFits
  <2>8. \A s \in Switches : r.order[s] # "keep" => (s = "regular" <=> r.kind # "boya")
    BY <1>2, <1>9
  <2>9. UNCHANGED <<listed, lock, daemon, check, made, refused>>
    BY <1>1, <1>5, <1>15
  <2> QED
    BY <1>3, <1>7, <1>9, <1>10, <1>12, <1>13, <1>15, <2>2, <2>3, <2>4, <2>5, <2>6, <2>7,
       <2>8, <2>9, SteadyPage
<1> QED
  BY <1>14, <1>15
-----------------------------------------------------------------------------
(* The regular switch, and the daemon's forgetting of a student. *)

LEMMA HooksDoneKeeps == ASSUME IInv, NEW p \in Pages, HooksDone(p) PROVE IInv'
<1>1. /\ TypeOK /\ loop = Nobody /\ Place(p) = "hooks" /\ Of(p) \in Objects
      /\ account' = [account EXCEPT ![Of(p)].on = Off] /\ Forget /\ Move(p, "auth")
      /\ UNCHANGED <<listed, lock, loop, daemon, check, authLock, file, made, refused>>
      /\ UNCHANGED <<said, budget>>
  BY PageFacts DEF IInv, HooksDone, LoopFree
<1>2. /\ ~Writes(p) /\ Place(p) # "decide" /\ "auth" \in Pcs /\ Kind(p) = "remove"
      /\ account[Of(p)].removed
      /\ \A q \in Pages : ~WritesRegular(q)
  BY <1>1, RegistryAssumption
  DEF Writes, WritesRegular, Pcs, IInv, PlacesFit, PlaceFits, Place, Kind, RemovedOnes, LoopHeld
<1>3. PICK r \in PageType :
           /\ page' = [page EXCEPT ![p] = r]
           /\ r.pc = "auth" /\ r.kind = Kind(p) /\ r.of = Of(p) /\ r.order = Order(p)
  BY <1>1, <1>2, MoveFacts
<1>4. page' \in [Pages -> PageType] /\ page'[p] = r
      /\ \A q \in Pages \ {p} : page'[q] = page[q]
  BY <1>1, <1>3, PageStep
<1>5. Off \in [Switches -> BOOLEAN]
  BY DEF Off
<1>6. /\ Steady /\ account'[Of(p)].on = Off
      /\ \A o \in Objects : /\ account'[o].removed = account[o].removed
                            /\ account'[o].gone = account[o].gone
                            /\ account'[o].token = account[o].token
      /\ \A o \in Objects \ {Of(p)} : account'[o] = account[o]
  BY <1>1, <1>2, <1>5, RegularSteady
<1>7. TypeOK'
  <2>1. incident' \in Incident /\ age' \in [Lists -> Ages] /\ calm' \in Ages
    BY <1>1 DEF Forget, NoIncident, Incident, Ages
  <2> QED
    BY <1>1, <1>4, <1>6, <2>1 DEF TypeOK, DaemonTypeOK, Steady, PageType, Pcs
<1>8. LoopHeld'
  BY <1>1, <1>3, LoopStep DEF IInv
<1>9. Shut'
  BY <1>1, <1>3, <1>6, ShutHeld DEF IInv
<1>10. RegularChanged'
  BY <1>2, <1>3, <1>4 DEF RegularChanged, WritesRegular, Place, Kind
<1>11. SaidOff'
  <2>1. ASSUME NEW s \in said', NEW q \in Pages PROVE page'[q].order[s] = "keep"
    BY <1>1, <1>3, <1>4, <2>1 DEF IInv, SaidOff, Order
  <2>2. ASSUME NEW s \in said', listed # None PROVE ~account'[listed].on[s]
    <3>1. listed \in Objects /\ listed # Of(p)
      BY <1>1, <1>2, <2>2, TypeParts DEF IInv, RemovedOnes
    <3> QED
      BY <1>1, <1>6, <2>2, <3>1 DEF IInv, SaidOff
  <2> QED
    BY <1>1, <2>1, <2>2 DEF SaidOff, Order
<1>12. CalmTrue'
  BY <1>1 DEF CalmTrue, Forget, NoIncident
<1>13. /\ PlaceFits(r) /\ r.of <= made /\ (r.kind = "remove" => account[r.of].removed)
       /\ \A s \in Switches : r.order[s] # "keep" => (s = "regular" <=> r.kind # "boya")
  BY <1>2, <1>3 DEF PlaceFits, IInv, Fresh, Orderly
<1>14. UNCHANGED <<listed, lock, daemon, check, made, refused>>
  BY <1>1
<1>15. ~(r.pc = "write" /\ r.kind = "boya")
  BY <1>3
<1> QED
  BY <1>2, <1>3, <1>6, <1>7, <1>8, <1>9, <1>10, <1>11, <1>12, <1>13, <1>14, <1>15, SteadyPage

LEMMA RegularStartsKeeps == ASSUME IInv, NEW p \in Pages, RegularStarts(p) PROVE IInv'
<1>1. /\ TypeOK /\ loop = Nobody /\ Place(p) = "idle" /\ "regular" \in Kinds
      /\ listed \in Objects /\ listed # None /\ loop' = p
      /\ UNCHANGED <<listed, lock, daemon, check, incident, age, calm>>
      /\ UNCHANGED <<authLock, file, made, refused>>
  BY TypeParts DEF IInv, RegularStarts, Request, LoopFree
<1>2. PICK order \in Orders["regular"] :
       LET on == Applied(order, account[listed].on) IN
       /\ account' = [account EXCEPT ![listed].on = on]
       /\ page' = [page EXCEPT ![p] = [IdlePage EXCEPT !.pc = "write", !.kind = "regular",
                     !.of = listed, !.acc = listed, !.order = order,
                     !.prev = account[listed].on, !.image = on]]
       /\ said' = said \ Named(order)
  BY DEF RegularStarts
<1> DEFINE on == Applied(order, account[listed].on)
           r == [IdlePage EXCEPT !.pc = "write", !.kind = "regular",
                     !.of = listed, !.acc = listed, !.order = order,
                     !.prev = account[listed].on, !.image = on]
<1>3. /\ order \in [Switches -> {"on", "off", "keep"}]
      /\ \A s \in Switches : order[s] # "keep" => s = "regular"
  BY <1>1, OrderFacts
<1>4. account[listed].on \in [Switches -> BOOLEAN]
  BY <1>1, TypeParts DEF Account
<1>5. /\ on \in [Switches -> BOOLEAN]
      /\ \A s \in Switches : order[s] = "keep" => on[s] = account[listed].on[s]
      /\ \A s \in Switches : order[s] # "keep" => (on[s] <=> order[s] = "on")
  BY <1>3, <1>4, AppliedType
<1>6. /\ account' = [account EXCEPT ![listed].on = on]
      /\ page' = [page EXCEPT ![p] = r] /\ said' = said \ Named(order)
  BY <1>2
<1> HIDE DEF on
<1>7. /\ r \in PageType /\ r.pc = "write" /\ r.kind = "regular" /\ r.of = listed
      /\ r.order = order
  BY <1>1, <1>3, <1>4, <1>5, IdleFacts DEF PageType, Pcs
<1> HIDE DEF r
<1>8. page' \in [Pages -> PageType] /\ page'[p] = r
      /\ \A q \in Pages \ {p} : page'[q] = page[q]
  BY <1>1, <1>6, <1>7, PageStep
<1>9. \A s \in Actions : s \in Switches /\ order[s] = "keep"
  BY <1>3 DEF Actions, Switches
<1>10. \A s \in Actions : on[s] <=> account[listed].on[s]
  BY <1>5, <1>9
<1>11. /\ Steady /\ account'[listed].on = on
       /\ \A o \in Objects : /\ account'[o].removed = account[o].removed
                             /\ account'[o].gone = account[o].gone
                             /\ account'[o].token = account[o].token
  BY <1>1, <1>5, <1>6, <1>10, RegularSteady
<1>12. TypeOK'
  <2>1. budget' \in [requests : 0..Requests, faults : 0..Faults]
    BY <1>1, BudgetFacts DEF RegularStarts, Request
  <2>2. said' \subseteq Switches /\ account' \in [Objects -> Account]
    BY <1>1, <1>6, <1>11, TypeParts DEF Steady
  <2> QED
    BY <1>1, <1>8, <2>1, <2>2, TypeParts, PageTyped
<1>13. LoopHeld'
  BY <1>1, <1>6, <1>7, LoopStep DEF IInv
<1>14. Shut'
  BY <1>1, <1>6, <1>7, <1>11, ShutHeld DEF IInv
<1>15. RegularChanged'
  <2>1. ASSUME NEW q \in Pages, q # p, WritesRegular(q)' PROVE FALSE
    BY <1>1, <1>8, <2>1, RegistryAssumption
    DEF WritesRegular, IInv, LoopHeld, Place, Kind
  <2>2. order["regular"] = "on" => on["regular"]
    BY <1>5 DEF Switches
  <2> QED
    BY <1>7, <1>8, <1>11, <2>1, <2>2 DEF RegularChanged, Order, Of
<1>16. SaidOff'
  <2>1. ASSUME NEW s \in said'
        PROVE  s \in said /\ s \in Switches /\ order[s] = "keep"
    BY <1>1, <1>6, <2>1, TypeParts DEF Named
  <2>2. ASSUME NEW s \in said', NEW q \in Pages PROVE page'[q].order[s] = "keep"
    BY <1>7, <1>8, <2>1, <2>2 DEF IInv, SaidOff, Order
  <2>3. ASSUME NEW s \in said' PROVE ~account'[listed].on[s]
    <3>1. ~account[listed].on[s]
      BY <1>1, <2>1, <2>3 DEF IInv, SaidOff
    <3> QED
      BY <1>5, <1>11, <2>1, <2>3, <3>1
  <2> QED
    BY <1>1, <2>2, <2>3 DEF SaidOff, Order
<1>17. CalmTrue'
  BY <1>1 DEF IInv, CalmTrue
<1>18. ~Writes(p) /\ Place(p) # "decide" /\ ~(r.pc = "write" /\ r.kind = "boya")
  BY <1>1, <1>7 DEF Writes
<1>19. /\ PlaceFits(r) /\ r.of <= made /\ (r.kind = "remove" => account[r.of].removed)
       /\ \A s \in Switches : r.order[s] # "keep" => (s = "regular" <=> r.kind # "boya")
  BY <1>1, <1>3, <1>7 DEF PlaceFits, IInv, Fresh
<1>20. UNCHANGED <<listed, lock, daemon, check, made, refused>>
  BY <1>1
<1> QED
  BY <1>6, <1>7, <1>11, <1>12, <1>13, <1>14, <1>15, <1>16, <1>17, <1>18, <1>19, <1>20, SteadyPage

\* A stop that is told of is off, and nobody asks for the switch.
LEMMA ToldFacts ==
  ASSUME TypeOK, NEW p \in Pages, NEW s \in Told(p)
  PROVE  /\ s \in Switches /\ listed = Of(p) /\ listed # None /\ ~account[listed].on[s]
         /\ \A q \in Pages \ {p} : Order(q)[s] = "keep"
<1>1. Of(p) # None
  BY PageFacts, RegistryAssumption
<1> QED
  BY <1>1 DEF Told, Stops

LEMMA RegularSavedKeeps == ASSUME IInv, NEW p \in Pages, RegularSaved(p) PROVE IInv'
<1>1. /\ TypeOK /\ Place(p) = "write" /\ Kind(p) = "regular" /\ loop' = Nobody /\ Answer(p)
      /\ UNCHANGED <<listed, lock, daemon, check, incident, age, calm, made, refused>>
  BY DEF IInv, RegularSaved
<1>2. /\ Of(p) \in Objects /\ Order(p) \in [Switches -> {"on", "off", "keep"}]
      /\ page[p].prev \in [Switches -> BOOLEAN]
      /\ page[p].image \in [Switches -> BOOLEAN] \cup {None}
      /\ account[Of(p)].on \in [Switches -> BOOLEAN]
  BY <1>1, PageFacts, TypeParts DEF PageType, Account
<1>3. \A s \in Switches : Order(p)[s] # "keep" => s = "regular"
  BY <1>1 DEF IInv, Orderly
<1>4. /\ ~Writes(p) /\ Place(p) # "decide" /\ loop = p
      /\ \A q \in Pages \ {p} : ~WritesRegular(q)
  BY <1>1 DEF Writes, WritesRegular, IInv, LoopHeld
<1>5. page' = [page EXCEPT ![p] = IdlePage] /\ IdlePage \in PageType
  BY <1>1, AnswerFacts
<1>6. page' \in [Pages -> PageType] /\ page'[p] = IdlePage
      /\ \A q \in Pages \ {p} : page'[q] = page[q]
  BY <1>1, <1>5, PageStep
<1>7. /\ IdlePage.pc = "idle" /\ IdlePage.kind = "login" /\ IdlePage.of <= made
      /\ \A s \in Switches : IdlePage.order[s] = "keep"
  BY <1>1, IdleFacts, ObjectFacts DEF TypeOK
<1> DEFINE on == Restored(Order(p), page[p].prev, account[Of(p)].on)
<1>8. /\ on \in [Switches -> BOOLEAN]
      /\ \A s \in Switches : Order(p)[s] # "on" => on[s] = account[Of(p)].on[s]
  BY <1>2, RestoredType
<1>9. \/ account' = account /\ said' = said \cup Told(p)
      \/ account' = [account EXCEPT ![Of(p)].on = on] /\ said' = said
  BY DEF RegularSaved
<1> HIDE DEF on
<1>10. \A s \in Actions : on[s] <=> account[Of(p)].on[s]
  BY <1>3, <1>8 DEF Actions, Switches
<1>11. /\ Steady
       /\ \A o \in Objects : /\ account'[o].removed = account[o].removed
                             /\ account'[o].gone = account[o].gone
                             /\ account'[o].token = account[o].token
       /\ \A o \in Objects \ {Of(p)} : account'[o] = account[o]
  <2>1. CASE account' = account
    BY <1>1, <2>1, TypeParts DEF Steady
  <2>2. CASE account' = [account EXCEPT ![Of(p)].on = on]
    BY <1>1, <1>2, <1>8, <1>10, <2>2, RegularSteady
  <2> QED
    BY <1>9, <2>1, <2>2
<1>12. TypeOK'
  <2>1. /\ budget' \in [requests : 0..Requests, faults : 0..Faults]
        /\ file' \in [Switches -> BOOLEAN] \cup {None}
    BY <1>1, <1>2, TypeParts, BudgetFacts DEF RegularSaved
  <2>2. said' \subseteq Switches
    BY <1>1, <1>9, TypeParts, ToldFacts
  <2>3. authLock' \in [Objects -> Pages \cup {Nobody}] /\ account' \in [Objects -> Account]
    BY <1>1, <1>11, AnswerFacts DEF Steady
  <2> QED
    BY <1>1, <1>6, <2>1, <2>2, <2>3, TypeParts, PageTyped
<1>13. LoopHeld'
  BY <1>1, <1>4, <1>5, <1>7, LoopStep DEF IInv
<1>14. Shut'
  BY <1>1, <1>5, <1>7, <1>11, ShutHeld DEF IInv
<1>15. RegularChanged'
  BY <1>4, <1>6, <1>7 DEF RegularChanged, WritesRegular, Place, Kind
<1>16. SaidOff'
  <2>1. ASSUME NEW s \in said
        PROVE  /\ \A q \in Pages : page'[q].order[s] = "keep"
               /\ listed # None => ~account'[listed].on[s]
    <3>1. s \in Switches /\ \A q \in Pages : Order(q)[s] = "keep"
      BY <1>1, TypeParts DEF IInv, SaidOff
    <3>2. listed # None => listed \in Objects /\ ~account[listed].on[s]
      BY <1>1, <2>1, TypeParts DEF IInv, SaidOff
    <3>3. \A q \in Pages : page'[q].order[s] = "keep"
      BY <1>6, <1>7, <3>1 DEF Order
    <3>4. account'[Of(p)].on[s] = account[Of(p)].on[s]
      <4>1. CASE account' = account
        BY <4>1
      <4>2. CASE account' = [account EXCEPT ![Of(p)].on = on]
        <5>1. account'[Of(p)].on = on
          BY <1>1, <1>2, <1>8, <4>2, OnStep
        <5> QED
          BY <1>8, <3>1, <5>1
      <4> QED
        BY <1>9, <4>1, <4>2
    <3>5. ASSUME listed # None PROVE ~account'[listed].on[s]
      <4>1. CASE listed = Of(p)
        BY <3>2, <3>4, <3>5, <4>1
      <4>2. CASE listed # Of(p)
        BY <1>11, <3>2, <3>5, <4>2
      <4> QED
        BY <4>1, <4>2
    <3> QED
      BY <3>3, <3>5
  <2>2. ASSUME NEW s \in Told(p), account' = account
        PROVE  /\ \A q \in Pages : page'[q].order[s] = "keep"
               /\ listed # None => ~account'[listed].on[s]
    BY <1>1, <1>6, <1>7, <2>2, ToldFacts DEF Order
  <2>3. ASSUME NEW s \in said'
        PROVE  /\ \A q \in Pages : page'[q].order[s] = "keep"
               /\ listed # None => ~account'[listed].on[s]
    BY <1>9, <2>1, <2>2, <2>3
  <2> QED
    BY <1>1, <2>3 DEF SaidOff, Order
<1>17. CalmTrue'
  BY <1>1 DEF IInv, CalmTrue
<1>18. ~(IdlePage.pc = "write" /\ IdlePage.kind = "boya") /\ PlaceFits(IdlePage)
  BY <1>7 DEF PlaceFits
<1>19. UNCHANGED <<listed, lock, daemon, check, made, refused>>
  BY <1>1
<1> QED
  BY <1>4, <1>5, <1>7, <1>11, <1>12, <1>13, <1>14, <1>15, <1>16, <1>17, <1>18, <1>19, SteadyPage

LEMMA RemoveStartsKeeps == ASSUME IInv, NEW p \in Pages, RemoveStarts(p) PROVE IInv'
<1> DEFINE r == [IdlePage EXCEPT !.pc = "hooks", !.kind = "remove", !.of = listed,
                                 !.acc = listed]
<1>1. /\ TypeOK /\ loop = Nobody /\ Place(p) = "idle" /\ "remove" \in Kinds
      /\ listed \in Objects /\ listed # None /\ listed' = None /\ said' = {}
      /\ UNCHANGED <<lock, loop, daemon, check, incident, age, calm>>
      /\ UNCHANGED <<authLock, file, made, refused>>
  BY TypeParts DEF IInv, RemoveStarts, Request, LoopFree
<1>2. page' = [page EXCEPT ![p] = r]
  BY DEF RemoveStarts
<1>3. /\ r \in PageType /\ r.pc = "hooks" /\ r.kind = "remove" /\ r.of = listed
      /\ \A s \in Switches : r.order[s] = "keep"
  BY <1>1, IdleFacts DEF PageType, Pcs
<1> HIDE DEF r
<1>4. page' \in [Pages -> PageType] /\ page'[p] = r
      /\ \A q \in Pages \ {p} : page'[q] = page[q]
  BY <1>1, <1>2, <1>3, PageStep
<1>5. /\ account' \in [Objects -> Account] /\ account'[listed].removed
      /\ \A o \in Objects : /\ account'[o].gone = account[o].gone
                            /\ account'[o].token = account[o].token
                            /\ account[o].removed => account'[o].removed
      /\ \A o \in Objects \ {listed} : account'[o] = account[o]
  <2> DEFINE row == [account[listed] EXCEPT !.removed = TRUE]
  <2>1. account[listed] \in Account
    BY <1>1, TypeParts
  <2>2. /\ row \in Account /\ row.token = account[listed].token
        /\ row.gone = account[listed].gone /\ row.removed
    BY <2>1 DEF Account
  <2>3. account' = [account EXCEPT ![listed] = row]
    BY DEF RemoveStarts
  <2> HIDE DEF row
  <2> QED
    BY <1>1, <2>2, <2>3, RowStep
<1>6. \A q \in Pages : Of(q) \in Objects
  BY <1>1, PageFacts
<1>7. \A q \in Pages : /\ Writes(q)' <=> Writes(q) /\ q # p
                       /\ WritesRegular(q)' <=> WritesRegular(q) /\ q # p
  BY <1>3, <1>4 DEF Writes, WritesRegular, Place, Kind
<1>8. TypeOK'
  <2>1. budget' \in [requests : 0..Requests, faults : 0..Faults]
    BY <1>1, BudgetFacts DEF RemoveStarts, Request
  <2> QED
    BY <1>1, <1>4, <1>5, <2>1, TypeParts, PageTyped
<1>9. PlacesFit'
  BY <1>3, <1>4 DEF IInv, PlacesFit, PlaceFits
<1>10. Fresh'
  <2>1. listed <= made
    BY <1>1 DEF IInv, Fresh
  <2>2. \A q \in Pages : page'[q].of <= made
    BY <1>3, <1>4, <2>1 DEF IInv, Fresh, Of
  <2> QED
    BY <1>1, <1>5, <2>2 DEF IInv, Fresh, Of
<1>11. LocksHeld'
  BY <1>1, <1>4, <1>7 DEF IInv, LocksHeld, Working, Of
<1>12. LoopHeld'
  BY <1>1, <1>2, <1>3, LoopStep DEF IInv
<1>13. RemovedOnes'
  <2>1. ASSUME NEW q \in Pages, page'[q].kind = "remove"
        PROVE  account'[page'[q].of].removed
    BY <1>3, <1>4, <1>5, <1>6, <2>1 DEF IInv, RemovedOnes, Kind, Of
  <2> QED
    BY <1>1, <2>1 DEF RemovedOnes, Kind, Of
<1>14. Shut'
  <2>1. ASSUME NEW o \in Objects, Closed(o)'
        PROVE  Closed(o)
    BY <1>3, <1>4, <1>5, <2>1 DEF Closed, Kind, Of, Place
  <2> QED
    BY <1>1, <1>5, <2>1 DEF IInv, Shut
<1>15. Orderly'
  BY <1>3, <1>4 DEF IInv, Orderly, Order, Kind
<1>16. Changed'
  <2>1. ASSUME NEW q \in Pages, Writes(q)' \/ WritesRegular(q)', ~account'[Of(q)'].removed
        PROVE  q # p /\ page'[q] = page[q] /\ account'[Of(q)] = account[Of(q)]
    BY <1>4, <1>5, <1>6, <1>7, <2>1 DEF Of
  <2> QED
    BY <1>7, <2>1 DEF IInv, Changed, Of, Order
<1>17. SaidOff'
  BY <1>1 DEF SaidOff
<1>18. PostedOn'
  BY <1>1, CheckFacts, RegistryAssumption DEF PostedOn
<1>19. Follows'
  <2>1. ~AnyBoya'
    BY <1>1 DEF AnyBoya
  <2>2. ASSUME NEW q \in Pages, Writes(q)' PROVE Of(q)' # listed'
    BY <1>1, <1>4, <1>6, <1>7, <2>2, RegistryAssumption DEF Of
  <2> QED
    BY <2>1, <2>2 DEF Follows
<1>20. CalmTrue'
  BY <1>1 DEF IInv, CalmTrue
<1> QED
  BY <1>8, <1>9, <1>10, <1>11, <1>12, <1>13, <1>14, <1>15, <1>16, <1>17, <1>18, <1>19, <1>20
  DEF IInv

LEMMA DecidesKeeps == ASSUME IInv, NEW p \in Pages, Decides(p) PROVE IInv'
<1>1. /\ TypeOK /\ loop = Nobody /\ Place(p) = "decide" /\ Answer(p)
      /\ said' = said \cup Told(p)
      /\ UNCHANGED <<account, listed, lock, loop, check, incident, age, calm>>
      /\ UNCHANGED <<file, made, budget>>
  BY DEF IInv, Decides, LoopFree
<1>2. page' = [page EXCEPT ![p] = IdlePage] /\ IdlePage \in PageType
  BY <1>1, AnswerFacts
<1>3. page' \in [Pages -> PageType] /\ page'[p] = IdlePage
      /\ \A q \in Pages \ {p} : page'[q] = page[q]
  BY <1>1, <1>2, PageStep
<1>4. /\ IdlePage.pc = "idle" /\ IdlePage.kind = "login" /\ IdlePage.of <= made
      /\ \A s \in Switches : IdlePage.order[s] = "keep"
  BY <1>1, IdleFacts, ObjectFacts DEF TypeOK
<1>5. \A q \in Pages : /\ Writes(q)' <=> Writes(q) /\ q # p
                       /\ WritesRegular(q)' <=> WritesRegular(q) /\ q # p
  BY <1>3, <1>4 DEF Writes, WritesRegular, Place, Kind
<1>6. /\ daemon' \in [running : BOOLEAN, alive : BOOLEAN, event : BOOLEAN]
      /\ refused' \in BOOLEAN
      /\ AnyBoya => daemon'.running \/ refused'
  <2>1. daemon \in [running : BOOLEAN, alive : BOOLEAN, event : BOOLEAN]
    BY <1>1 DEF TypeOK, DaemonTypeOK
  <2>2. /\ Started \in [running : BOOLEAN, alive : BOOLEAN, event : BOOLEAN]
        /\ Stopped \in [running : BOOLEAN, alive : BOOLEAN, event : BOOLEAN]
        /\ Started.running
    BY <2>1 DEF Started, Stopped
  <2>3. /\ daemon' = IF AnyBoya /\ ~daemon.running /\ CanStart THEN Started
                     ELSE IF ~AnyBoya /\ daemon.running THEN Stopped ELSE daemon
        /\ refused' = (AnyBoya /\ ~daemon.running /\ ~CanStart)
    BY DEF Decides
  <2>4. refused' \in BOOLEAN
    BY <2>3, Zenon
  <2>5. CASE AnyBoya /\ ~daemon.running /\ CanStart
    BY <2>2, <2>3, <2>4, <2>5
  <2>6. CASE AnyBoya /\ ~daemon.running /\ ~CanStart
    <3>1. refused'
      BY <2>3, <2>6, Zenon
    <3> QED
      BY <2>1, <2>3, <2>4, <2>6, <3>1
  <2>7. CASE AnyBoya /\ daemon.running
    BY <2>1, <2>3, <2>4, <2>7
  <2>8. CASE ~AnyBoya
    BY <2>1, <2>2, <2>3, <2>4, <2>8
  <2> QED
    BY <2>5, <2>6, <2>7, <2>8
<1>7. TypeOK'
  <2>1. said' \subseteq Switches
    BY <1>1, TypeParts, ToldFacts
  <2>2. authLock' \in [Objects -> Pages \cup {Nobody}]
    BY <1>1, AnswerFacts
  <2> QED
    BY <1>1, <1>3, <1>6, <2>1, <2>2 DEF TypeOK, DaemonTypeOK, PageType, Pcs
<1>8. PlacesFit'
  BY <1>3, <1>4 DEF IInv, PlacesFit, PlaceFits
<1>9. Fresh'
  BY <1>1, <1>3, <1>4 DEF IInv, Fresh, Of
<1>10. LocksHeld'
  BY <1>1, <1>3, <1>5 DEF IInv, LocksHeld, Working, Of
<1>11. LoopHeld'
  BY <1>1, <1>2, <1>4, LoopStep DEF IInv
<1>12. RemovedOnes'
  BY <1>1, <1>3, <1>4 DEF IInv, RemovedOnes, Kind, Of
<1>13. Shut'
  BY <1>1, <1>2, <1>4, ShutHeld DEF IInv
<1>14. Orderly'
  BY <1>3, <1>4 DEF IInv, Orderly, Order, Kind
<1>15. Changed'
  BY <1>1, <1>3, <1>5 DEF IInv, Changed, Of, Order
<1>16. SaidOff'
  <2>1. ASSUME NEW s \in said
        PROVE  /\ \A q \in Pages : page'[q].order[s] = "keep"
               /\ listed # None => ~account[listed].on[s]
    <3>1. s \in Switches /\ \A q \in Pages : Order(q)[s] = "keep"
      BY <1>1, TypeParts DEF IInv, SaidOff
    <3> QED
      BY <1>3, <1>4, <2>1, <3>1 DEF IInv, SaidOff, Order
  <2>2. ASSUME NEW s \in Told(p)
        PROVE  /\ \A q \in Pages : page'[q].order[s] = "keep"
               /\ listed # None => ~account[listed].on[s]
    BY <1>1, <1>3, <1>4, <2>2, ToldFacts DEF Order
  <2> QED
    BY <1>1, <2>1, <2>2 DEF SaidOff, Order
<1>17. PostedOn'
  BY <1>1 DEF IInv, PostedOn
<1>18. Follows'
  <2>1. AnyBoya' <=> AnyBoya
    BY <1>1 DEF AnyBoya
  <2>2. AnyBoya => Settled'
    BY <1>6 DEF Settled
  <2>3. ASSUME NEW q \in Pages, Writes(q)', Of(q)' = listed', Stops(Order(q))' = {},
               Wants(page[q].prev)'
        PROVE  AnyBoya
    <3>1. q # p /\ Writes(q)
      BY <1>5, <2>3
    <3>2. page'[q] = page[q]
      BY <1>3, <3>1
    <3>3. Of(q) = listed /\ Stops(Order(q)) = {} /\ Wants(page[q].prev)
      BY <1>1, <2>3, <3>2 DEF Of, Order, Stops, Wants
    <3>4. /\ Order(q) \in [Switches -> {"on", "off", "keep"}]
          /\ page[q].prev \in [Switches -> BOOLEAN] /\ Of(q) \in Objects
      BY <1>1, PageFacts
    <3>5. listed # None /\ ~account[listed].removed
      BY <3>3, <3>4, RegistryAssumption DEF IInv, RemovedOnes
    <3>6. PICK s \in Actions : page[q].prev[s]
      BY <3>3 DEF Wants, Actions
    <3>7. s \in Switches /\ Order(q)[s] \in {"on", "keep"}
      BY <3>3, <3>4, <3>6 DEF Stops, Actions, Switches
    <3>8. Applied(Order(q), page[q].prev)[s]
      BY <3>4, <3>6, <3>7, AppliedType
    <3>9. account[listed].on[s]
      BY <3>1, <3>3, <3>5, <3>8 DEF IInv, Changed
    <3> QED
      BY <3>5, <3>9 DEF AnyBoya, Actions
  <2> QED
    BY <2>1, <2>2, <2>3 DEF Follows
<1>19. CalmTrue'
  BY <1>1 DEF IInv, CalmTrue
<1> QED
  BY <1>7, <1>8, <1>9, <1>10, <1>11, <1>12, <1>13, <1>14, <1>15, <1>16, <1>17, <1>18, <1>19
  DEF IInv
-----------------------------------------------------------------------------
(* The Boya switches. *)

\* The keeper of a lock does nothing on the object that the worker does.
LEMMA LockFacts ==
  ASSUME TypeOK, LocksHeld, NEW o \in Objects, lock[o] # Worker
  PROVE  ~Working(o)
  BY DEF LocksHeld

LEMMA UpdatesChange ==
  ASSUME IInv, NEW p \in Pages, Updates(p), ~account[Of(p)].removed
  PROVE  IInv'
<1> DEFINE x == Of(p)
           on == Applied(Order(p), account[x].on)
           r == [page[p] EXCEPT !.pc = "write", !.prev = account[x].on,
                                !.image = IF listed = x THEN on ELSE Snapshot]
<1>1. /\ TypeOK /\ Place(p) = "lock" /\ lock[x] = Nobody /\ x \in Objects
      /\ account' = [account EXCEPT ![x].on = on] /\ lock' = [lock EXCEPT ![x] = p]
      /\ page' = [page EXCEPT ![p] = r]
      /\ UNCHANGED <<authLock, listed, loop, daemon, check, incident, age, calm>>
      /\ UNCHANGED <<file, made, refused, said, budget>>
  BY PageFacts DEF IInv, Updates
<1>2. /\ Kind(p) = "boya" /\ Nobody # Worker /\ p # Worker /\ Nobody \notin Pages
  BY <1>1, RegistryAssumption DEF IInv, PlacesFit, PlaceFits, Place, Kind
<1>3. /\ Order(p) \in [Switches -> {"on", "off", "keep"}]
      /\ account[x].on \in [Switches -> BOOLEAN]
      /\ Snapshot \in [Switches -> BOOLEAN] \cup {None}
  BY <1>1, PageFacts, TypeParts DEF Account, Snapshot
<1>4. /\ on \in [Switches -> BOOLEAN]
      /\ \A s \in Switches : Order(p)[s] = "keep" => on[s] = account[x].on[s]
  BY <1>3, AppliedType
<1> HIDE DEF on
<1>5. /\ account' \in [Objects -> Account] /\ account'[x].on = on
      /\ \A o \in Objects : /\ account'[o].removed = account[o].removed
                            /\ account'[o].gone = account[o].gone
                            /\ account'[o].token = account[o].token
      /\ \A o \in Objects \ {x} : account'[o] = account[o]
  BY <1>1, <1>4, OnStep
<1>6. /\ r \in PageType /\ r.pc = "write" /\ r.kind = "boya" /\ r.of = x
      /\ r.order = Order(p) /\ r.prev = account[x].on
  BY <1>1, <1>2, <1>3, <1>4, PageFacts DEF PageType, Pcs, Kind, Of, Order
<1> HIDE DEF r
<1>7. page' \in [Pages -> PageType] /\ page'[p] = r
      /\ \A q \in Pages \ {p} : page'[q] = page[q]
  BY <1>1, <1>6, PageStep
<1>8. /\ lock' \in [Objects -> Pages \cup {Worker, Nobody}] /\ lock'[x] = p
      /\ \A o \in Objects \ {x} : lock'[o] = lock[o]
  BY <1>1, TypeParts
<1>9. \A q \in Pages : Of(q) \in Objects
  BY <1>1, PageFacts
<1>10. \A q \in Pages : Writes(q) => q # p /\ Of(q) # x
  BY <1>1, <1>2 DEF Writes, IInv, LocksHeld
<1>11. \A q \in Pages : /\ Writes(q)' <=> Writes(q) \/ q = p
                        /\ WritesRegular(q)' <=> WritesRegular(q) /\ q # p
  BY <1>6, <1>7 DEF Writes, WritesRegular, Place, Kind
<1> HIDE DEF x
<1>12. TypeOK'
  BY <1>1, <1>5, <1>7, <1>8, TypeParts, PageTyped
<1>13. PlacesFit'
  BY <1>6, <1>7 DEF IInv, PlacesFit, PlaceFits
<1>14. Fresh'
  BY <1>1, <1>5, <1>6, <1>7 DEF IInv, Fresh, Of, x
<1>15. LocksHeld'
  <2>1. ASSUME NEW o \in Objects PROVE lock'[o] = Worker <=> Working(o)'
    BY <1>1, <1>2, <1>8, <2>1 DEF IInv, LocksHeld, Working
  <2>2. ASSUME NEW q \in Pages, Writes(q)' PROVE lock'[page'[q].of] = q
    BY <1>6, <1>7, <1>8, <1>9, <1>10, <1>11, <2>2 DEF IInv, LocksHeld, Of
  <2> QED
    BY <2>1, <2>2 DEF LocksHeld, Of
<1>16. LoopHeld'
  BY <1>1, <1>6, LoopStep DEF IInv
<1>17. RemovedOnes'
  <2>1. listed # None => listed \in Objects
    BY <1>1, TypeParts
  <2> QED
    BY <1>1, <1>5, <1>6, <1>7, <1>9, <2>1 DEF IInv, RemovedOnes, Kind, Of
<1>18. Shut'
  <2>1. ASSUME NEW o \in Objects, Closed(o)' PROVE Closed(o)
    BY <1>5, <1>6, <1>7, <2>1 DEF Closed, Kind, Of, Place
  <2> QED
    BY <1>2, <1>5, <1>8, <2>1 DEF IInv, Shut
<1>19. Orderly'
  BY <1>2, <1>6, <1>7 DEF IInv, Orderly, Order, Kind
<1>20. Changed'
  <2>1. ASSUME NEW q \in Pages, WritesRegular(q)', Order(q)'["regular"] = "on",
               ~account'[Of(q)'].removed
        PROVE  account'[Of(q)'].on["regular"]
    <3>1. q # p /\ WritesRegular(q) /\ page'[q] = page[q]
      BY <1>7, <1>11, <2>1
    <3>2. account[Of(q)].on["regular"]
      BY <1>5, <1>9, <2>1, <3>1 DEF IInv, Changed, Of, Order
    <3>3. on["regular"] = account[x].on["regular"]
      <4>1. "regular" \in Switches
        BY DEF Switches
      <4>2. Order(p)["regular"] = "keep"
        BY <1>2, <4>1 DEF IInv, Orderly
      <4> QED
        BY <1>4, <4>1, <4>2
    <3> QED
      BY <1>5, <1>9, <3>1, <3>2, <3>3 DEF Of
  <2>2. ASSUME NEW q \in Pages, Writes(q)', ~account'[Of(q)'].removed, NEW s \in Actions
        PROVE  account'[Of(q)'].on[s] <=> Applied(Order(q)', page'[q].prev)[s]
    <3>1. CASE q = p
      BY <1>5, <1>6, <1>7, <3>1 DEF Of, Order, on
    <3>2. CASE q # p
      <4>1. Writes(q) /\ page'[q] = page[q] /\ Of(q) # x
        BY <1>7, <1>10, <1>11, <2>2, <3>2
      <4> QED
        BY <1>5, <1>9, <2>2, <4>1 DEF IInv, Changed, Of, Order
    <3> QED
      BY <3>1, <3>2
  <2> QED
    BY <2>1, <2>2 DEF Changed
<1>21. SaidOff'
  <2>1. ASSUME NEW s \in said'
        PROVE  s \in said /\ s \in Switches /\ \A q \in Pages : Order(q)[s] = "keep"
    BY <1>1, <2>1, TypeParts DEF IInv, SaidOff
  <2>2. ASSUME NEW s \in said', NEW q \in Pages PROVE page'[q].order[s] = "keep"
    BY <1>6, <1>7, <2>1, <2>2 DEF Order
  <2>3. ASSUME NEW s \in said', listed # None PROVE ~account'[listed].on[s]
    <3>1. listed \in Objects /\ ~account[listed].on[s]
      BY <1>1, <2>1, <2>3, TypeParts DEF IInv, SaidOff
    <3>2. CASE listed = x
      BY <1>4, <1>5, <2>1, <2>3, <3>1, <3>2
    <3>3. CASE listed # x
      BY <1>5, <3>1, <3>3
    <3> QED
      BY <3>2, <3>3
  <2> QED
    BY <1>1, <2>2, <2>3 DEF SaidOff, Order
<1>22. PostedOn'
  <2>1. ASSUME check.pc = "posted", check.of = listed
        PROVE  account'[listed].on[check.action]
    <3>1. listed \in Objects /\ account[listed].on[check.action]
      BY <1>1, <2>1, CheckFacts DEF IInv, PostedOn
    <3>2. listed # x
      BY <1>1, <1>2, <2>1, LockFacts DEF IInv, Working, WorkPlaces
    <3> QED
      BY <1>5, <3>1, <3>2
  <2> QED
    BY <1>1, <2>1 DEF PostedOn
<1>23. Follows'
  <2>1. Settled => Settled'
    BY <1>1, <1>7 DEF Settled, Place
  <2>2. ASSUME AnyBoya', \A q \in Pages : Writes(q)' => Of(q)' # listed'
        PROVE  Settled'
    <3>1. listed # x
      BY <1>1, <1>6, <1>7, <1>11, <2>2 DEF Of
    <3>2. AnyBoya
      BY <1>1, <1>5, <2>2, <3>1, TypeParts DEF AnyBoya
    <3>3. \A q \in Pages : Writes(q) => Of(q) # listed
      BY <1>1, <1>7, <1>10, <1>11, <2>2 DEF Of
    <3> QED
      BY <2>1, <3>2, <3>3 DEF IInv, Follows
  <2>3. ASSUME NEW q \in Pages, Writes(q)', Of(q)' = listed', Stops(Order(q))' = {},
               Wants(page[q].prev)'
        PROVE  Settled'
    <3>1. CASE q = p
      <4>1. listed = x /\ Wants(account[x].on)
        BY <1>1, <1>6, <1>7, <2>3, <3>1 DEF Of, Wants
      <4>2. AnyBoya
        BY <1>1, <4>1, RegistryAssumption DEF AnyBoya, Wants
      <4>3. \A w \in Pages : Writes(w) => Of(w) # listed
        BY <1>10, <4>1
      <4> QED
        BY <2>1, <4>2, <4>3 DEF IInv, Follows
    <3>2. CASE q # p
      <4>1. Writes(q) /\ page'[q] = page[q]
        BY <1>7, <1>11, <2>3, <3>2
      <4>2. Of(q) = listed /\ Stops(Order(q)) = {} /\ Wants(page[q].prev)
        BY <1>1, <2>3, <4>1 DEF Of, Order, Stops, Wants
      <4> QED
        BY <2>1, <4>1, <4>2 DEF IInv, Follows
    <3> QED
      BY <3>1, <3>2
  <2> QED
    BY <2>2, <2>3 DEF Follows
<1>24. CalmTrue'
  BY <1>1 DEF IInv, CalmTrue
<1> QED
  BY <1>12, <1>13, <1>14, <1>15, <1>16, <1>17, <1>18, <1>19, <1>20, <1>21, <1>22, <1>23, <1>24
  DEF IInv

LEMMA UpdatesKeeps == ASSUME IInv, NEW p \in Pages, Updates(p) PROVE IInv'
<1>1. CASE account[Of(p)].removed
  <2>1. /\ TypeOK /\ Place(p) = "lock" /\ Answer(p) /\ UNCHANGED <<account, lock>>
        /\ UNCHANGED <<listed, loop, daemon, check, incident, age, calm>>
        /\ UNCHANGED <<file, made, refused, said, budget>>
    BY <1>1 DEF IInv, Updates
  <2>2. ~Writes(p) /\ Alike /\ NewTokens
    BY <2>1, SameAlike DEF Writes, NewTokens
  <2>3. TypeOK'
    BY <2>1, TypeParts, AnswerTyped, PageTyped
  <2> QED
    BY <2>1, <2>2, <2>3, AnswerKeeps
<1> QED
  BY <1>1, UpdatesChange

\* The three ends of a save: on to the decision, a failure answered, and a
\* failure of a request that was to stop something.
LEMMA BoyaSavedFacts ==
  ASSUME IInv, NEW p \in Pages, BoyaSaved(p)
  PROVE  \E r \in PageType : \E now \in [Switches -> BOOLEAN] :
           /\ page' = [page EXCEPT ![p] = r] /\ account' = [account EXCEPT ![Of(p)].on = now]
           /\ r.of <= made /\ \/ r.pc = "decide" /\ r.kind = "boya"
                              \/ r.pc = "idle" /\ r.kind = "login"
           /\ \A s \in Switches : r.order[s] \in {"keep", Order(p)[s]}
           /\ \A s \in Switches : r.order[s] # "keep" => r.kind = "boya"
           /\ \A s \in Switches : Order(p)[s] # "on" => now[s] = account[Of(p)].on[s]
           /\ r.pc = "idle" =>
                /\ Stops(Order(p)) = {}
                /\ \A s \in Switches : Order(p)[s] = "on" => now[s] = page[p].prev[s]
           /\ authLock' \in [Objects -> Pages \cup {Nobody}]
           /\ file' \in [Switches -> BOOLEAN] \cup {None}
           /\ budget' \in [requests : 0..Requests, faults : 0..Faults]
<1> DEFINE x == Of(p)
           now == Restored(Order(p), page[p].prev, account[x].on)
           q == [page[p] EXCEPT !.pc = "decide", !.prev = Off, !.image = None]
           t == [page[p] EXCEPT !.pc = "decide", !.order = Keep, !.prev = Off, !.image = None]
<1>1. TypeOK /\ Kind(p) = "boya" /\ x \in Objects /\ page[p] \in PageType
  BY PageFacts DEF IInv, BoyaSaved
<1>2. /\ Order(p) \in [Switches -> {"on", "off", "keep"}]
      /\ page[p].prev \in [Switches -> BOOLEAN]
      /\ account[x].on \in [Switches -> BOOLEAN] /\ account[x] \in Account
      /\ page[p].image \in [Switches -> BOOLEAN] \cup {None}
  BY <1>1, PageFacts, TypeParts DEF Account, PageType
<1>3. /\ now \in [Switches -> BOOLEAN]
      /\ \A s \in Switches : Order(p)[s] # "on" => now[s] = account[x].on[s]
      /\ \A s \in Switches : Order(p)[s] = "on" => now[s] = page[p].prev[s]
  BY <1>2, RestoredType
<1>4. /\ Off \in [Switches -> BOOLEAN] /\ Keep \in [Switches -> {"on", "off", "keep"}]
      /\ \A s \in Switches : Keep[s] = "keep"
  BY DEF Off, Keep
<1>5. /\ q \in PageType /\ q.pc = "decide" /\ q.kind = "boya" /\ q.of = x
      /\ q.order = Order(p)
  BY <1>1, <1>4 DEF PageType, Pcs, Kind, Of, Order
<1>6. /\ t \in PageType /\ t.pc = "decide" /\ t.kind = "boya" /\ t.of = x /\ t.order = Keep
  BY <1>1, <1>4 DEF PageType, Pcs, Kind, Of
<1>7. x <= made
  BY DEF IInv, Fresh
<1>8. /\ authLock \in [Objects -> Pages \cup {Nobody}]
      /\ file \in [Switches -> BOOLEAN] \cup {None}
      /\ budget \in [requests : 0..Requests, faults : 0..Faults]
      /\ budget.faults > 0 =>
           [budget EXCEPT !.faults = @ - 1] \in [requests : 0..Requests, faults : 0..Faults]
  BY <1>1, TypeParts, BudgetFacts
<1>9. CASE /\ file' = page[p].image /\ page' = [page EXCEPT ![p] = q]
           /\ UNCHANGED <<account, authLock, budget>>
  <2> DEFINE on == account[x].on
  <2>1. account' = [account EXCEPT ![x].on = on]
    <3>1. [account[x] EXCEPT !.on = account[x].on] = account[x]
      BY <1>2 DEF Account
    <3> QED
      BY <1>1, <1>9, <3>1, TypeParts
  <2>2. \A s \in Switches : q.order[s] \in {"keep", Order(p)[s]}
    BY <1>5
  <2>3. file' \in [Switches -> BOOLEAN] \cup {None}
    BY <1>2, <1>9
  <2> HIDE DEF q
  <2> q \in PageType /\ on \in [Switches -> BOOLEAN]
    BY <1>2, <1>5
  <2> WITNESS q \in PageType
  <2> WITNESS on \in [Switches -> BOOLEAN]
  <2> QED
    BY <1>5, <1>7, <1>8, <1>9, <2>1, <2>2, <2>3
<1>10. CASE /\ budget.faults > 0 /\ budget' = [budget EXCEPT !.faults = @ - 1]
            /\ account' = [account EXCEPT ![x].on = now]
            /\ Stops(Order(p)) = {} /\ Answer(p) /\ UNCHANGED file
  <2>1. page' = [page EXCEPT ![p] = IdlePage] /\ authLock' \in [Objects -> Pages \cup {Nobody}]
    BY <1>1, <1>10, AnswerFacts
  <2>2. /\ IdlePage \in PageType /\ IdlePage.pc = "idle" /\ IdlePage.kind = "login"
        /\ IdlePage.of <= made /\ \A s \in Switches : IdlePage.order[s] = "keep"
    BY <1>1, IdleFacts, ObjectFacts DEF TypeOK
  <2>3. budget' \in [requests : 0..Requests, faults : 0..Faults]
    BY <1>8, <1>10
  <2> HIDE DEF now
  <2> IdlePage \in PageType /\ now \in [Switches -> BOOLEAN]
    BY <1>3, <2>2
  <2> WITNESS IdlePage \in PageType
  <2> WITNESS now \in [Switches -> BOOLEAN]
  <2>4. account' = [account EXCEPT ![Of(p)].on = now] /\ Stops(Order(p)) = {}
    BY <1>10
  <2>5. file' \in [Switches -> BOOLEAN] \cup {None}
    BY <1>8, <1>10
  <2> QED
    BY <1>3, <2>1, <2>2, <2>3, <2>4, <2>5
<1>11. CASE /\ budget.faults > 0 /\ budget' = [budget EXCEPT !.faults = @ - 1]
            /\ account' = [account EXCEPT ![x].on = now]
            /\ page' = [page EXCEPT ![p] = t] /\ UNCHANGED <<authLock, file>>
  <2>1. budget' \in [requests : 0..Requests, faults : 0..Faults]
    BY <1>8, <1>11
  <2>2. /\ account' = [account EXCEPT ![Of(p)].on = now] /\ page' = [page EXCEPT ![p] = t]
        /\ file' \in [Switches -> BOOLEAN] \cup {None}
        /\ authLock' \in [Objects -> Pages \cup {Nobody}]
    BY <1>8, <1>11
  <2> HIDE DEF now, t
  <2> t \in PageType /\ now \in [Switches -> BOOLEAN]
    BY <1>3, <1>6
  <2> WITNESS t \in PageType
  <2> WITNESS now \in [Switches -> BOOLEAN]
  <2> QED
    BY <1>3, <1>4, <1>6, <1>7, <2>1, <2>2
<1> QED
  BY <1>9, <1>10, <1>11 DEF BoyaSaved

LEMMA BoyaSavedKeeps == ASSUME IInv, NEW p \in Pages, BoyaSaved(p) PROVE IInv'
<1> DEFINE x == Of(p)
<1>1. /\ TypeOK /\ Writes(p) /\ Kind(p) = "boya" /\ lock[x] = p /\ x \in Objects
      /\ lock' = [lock EXCEPT ![x] = Nobody]
      /\ UNCHANGED <<listed, loop, daemon, check, incident, age, calm, made, refused, said>>
  BY PageFacts DEF IInv, BoyaSaved, Writes, LocksHeld
<1>2. Nobody # Worker /\ p # Worker /\ Nobody \notin Pages
  BY RegistryAssumption
<1>3. PICK r \in PageType, now \in [Switches -> BOOLEAN] :
           /\ page' = [page EXCEPT ![p] = r] /\ account' = [account EXCEPT ![x].on = now]
           /\ r.of <= made /\ \/ r.pc = "decide" /\ r.kind = "boya"
                              \/ r.pc = "idle" /\ r.kind = "login"
           /\ \A s \in Switches : r.order[s] \in {"keep", Order(p)[s]}
           /\ \A s \in Switches : r.order[s] # "keep" => r.kind = "boya"
           /\ \A s \in Switches : Order(p)[s] # "on" => now[s] = account[x].on[s]
           /\ r.pc = "idle" =>
                /\ Stops(Order(p)) = {}
                /\ \A s \in Switches : Order(p)[s] = "on" => now[s] = page[p].prev[s]
           /\ authLock' \in [Objects -> Pages \cup {Nobody}]
           /\ file' \in [Switches -> BOOLEAN] \cup {None}
           /\ budget' \in [requests : 0..Requests, faults : 0..Faults]
  BY BoyaSavedFacts
<1>4. /\ account' \in [Objects -> Account] /\ account'[x].on = now
      /\ \A o \in Objects : /\ account'[o].removed = account[o].removed
                            /\ account'[o].gone = account[o].gone
                            /\ account'[o].token = account[o].token
      /\ \A o \in Objects \ {x} : account'[o] = account[o]
  BY <1>1, <1>3, OnStep
<1>5. page' \in [Pages -> PageType] /\ page'[p] = r
      /\ \A q \in Pages \ {p} : page'[q] = page[q]
  BY <1>1, <1>3, PageStep
<1>6. /\ lock' \in [Objects -> Pages \cup {Worker, Nobody}] /\ lock'[x] = Nobody
      /\ \A o \in Objects \ {x} : lock'[o] = lock[o]
  BY <1>1, TypeParts
<1>7. \A q \in Pages : Of(q) \in Objects
  BY <1>1, PageFacts
<1>8. \A q \in Pages \ {p} : Writes(q) => Of(q) # x
  BY <1>1 DEF IInv, LocksHeld
<1>9. \A q \in Pages : /\ Writes(q)' <=> Writes(q) /\ q # p
                       /\ WritesRegular(q)' <=> WritesRegular(q) /\ q # p
  BY <1>3, <1>5 DEF Writes, WritesRegular, Place, Kind
<1> HIDE DEF x
<1>10. TypeOK'
  BY <1>1, <1>3, <1>4, <1>5, <1>6, TypeParts, PageTyped
<1>11. PlacesFit'
  BY <1>3, <1>5 DEF IInv, PlacesFit, PlaceFits
<1>12. Fresh'
  BY <1>1, <1>3, <1>4, <1>5 DEF IInv, Fresh, Of
<1>13. LocksHeld'
  <2>1. ASSUME NEW o \in Objects PROVE lock'[o] = Worker <=> Working(o)'
    BY <1>1, <1>2, <1>6, <2>1 DEF IInv, LocksHeld, Working
  <2>2. ASSUME NEW q \in Pages, Writes(q)' PROVE lock'[page'[q].of] = q
    BY <1>5, <1>6, <1>7, <1>8, <1>9, <2>2 DEF IInv, LocksHeld, Of
  <2> QED
    BY <2>1, <2>2 DEF LocksHeld, Of
<1>14. LoopHeld'
  BY <1>1, <1>3, LoopStep DEF IInv
<1>15. RemovedOnes'
  <2>1. listed # None => listed \in Objects
    BY <1>1, TypeParts
  <2> QED
    BY <1>1, <1>3, <1>4, <1>5, <1>7, <2>1 DEF IInv, RemovedOnes, Kind, Of
<1>16. Shut'
  <2>1. ASSUME NEW o \in Objects, Closed(o)' PROVE Closed(o)
    BY <1>3, <1>4, <1>5, <2>1 DEF Closed, Kind, Of, Place
  <2> QED
    BY <1>2, <1>4, <1>6, <2>1 DEF IInv, Shut
<1>17. \A s \in Switches : Order(p)[s] # "keep" => s # "regular"
  BY <1>1 DEF IInv, Orderly
<1>18. Orderly'
  BY <1>3, <1>5, <1>17 DEF IInv, Orderly, Order, Kind
<1>19. Changed'
  <2>1. ASSUME NEW q \in Pages, WritesRegular(q)', Order(q)'["regular"] = "on",
               ~account'[Of(q)'].removed
        PROVE  account'[Of(q)'].on["regular"]
    <3>1. q # p /\ WritesRegular(q) /\ page'[q] = page[q]
      BY <1>5, <1>9, <2>1
    <3>2. account[Of(q)].on["regular"]
      BY <1>4, <1>7, <2>1, <3>1 DEF IInv, Changed, Of, Order
    <3>3. now["regular"] = account[x].on["regular"]
      BY <1>3, <1>17 DEF Switches
    <3> QED
      BY <1>4, <1>7, <3>1, <3>2, <3>3 DEF Of
  <2>2. ASSUME NEW q \in Pages, Writes(q)', ~account'[Of(q)'].removed, NEW s \in Actions
        PROVE  account'[Of(q)'].on[s] <=> Applied(Order(q)', page'[q].prev)[s]
    <3>1. Writes(q) /\ page'[q] = page[q] /\ Of(q) # x
      BY <1>5, <1>8, <1>9, <2>2
    <3> QED
      BY <1>4, <1>7, <2>2, <3>1 DEF IInv, Changed, Of, Order
  <2> QED
    BY <2>1, <2>2 DEF Changed
<1>20. SaidOff'
  <2>1. ASSUME NEW s \in said'
        PROVE  s \in said /\ s \in Switches /\ \A q \in Pages : Order(q)[s] = "keep"
    BY <1>1, <2>1, TypeParts DEF IInv, SaidOff
  <2>2. ASSUME NEW s \in said', NEW q \in Pages PROVE page'[q].order[s] = "keep"
    BY <1>3, <1>5, <2>1, <2>2 DEF Order
  <2>3. ASSUME NEW s \in said', listed # None PROVE ~account'[listed].on[s]
    <3>1. listed \in Objects /\ ~account[listed].on[s]
      BY <1>1, <2>1, <2>3, TypeParts DEF IInv, SaidOff
    <3>2. CASE listed = x
      BY <1>3, <1>4, <2>1, <2>3, <3>1, <3>2
    <3>3. CASE listed # x
      BY <1>4, <3>1, <3>3
    <3> QED
      BY <3>2, <3>3
  <2> QED
    BY <1>1, <2>2, <2>3 DEF SaidOff, Order
<1>21. PostedOn'
  <2>1. ASSUME check.pc = "posted", check.of = listed
        PROVE  account'[listed].on[check.action]
    <3>1. listed \in Objects /\ account[listed].on[check.action]
      BY <1>1, <2>1, CheckFacts DEF IInv, PostedOn
    <3>2. listed # x
      BY <1>1, <1>2, <2>1, LockFacts DEF IInv, Working, WorkPlaces
    <3> QED
      BY <1>4, <3>1, <3>2
  <2> QED
    BY <1>1, <2>1 DEF PostedOn
<1>22. Follows'
  <2>1. Place(p) = "write"
    BY <1>1 DEF Writes
  <2>2. Settled \/ r.pc = "decide" => Settled'
    BY <1>1, <1>5, <2>1 DEF Settled, Place
  <2>3. ASSUME AnyBoya', \A q \in Pages : Writes(q)' => Of(q)' # listed', r.pc = "idle"
        PROVE  Settled'
    <3>1. PICK s \in Actions : listed # None /\ account'[listed].on[s]
      BY <1>1, <2>3 DEF AnyBoya, Actions
    <3>2. s \in Switches /\ listed \in Objects /\ ~account[listed].removed
      BY <1>1, <3>1, TypeParts DEF Actions, Switches, IInv, RemovedOnes
    <3>3. CASE listed = x
      <4>1. Order(p) \in [Switches -> {"on", "off", "keep"}]
            /\ page[p].prev \in [Switches -> BOOLEAN]
        BY <1>1, PageFacts
      <4>2. now[s] /\ Order(p)[s] \in {"on", "keep"}
        BY <1>4, <2>3, <1>3, <3>1, <3>2, <3>3, <4>1 DEF Stops
      <4>3. ASSUME Order(p)[s] = "on" PROVE page[p].prev[s]
        BY <1>3, <2>3, <3>2, <4>2, <4>3
      <4>4. ASSUME Order(p)[s] = "keep" PROVE page[p].prev[s]
        <5>1. account[x].on[s]
          BY <1>3, <3>2, <4>2, <4>4
        <5>2. Applied(Order(p), page[p].prev)[s]
          BY <1>1, <3>2, <3>3, <5>1 DEF IInv, Changed, x
        <5> QED
          BY <3>2, <4>1, <4>4, <5>2, AppliedType
      <4>5. Wants(page[p].prev)
        BY <4>2, <4>3, <4>4 DEF Wants, Actions
      <4>6. Settled
        BY <1>1, <1>3, <2>3, <3>3, <4>5 DEF IInv, Follows, x
      <4> QED
        BY <2>2, <4>6
    <3>4. CASE listed # x
      <4>1. AnyBoya
        BY <1>4, <3>1, <3>2, <3>4 DEF AnyBoya, Actions
      <4>2. \A q \in Pages : Writes(q) => Of(q) # listed
        BY <1>1, <1>5, <1>9, <2>3, <3>4 DEF Of, x
      <4> QED
        BY <2>2, <4>1, <4>2 DEF IInv, Follows
    <3> QED
      BY <3>3, <3>4
  <2>4. ASSUME NEW q \in Pages, Writes(q)', Of(q)' = listed', Stops(Order(q))' = {},
               Wants(page[q].prev)'
        PROVE  Settled'
    <3>1. Writes(q) /\ page'[q] = page[q]
      BY <1>5, <1>9, <2>4
    <3>2. Of(q) = listed /\ Stops(Order(q)) = {} /\ Wants(page[q].prev)
      BY <1>1, <2>4, <3>1 DEF Of, Order, Stops, Wants
    <3> QED
      BY <2>2, <3>1, <3>2 DEF IInv, Follows
  <2> QED
    BY <1>3, <2>2, <2>3, <2>4 DEF Follows
<1>23. CalmTrue'
  BY <1>1 DEF IInv, CalmTrue
<1> QED
  BY <1>10, <1>11, <1>12, <1>13, <1>14, <1>15, <1>16, <1>18, <1>19, <1>20, <1>21, <1>22, <1>23
  DEF IInv
-----------------------------------------------------------------------------
(* The start of the process. *)

\* The file is read, nobody holds anything, and the daemon is as it asks for.
Blank ==
  \E on \in [Switches -> BOOLEAN] :
    /\ listed \in {None, 1} /\ made = 1
    /\ account = [o \in Objects |-> NewAccount(IF o = 1 /\ listed = 1 THEN on ELSE Off)]
    /\ daemon = IF listed = 1 /\ Wants(on) THEN Started
                ELSE [running |-> FALSE, alive |-> FALSE, event |-> FALSE]
    /\ lock = [o \in Objects |-> Nobody] /\ authLock = [o \in Objects |-> Nobody]
    /\ loop = Nobody /\ check = NoCheck /\ incident = NoIncident
    /\ age = [l \in Lists |-> "never"] /\ calm = "never"
    /\ page = [p \in Pages |-> IdlePage] /\ refused = FALSE /\ said = {}
    /\ file \in [Switches -> BOOLEAN] \cup {None}
    /\ budget \in [requests : 0..Requests, faults : 0..Faults]

LEMMA NoCheckFacts ==
  NoCheck \in Check /\ NoCheck.of = 1 /\ NoCheck.pc = "idle" /\ NoCheck.pc \notin WorkPlaces
BY ObjectFacts DEF NoCheck, Check, Actions, Lists, WorkPlaces

LEMMA BlankGood == Blank => IInv
<1> SUFFICES ASSUME Blank PROVE IInv
  OBVIOUS
<1>1. PICK on \in [Switches -> BOOLEAN] :
    /\ listed \in {None, 1} /\ made = 1
    /\ account = [o \in Objects |-> NewAccount(IF o = 1 /\ listed = 1 THEN on ELSE Off)]
    /\ daemon = IF listed = 1 /\ Wants(on) THEN Started
                ELSE [running |-> FALSE, alive |-> FALSE, event |-> FALSE]
    /\ lock = [o \in Objects |-> Nobody] /\ authLock = [o \in Objects |-> Nobody]
    /\ loop = Nobody /\ check = NoCheck /\ incident = NoIncident
    /\ age = [l \in Lists |-> "never"] /\ calm = "never"
    /\ page = [p \in Pages |-> IdlePage] /\ refused = FALSE /\ said = {}
    /\ file \in [Switches -> BOOLEAN] \cup {None}
    /\ budget \in [requests : 0..Requests, faults : 0..Faults]
  BY DEF Blank
<1>2. /\ 1 \in Objects /\ None # 1 /\ Nobody # Worker
  BY ObjectFacts, RegistryAssumption
<1>3. Off \in [Switches -> BOOLEAN]
  BY DEF Off
<1>4. \A o \in Objects : /\ account[o] \in Account /\ ~account[o].removed /\ ~account[o].gone
                         /\ ~account[o].token
  BY <1>1, <1>3, NewType
<1>5. listed = 1 => account[listed].on = on
  BY <1>1, <1>2, NewType
<1>6. \A p \in Pages : /\ page[p] = IdlePage /\ Place(p) = "idle" /\ Kind(p) = "login"
                       /\ Of(p) = 1 /\ \A s \in Switches : Order(p)[s] = "keep"
  BY <1>1, IdleFacts DEF Place, Kind, Of, Order
<1>7. TypeOK
  <2>1. /\ daemon \in [running : BOOLEAN, alive : BOOLEAN, event : BOOLEAN]
        /\ incident \in Incident /\ age \in [Lists -> Ages] /\ calm \in Ages
    BY <1>1 DEF Started, NoIncident, Incident, Ages
  <2>2. check \in Check
    BY <1>1, NoCheckFacts
  <2>3. /\ account \in [Objects -> Account] /\ listed \in Objects \cup {None}
        /\ lock \in [Objects -> Pages \cup {Worker, Nobody}]
        /\ authLock \in [Objects -> Pages \cup {Nobody}] /\ loop \in Pages \cup {Nobody}
        /\ made \in Objects /\ refused \in BOOLEAN /\ said \subseteq Switches
    BY <1>1, <1>2, <1>4
  <2>4. page \in [Pages -> PageType]
    BY <1>1, IdleFacts
  <2> QED
    BY <1>1, <2>1, <2>2, <2>3, <2>4 DEF TypeOK, DaemonTypeOK, PageType, Pcs
<1>8. PlacesFit /\ LoopHeld /\ Orderly /\ Changed /\ SaidOff
  BY <1>1, <1>6
  DEF PlacesFit, PlaceFits, LoopHeld, Orderly, Changed, SaidOff, Writes, WritesRegular, Place, Kind
<1>9. Fresh /\ RemovedOnes /\ Shut
  BY <1>1, <1>2, <1>4, <1>6, NoCheckFacts DEF Fresh, RemovedOnes, Shut, Closed
<1>10. LocksHeld /\ PostedOn
  BY <1>1, <1>2, <1>6, NoCheckFacts DEF LocksHeld, PostedOn, Working, Writes, NoCheck
<1>11. Follows
  <2>1. ASSUME AnyBoya PROVE daemon.running
    <3>1. listed = 1 /\ Wants(on)
      BY <1>1, <1>5, <2>1 DEF AnyBoya, Wants
    <3> QED
      BY <1>1, <3>1 DEF Started
  <2> QED
    BY <1>6, <2>1 DEF Follows, Settled, Writes
<1>12. CalmTrue
  BY <1>1 DEF CalmTrue, NoIncident
<1> QED
  BY <1>7, <1>8, <1>9, <1>10, <1>11, <1>12 DEF IInv

LEMMA InitGood == Init => IInv
<1> SUFFICES ASSUME Init PROVE Blank
  BY BlankGood
<1>1. file \in [Switches -> BOOLEAN]
  BY RegistryAssumption DEF Init
<1>2. account = [o \in Objects |-> NewAccount(IF o = 1 /\ listed = 1 THEN file ELSE Off)]
  BY DEF Init
<1>3. budget \in [requests : 0..Requests, faults : 0..Faults]
  BY RegistryAssumption DEF Init
<1>4. daemon = IF listed = 1 /\ Wants(file) THEN Started
               ELSE [running |-> FALSE, alive |-> FALSE, event |-> FALSE]
  BY DEF Init, Wants
<1> QED
  BY <1>1, <1>2, <1>3, <1>4 DEF Blank, Init, DaemonInit

LEMMA RestartKeeps == ASSUME IInv, Restart PROVE IInv'
<1>1. Blank'
  <2>1. TypeOK /\ None # 1
    BY ObjectFacts, RegistryAssumption DEF IInv
  <2> DEFINE on == IF file = None THEN Off ELSE file
  <2>2. on \in [Switches -> BOOLEAN] /\ (file # None => on = file)
    BY <2>1, TypeParts DEF Off
  <2>3. listed' \in {None, 1} /\ (listed' = 1 <=> file # None)
    BY <2>1 DEF Restart
  <2>4. account' = [o \in Objects |-> NewAccount(IF o = 1 /\ listed' = 1 THEN on ELSE Off)]
    <3>1. \A o \in Objects : (IF o = 1 /\ file # None THEN file ELSE Off)
                             = (IF o = 1 /\ listed' = 1 THEN on ELSE Off)
      BY <2>2, <2>3
    <3>2. account' = [o \in Objects |-> NewAccount(IF o = 1 /\ file # None THEN file ELSE Off)]
      BY DEF Restart
    <3> HIDE DEF on
    <3> QED
      BY <3>1, <3>2
  <2>5. daemon' = IF listed' = 1 /\ Wants(on) THEN Started
                  ELSE [running |-> FALSE, alive |-> FALSE, event |-> FALSE]
    BY <2>2, <2>3 DEF Restart, Wants
  <2>6. /\ made' = 1 /\ lock' = [o \in Objects |-> Nobody]
        /\ authLock' = [o \in Objects |-> Nobody]
        /\ loop' = Nobody /\ check' = NoCheck /\ incident' = NoIncident
        /\ age' = [l \in Lists |-> "never"] /\ calm' = "never"
        /\ page' = [p \in Pages |-> IdlePage] /\ refused' = FALSE /\ said' = {}
        /\ file' = file
    BY DEF Restart, Forget
  <2>7. /\ file' \in [Switches -> BOOLEAN] \cup {None}
        /\ budget' \in [requests : 0..Requests, faults : 0..Faults]
    BY <2>1, TypeParts, BudgetFacts DEF Restart
  <2> HIDE DEF on
  <2> QED
    BY <2>2, <2>3, <2>4, <2>5, <2>6, <2>7 DEF Blank
<1> QED
  BY <1>1, BlankGood, PTL
-----------------------------------------------------------------------------
(* The daemon. *)

\* What a step of the daemon leaves alone, and what it has to see to.
LEMMA DaemonKeeps ==
  ASSUME IInv, UNCHANGED registryVars, UNCHANGED <<listed, loop>>,
         daemon'.running = daemon.running, Alike, TypeOK', LocksHeld', Shut', PostedOn',
         CalmTrue', check'.of <= made
  PROVE  IInv'
<1>1. TypeOK /\ page' = page /\ made' = made /\ refused' = refused /\ said' = said
      /\ listed' = listed /\ loop' = loop
  BY DEF IInv, registryVars
<1>2. \A p \in Pages : Of(p) \in Objects
  BY <1>1, PageFacts
<1>3. listed # None => listed \in Objects
  BY <1>1, TypeParts
<1>4. PlacesFit' /\ LoopHeld' /\ Orderly'
  BY <1>1 DEF IInv, PlacesFit, LoopHeld, Orderly, Place, Kind, Order
<1>5. Fresh'
  BY <1>1 DEF IInv, Fresh, Of, Alike
<1>6. RemovedOnes'
  BY <1>1, <1>2, <1>3 DEF IInv, RemovedOnes, Kind, Of, Alike
<1>7. Changed'
  <2>1. ASSUME NEW p \in Pages
        PROVE  /\ Of(p)' = Of(p) /\ Order(p)' = Order(p) /\ page'[p].prev = page[p].prev
               /\ (Writes(p)' <=> Writes(p)) /\ (WritesRegular(p)' <=> WritesRegular(p))
               /\ account'[Of(p)].removed = account[Of(p)].removed
               /\ account'[Of(p)].on = account[Of(p)].on
    BY <1>1, <1>2 DEF Of, Order, Writes, WritesRegular, Place, Kind, Alike
  <2> QED
    BY <2>1 DEF IInv, Changed
<1>8. SaidOff'
  BY <1>1, <1>3 DEF IInv, SaidOff, Order, Alike
<1>9. Follows'
  <2>1. (AnyBoya' <=> AnyBoya) /\ (Settled' <=> Settled)
    BY <1>1, <1>3 DEF AnyBoya, Settled, Place, Alike
  <2>2. ASSUME NEW p \in Pages
        PROVE  /\ Of(p)' = Of(p) /\ Stops(Order(p))' = Stops(Order(p))
               /\ Wants(page[p].prev)' = Wants(page[p].prev) /\ (Writes(p)' <=> Writes(p))
    BY <1>1 DEF Of, Order, Stops, Wants, Writes, Place, Kind
  <2> QED
    BY <1>1, <2>1, <2>2 DEF IInv, Follows
<1> QED
  BY <1>4, <1>5, <1>6, <1>7, <1>8, <1>9 DEF IInv

\* The lock of the object under check: kept, taken, and freed.
LEMMA LockKept ==
  ASSUME LocksHeld, UNCHANGED <<lock, page>>, \A o \in Objects : Working(o)' <=> Working(o)
  PROVE  LocksHeld'
BY DEF LocksHeld, Writes, Of, Place, Kind

LEMMA LockTook ==
  ASSUME TypeOK, LocksHeld, UNCHANGED page, lock[check.of] \in {Nobody, Worker},
         lock' = [lock EXCEPT ![check.of] = Worker],
         check'.of = check.of, check'.pc \in WorkPlaces
  PROVE  LocksHeld'
<1>1. check.of \in Objects /\ Worker \notin Pages /\ Nobody \notin Pages
  BY CheckFacts, RegistryAssumption
<1>2. lock'[check.of] = Worker /\ \A o \in Objects \ {check.of} : lock'[o] = lock[o]
  BY <1>1, TypeParts
<1>3. ASSUME NEW o \in Objects PROVE lock'[o] = Worker <=> Working(o)'
  BY <1>2, <1>3 DEF LocksHeld, Working
<1>4. ASSUME NEW p \in Pages, Writes(p)' PROVE lock'[Of(p)'] = p
  <2>1. Writes(p) /\ Of(p)' = Of(p) /\ lock[Of(p)] = p /\ Of(p) \in Objects
    BY <1>4, PageFacts DEF LocksHeld, Writes, Of, Place, Kind
  <2> QED
    BY <1>1, <1>2, <2>1
<1> QED
  BY <1>3, <1>4 DEF LocksHeld

LEMMA LockFreed ==
  ASSUME TypeOK, LocksHeld, UNCHANGED page, lock[check.of] \in {Nobody, Worker},
         lock' = [lock EXCEPT ![check.of] = Nobody], check'.pc \notin WorkPlaces
  PROVE  LocksHeld'
<1>1. check.of \in Objects /\ Worker \notin Pages /\ Nobody \notin Pages /\ Nobody # Worker
  BY CheckFacts, RegistryAssumption
<1>2. lock'[check.of] = Nobody /\ \A o \in Objects \ {check.of} : lock'[o] = lock[o]
  BY <1>1, TypeParts
<1>3. ASSUME NEW o \in Objects PROVE lock'[o] = Worker <=> Working(o)'
  BY <1>1, <1>2, <1>3 DEF LocksHeld, Working
<1>4. ASSUME NEW p \in Pages, Writes(p)' PROVE lock'[Of(p)'] = p
  <2>1. Writes(p) /\ Of(p)' = Of(p) /\ lock[Of(p)] = p /\ Of(p) \in Objects
    BY <1>4, PageFacts DEF LocksHeld, Writes, Of, Place, Kind
  <2> QED
    BY <1>1, <1>2, <2>1
<1> QED
  BY <1>3, <1>4 DEF LocksHeld

\* An object that is closed is neither locked nor given a session by the worker.
LEMMA ShutStays ==
  ASSUME TypeOK, Shut, UNCHANGED page, Alike,
         \A o \in Objects : Closed(o) =>
           /\ lock'[o] = Worker => lock[o] = Worker
           /\ account'[o].token => account[o].token
  PROVE  Shut'
<1>1. ASSUME NEW o \in Objects, Closed(o)' PROVE Closed(o)
  BY <1>1 DEF Closed, Alike, Kind, Of, Place
<1> QED
  BY <1>1 DEF Shut, Alike

LEMMA NotClosed ==
  ASSUME TypeOK, Shut, LocksHeld,
         check.pc \in WorkPlaces \/ ~Mine.removed \/ Mine.token
  PROVE  check.of \in Objects /\ ~Closed(check.of)
<1>1. check.of \in Objects
  BY CheckFacts
<1> QED
  BY <1>1 DEF Shut, LocksHeld, Working, Mine

LEMMA CheckTyped ==
  ASSUME TypeOK, UNCHANGED registryVars, UNCHANGED <<listed, loop>>,
         account' \in [Objects -> Account],
         lock' \in [Objects -> Pages \cup {Worker, Nobody}],
         daemon' \in [running : BOOLEAN, alive : BOOLEAN, event : BOOLEAN],
         check' \in Check, incident' \in Incident, age' \in [Lists -> Ages], calm' \in Ages
  PROVE  TypeOK'
BY DEF TypeOK, DaemonTypeOK, registryVars

LEMMA CheckType ==
  ASSUME TypeOK
  PROVE  /\ daemon \in [running : BOOLEAN, alive : BOOLEAN, event : BOOLEAN]
         /\ check \in Check /\ incident \in Incident /\ age \in [Lists -> Ages]
         /\ calm \in Ages
BY DEF TypeOK, DaemonTypeOK

\* A step of the check.
LEMMA CheckMoves ==
  ASSUME IInv, UNCHANGED registryVars, UNCHANGED <<listed, loop, daemon>>, Alike,
         check' \in Check, check'.of <= made, age' \in [Lists -> Ages],
         incident' \in Incident, calm' \in Ages, LocksHeld',
         lock' \in [Objects -> Pages \cup {Worker, Nobody}],
         \A o \in Objects : Closed(o) =>
           /\ lock'[o] = Worker => lock[o] = Worker
           /\ account'[o].token => account[o].token,
         check'.pc = "posted" =>
           \/ check' = check
           \/ Mine.on[check'.action] /\ check'.of = check.of,
         CalmTrue'
  PROVE  IInv'
<1>1. TypeOK /\ page' = page /\ listed' = listed
  BY DEF IInv, registryVars
<1>2. TypeOK'
  BY <1>1, CheckType, CheckTyped DEF Alike
<1>3. Shut'
  BY <1>1, ShutStays DEF IInv
<1>4. PostedOn'
  <2>1. ASSUME check'.pc = "posted", check'.of = listed
        PROVE  account'[listed].on[check'.action]
    <3>1. check.of = listed /\ listed \in Objects /\ account[listed].on[check'.action]
      BY <1>1, <2>1, CheckFacts DEF IInv, PostedOn, Mine
    <3> QED
      BY <3>1 DEF Alike
  <2> QED
    BY <1>1, <2>1 DEF PostedOn
<1> QED
  BY <1>2, <1>3, <1>4, DaemonKeeps

\* ... in which it neither takes nor frees a lock,
LEMMA CheckStays ==
  ASSUME IInv, UNCHANGED registryVars, UNCHANGED <<account, listed, loop, daemon, lock>>,
         check' \in Check, check'.of <= made, age' \in [Lists -> Ages],
         incident' \in Incident, calm' \in Ages, \A o \in Objects : Working(o)' <=> Working(o),
         check'.pc = "posted" =>
           \/ check' = check
           \/ Mine.on[check'.action] /\ check'.of = check.of,
         CalmTrue'
  PROVE  IInv'
<1>1. TypeOK /\ page' = page
  BY DEF IInv, registryVars
<1>2. Alike /\ LocksHeld' /\ lock' \in [Objects -> Pages \cup {Worker, Nobody}]
  BY <1>1, SameAlike, LockKept, TypeParts DEF IInv
<1> QED
  BY <1>2, CheckMoves

\* ... and in which it frees it, or would.
LEMMA CheckFrees ==
  ASSUME IInv, UNCHANGED registryVars, UNCHANGED <<listed, loop, daemon>>, Alike,
         check.pc \in WorkPlaces, FreeLock, check' \in Check, check'.of <= made,
         check'.pc \notin WorkPlaces, age' \in [Lists -> Ages],
         incident' \in Incident, calm' \in Ages,
         \A o \in Objects \ {check.of} : account'[o].token => account[o].token, CalmTrue'
  PROVE  IInv'
<1>1. TypeOK /\ page' = page /\ check.of \in Objects /\ lock[check.of] = Worker
      /\ ~Closed(check.of) /\ Nobody # Worker
  BY CheckFacts, NotClosed, RegistryAssumption
  DEF IInv, registryVars, LocksHeld, Working
<1>2. LocksHeld'
  BY <1>1, LockFreed DEF IInv, FreeLock
<1>3. /\ lock' \in [Objects -> Pages \cup {Worker, Nobody}]
      /\ \A o \in Objects : lock'[o] = Worker => lock[o] = Worker
  BY <1>1, TypeParts DEF FreeLock
<1>4. check'.pc # "posted"
  BY DEF WorkPlaces
<1> QED
  BY <1>1, <1>2, <1>3, <1>4, CheckMoves

LEMMA CheckBounds ==
  ASSUME IInv
  PROVE  /\ TypeOK /\ check \in Check /\ check.of \in Objects /\ check.of <= made /\ 1 <= made
         /\ NoCheck.of <= made /\ CalmTrue
         /\ \A a \in Actions : a \notin WorkPlaces
<1>1. TypeOK /\ check.of <= made /\ CalmTrue
  BY DEF IInv, Fresh
<1>2. 1 <= made
  BY <1>1, TypeParts, ObjectFacts
<1> QED
  BY <1>1, <1>2, CheckType, CheckFacts, NoCheckFacts DEF Actions, WorkPlaces
-----------------------------------------------------------------------------
LEMMA TickKeeps == ASSUME IInv, Tick, UNCHANGED registryVars PROVE IInv'
<1>1. /\ check.pc = "idle" /\ listed \in Objects /\ listed # None
      /\ UNCHANGED <<account, listed, lock, loop, daemon, incident, age, calm>>
      /\ check' = [NoCheck EXCEPT !.pc = "queued", !.of = listed]
  BY TypeParts DEF IInv, Tick, At
<1>2. check' \in Check /\ check'.pc = "queued" /\ check'.of = listed
  BY <1>1, NoCheckFacts DEF Check
<1>3. /\ check'.of <= made /\ CalmTrue'
      /\ age' \in [Lists -> Ages] /\ incident' \in Incident /\ calm' \in Ages
  BY <1>1, <1>2, CheckBounds, CheckType DEF IInv, Fresh, CalmTrue
<1>4. \A o \in Objects : Working(o)' <=> Working(o)
  BY <1>1, <1>2 DEF Working, WorkPlaces
<1> QED
  BY <1>1, <1>2, <1>3, <1>4, CheckStays

LEMMA ThreadEndsKeeps == ASSUME IInv, ThreadEnds, UNCHANGED registryVars PROVE IInv'
<1>1. /\ TypeOK /\ daemon' = [daemon EXCEPT !.alive = FALSE]
      /\ UNCHANGED <<account, listed, lock, loop, check, incident, age, calm>>
      /\ UNCHANGED <<page, made, listed>>
  BY DEF IInv, ThreadEnds, registryVars
<1>2. /\ daemon' \in [running : BOOLEAN, alive : BOOLEAN, event : BOOLEAN]
      /\ daemon'.running = daemon.running
  BY <1>1, CheckType
<1>3. TypeOK' /\ Alike
  BY <1>1, <1>2, CheckType, CheckTyped, TypeParts, SameAlike
<1>4. Shut' /\ LocksHeld'
  BY <1>1, <1>3, ShutStays, LockKept DEF IInv, Working
<1>5. PostedOn' /\ CalmTrue' /\ check'.of <= made
  BY <1>1, CheckBounds DEF IInv, PostedOn, CalmTrue
<1> QED
  BY <1>1, <1>2, <1>3, <1>4, <1>5, DaemonKeeps

LEMMA CoolDownEndsKeeps == ASSUME IInv, CoolDownEnds, UNCHANGED registryVars PROVE IInv'
<1>1. /\ TypeOK /\ incident' = [incident EXCEPT !.cooling = FALSE]
      /\ UNCHANGED <<account, listed, lock, loop, daemon, check, age, calm>>
  BY DEF IInv, CoolDownEnds
<1>2. /\ incident' \in Incident /\ incident'.stable = incident.stable
      /\ incident'.age = incident.age
  BY <1>1, CheckType DEF Incident
<1>3. CalmTrue'
  BY <1>1, <1>2, CheckBounds DEF CalmTrue
<1>4. /\ check' \in Check /\ check'.of <= made /\ check' = check
      /\ age' \in [Lists -> Ages] /\ calm' \in Ages
      /\ \A o \in Objects : Working(o)' <=> Working(o)
  BY <1>1, CheckBounds, CheckType DEF Working
<1> QED
  BY <1>1, <1>2, <1>3, <1>4, CheckStays

LEMMA MinuteKeeps == ASSUME IInv, Minute, UNCHANGED registryVars PROVE IInv'
<1>1. /\ TypeOK /\ incident' = [incident EXCEPT !.age = Aged(@)]
      /\ age' = [l \in Lists |-> Aged(age[l])] /\ calm' = Aged(calm)
      /\ UNCHANGED <<account, listed, lock, loop, daemon, check>>
  BY DEF IInv, Minute
<1>2. \A a \in Ages : Aged(a) \in Ages
  BY DEF Ages, Aged
<1>3. /\ incident' \in Incident /\ incident'.stable = incident.stable
      /\ incident'.age = Aged(incident.age)
  BY <1>1, <1>2, CheckType DEF Incident
<1>4. age' \in [Lists -> Ages] /\ calm' \in Ages
  BY <1>1, <1>2, CheckType
<1>5. CalmTrue'
  BY <1>1, <1>3, CheckBounds DEF CalmTrue, Aged
<1>6. /\ check' \in Check /\ check'.of <= made /\ check' = check
      /\ \A o \in Objects : Working(o)' <=> Working(o)
  BY <1>1, CheckBounds DEF Working
<1> QED
  BY <1>1, <1>3, <1>4, <1>5, <1>6, CheckStays

CheckPcs == {"idle", "queued", "lock", "renew", "read", "preflight",
             "ordinary", "submit", "posted", "end"} \cup Actions

LEMMA GotoFacts ==
  ASSUME TypeOK, NEW place \in CheckPcs, Goto(place)
  PROVE  /\ check' \in Check /\ check'.pc = place /\ check'.of = check.of
         /\ check'.action = check.action
<1>1. check \in Check
  BY CheckType
<1> QED
  BY <1>1 DEF Goto, Check, CheckPcs

LEMMA SameIncident ==
  ASSUME IInv, UNCHANGED <<incident, calm>>
  PROVE  CalmTrue' /\ incident' \in Incident /\ calm' \in Ages
BY CheckBounds, CheckType DEF CalmTrue

LEMMA FailureFacts ==
  ASSUME Failure
  PROVE  CalmTrue' /\ incident' \in Incident /\ calm' \in Ages
BY DEF Failure, CalmTrue, Incident, Ages

LEMMA CheckStartsKeeps == ASSUME IInv, CheckStarts, UNCHANGED registryVars PROVE IInv'
<1>1. /\ TypeOK /\ check.pc = "queued" /\ check \in Check /\ incident \in Incident
      /\ UNCHANGED <<account, listed, lock, loop, daemon, incident, age, calm>>
      /\ \/ check' = [check EXCEPT !.pc = "lock", !.known = incident.open]
         \/ check' = NoCheck
  BY CheckBounds, CheckType DEF CheckStarts, At, EndCheck
<1>2. /\ check' \in Check /\ check'.pc \in {"lock", "idle"} /\ check'.of <= made
  <2>1. CASE check' = [check EXCEPT !.pc = "lock", !.known = incident.open]
    BY <1>1, <2>1, CheckBounds DEF Check, Incident
  <2>2. CASE check' = NoCheck
    BY <2>2, CheckBounds, NoCheckFacts
  <2> QED
    BY <1>1, <2>1, <2>2
<1>3. \A o \in Objects : Working(o)' <=> Working(o)
  BY <1>1, <1>2 DEF Working, WorkPlaces
<1>4. /\ CalmTrue' /\ age' \in [Lists -> Ages] /\ incident' \in Incident /\ calm' \in Ages
  BY <1>1, SameIncident, CheckType
<1> QED
  BY <1>1, <1>2, <1>3, <1>4, CheckStays

LEMMA ToReadingsFacts ==
  ASSUME IInv, ToReadings, UNCHANGED page, lock[check.of] \in {Nobody, Worker}
  PROVE  /\ check' \in Check /\ check'.of = check.of /\ check'.pc \in {"select", "read"}
         /\ LocksHeld' /\ lock' \in [Objects -> Pages \cup {Worker, Nobody}]
         /\ \A o \in Objects \ {check.of} : lock'[o] = lock[o]
<1>1. TypeOK /\ check \in Check /\ check.of \in Objects /\ LocksHeld
  BY CheckBounds DEF IInv
<1>2. \/ FreeLock /\ check' = [check EXCEPT !.pc = "select", !.known = FALSE]
      \/ \E due \in SUBSET Lists :
           /\ lock' = [lock EXCEPT ![check.of] = Worker]
           /\ check' = [check EXCEPT !.pc = "read", !.due = due, !.known = FALSE]
  <2> PICK probe \in {check.known /\ incident.age # "fresh"}
                     \cup IF check.known /\ ~incident.open THEN BOOLEAN ELSE {} :
        LET due == IF probe THEN Lists ELSE {l \in Lists : age[l] # "fresh"} IN
          IF due = {} THEN FreeLock /\ check' = [check EXCEPT !.pc = "select", !.known = FALSE]
          ELSE /\ lock' = [lock EXCEPT ![check.of] = Worker]
               /\ check' = [check EXCEPT !.pc = "read", !.due = due, !.known = FALSE]
    BY DEF ToReadings
  <2> DEFINE due == IF probe THEN Lists ELSE {l \in Lists : age[l] # "fresh"}
  <2>1. due \in SUBSET Lists
    OBVIOUS
  <2>2. CASE due = {}
    BY <2>2
  <2>3. CASE due # {}
    BY <2>1, <2>3
  <2> QED
    BY <2>2, <2>3
<1>3. CASE FreeLock /\ check' = [check EXCEPT !.pc = "select", !.known = FALSE]
  <2>1. check' \in Check /\ check'.of = check.of /\ check'.pc = "select"
    BY <1>1, <1>3 DEF Check, Actions
  <2>2. LocksHeld'
    BY <1>1, <1>3, <2>1, LockFreed DEF FreeLock, WorkPlaces
  <2> QED
    BY <1>1, <1>3, <2>1, <2>2, TypeParts DEF FreeLock
<1>4. ASSUME NEW due \in SUBSET Lists, lock' = [lock EXCEPT ![check.of] = Worker],
             check' = [check EXCEPT !.pc = "read", !.due = due, !.known = FALSE]
      PROVE  /\ check' \in Check /\ check'.of = check.of /\ check'.pc \in {"select", "read"}
             /\ LocksHeld' /\ lock' \in [Objects -> Pages \cup {Worker, Nobody}]
             /\ \A o \in Objects \ {check.of} : lock'[o] = lock[o]
  <2>1. check' \in Check /\ check'.of = check.of /\ check'.pc = "read"
    BY <1>1, <1>4 DEF Check
  <2>2. LocksHeld'
    BY <1>1, <1>4, <2>1, LockTook DEF WorkPlaces
  <2> QED
    BY <1>1, <1>4, <2>1, <2>2, TypeParts
<1> QED
  BY <1>2, <1>3, <1>4

LEMMA LockTakenKeeps == ASSUME IInv, LockTaken, UNCHANGED registryVars PROVE IInv'
<1>1. /\ TypeOK /\ check.pc = "lock" /\ lock[check.of] = Nobody /\ check.of \in Objects
      /\ check \in Check /\ UNCHANGED <<account, listed, loop, daemon, incident, age, calm>>
      /\ page' = page /\ LocksHeld /\ Shut
  BY CheckBounds DEF LockTaken, At, registryVars, IInv
<1>2. /\ CalmTrue' /\ age' \in [Lists -> Ages] /\ incident' \in Incident /\ calm' \in Ages
      /\ Alike /\ check.of <= made
  BY <1>1, SameIncident, CheckType, SameAlike, CheckBounds
<1>3. CASE Mine.token /\ ToReadings
  <2>1. ~Closed(check.of)
    BY <1>1, <1>3, NotClosed
  <2>2. /\ check' \in Check /\ check'.of = check.of /\ check'.pc \in {"select", "read"}
        /\ LocksHeld' /\ lock' \in [Objects -> Pages \cup {Worker, Nobody}]
        /\ \A o \in Objects \ {check.of} : lock'[o] = lock[o]
    BY <1>1, <1>3, ToReadingsFacts
  <2>3. check'.of <= made /\ check'.pc # "posted"
    BY <1>2, <2>2
  <2> QED
    BY <1>1, <1>2, <2>1, <2>2, <2>3, CheckMoves
<1>4. CASE ~RenewalRefused /\ TakeLock /\ Goto("renew")
  <2>1. ~Closed(check.of)
    BY <1>1, <1>4, NotClosed DEF RenewalRefused
  <2>2. "renew" \in CheckPcs
    BY DEF CheckPcs
  <2>3. check' \in Check /\ check'.pc = "renew" /\ check'.of = check.of
    BY <1>1, <1>4, <2>2, GotoFacts
  <2>4. LocksHeld'
    BY <1>1, <1>4, <2>3, LockTook DEF TakeLock, WorkPlaces
  <2>5. /\ lock' \in [Objects -> Pages \cup {Worker, Nobody}]
        /\ \A o \in Objects \ {check.of} : lock'[o] = lock[o]
    BY <1>1, <1>4, TypeParts DEF TakeLock
  <2>6. check'.of <= made /\ check'.pc # "posted"
    BY <1>2, <2>3
  <2> QED
    BY <1>1, <1>2, <2>1, <2>3, <2>4, <2>5, <2>6, CheckMoves
<1>5. CASE check' = NoCheck /\ lock' = lock
  <2>1. \A o \in Objects : Working(o)' <=> Working(o)
    BY <1>1, <1>5, NoCheckFacts DEF Working, WorkPlaces
  <2>2. check' \in Check /\ check'.of <= made /\ check'.pc # "posted"
    BY <1>5, CheckBounds, NoCheckFacts
  <2> QED
    BY <1>1, <1>2, <1>5, <2>1, <2>2, CheckStays
<1> QED
  BY <1>3, <1>4, <1>5 DEF LockTaken, EndCheck

LEMMA RenewedKeeps == ASSUME IInv, Renewed, UNCHANGED registryVars PROVE IInv'
<1>1. /\ TypeOK /\ check.pc = "renew" /\ check.of \in Objects /\ page' = page
      /\ UNCHANGED <<listed, loop, daemon, incident, age, calm>> /\ LocksHeld /\ Shut
  BY CheckBounds DEF Renewed, At, registryVars, IInv
<1>2. /\ CalmTrue' /\ age' \in [Lists -> Ages] /\ incident' \in Incident /\ calm' \in Ages
      /\ check.of <= made
  BY <1>1, SameIncident, CheckType, CheckBounds
<1>3. check.pc \in WorkPlaces /\ lock[check.of] = Worker
  BY <1>1 DEF LocksHeld, Working, WorkPlaces
<1>4. ~Closed(check.of)
  BY <1>1, <1>3, NotClosed
<1>5. CASE account' = [account EXCEPT ![check.of].token = TRUE] /\ ToReadings
  <2>1. /\ check' \in Check /\ check'.of = check.of /\ check'.pc \in {"select", "read"}
        /\ LocksHeld' /\ lock' \in [Objects -> Pages \cup {Worker, Nobody}]
        /\ \A o \in Objects \ {check.of} : lock'[o] = lock[o]
    BY <1>1, <1>3, <1>5, ToReadingsFacts
  <2>2. Alike /\ \A o \in Objects \ {check.of} : account'[o] = account[o]
    BY <1>1, <1>5, TokenStep
  <2>3. check'.of <= made /\ check'.pc # "posted"
    BY <1>2, <2>1
  <2> QED
    BY <1>1, <1>2, <1>4, <2>1, <2>2, <2>3, CheckMoves
<1>6. ASSUME NEW input \in BOOLEAN,
             account' = [account EXCEPT ![check.of].input = @ \/ input], FreeLock, EndCheck
      PROVE  IInv'
  <2>1. Alike /\ \A o \in Objects : account'[o].token = account[o].token
    <3> DEFINE i == account[check.of].input \/ input
               row == [account[check.of] EXCEPT !.input = i]
    <3>1. account[check.of] \in Account /\ i \in BOOLEAN
      BY <1>1, TypeParts
    <3>2. account' = [account EXCEPT ![check.of] = row]
      BY <1>6
    <3> HIDE DEF i
    <3>3. /\ row \in Account /\ row.token = account[check.of].token
          /\ row.on = account[check.of].on /\ row.removed = account[check.of].removed
          /\ row.gone = account[check.of].gone
      BY <3>1 DEF Account
    <3> HIDE DEF row
    <3> QED
      BY <1>1, <3>2, <3>3, RowStep DEF Alike
  <2>2. check' \in Check /\ check'.of <= made /\ check'.pc \notin WorkPlaces
    BY <1>6, CheckBounds, NoCheckFacts DEF EndCheck
  <2> QED
    BY <1>1, <1>2, <1>3, <1>6, <2>1, <2>2, CheckFrees
<1> QED
  BY <1>5, <1>6 DEF Renewed

LEMMA ListReadKeeps == ASSUME IInv, ListRead, UNCHANGED registryVars PROVE IInv'
<1> DEFINE l == IF "selected" \in check.due THEN "selected" ELSE "pool"
           left == check.due \ {l}
           next == IF left = {} THEN "select" ELSE "read"
<1>1. /\ TypeOK /\ check.pc = "read" /\ check \in Check /\ check.of \in Objects
      /\ age' = [age EXCEPT ![l] = "fresh"]
      /\ check' = [check EXCEPT !.due = left, !.got = @ \cup {l}, !.pc = next]
      /\ IF left = {} THEN FreeLock ELSE UNCHANGED lock
      /\ UNCHANGED <<account, listed, loop, daemon, incident, calm>>
  BY CheckBounds DEF ListRead, At
<1>2. l \in Lists /\ left \in SUBSET Lists /\ next \in {"select", "read"}
  BY <1>1 DEF Check, Lists
<1>3. age' \in [Lists -> Ages]
  BY <1>1, <1>2, CheckType DEF Ages
<1>4. CalmTrue' /\ incident' \in Incident /\ calm' \in Ages
  BY <1>1, SameIncident
<1>5. next = "read" \/ left = {}
  OBVIOUS
<1> HIDE DEF l, left, next
<1>6. /\ check' \in Check /\ check'.pc = next /\ check'.of = check.of
  BY <1>1, <1>2 DEF Check, Actions
<1>7. check.pc \in WorkPlaces /\ check'.of <= made /\ check'.pc # "posted"
  BY <1>1, <1>2, <1>6, CheckBounds DEF WorkPlaces
<1>8. CASE left = {}
  <2>1. FreeLock /\ Alike /\ \A o \in Objects : account'[o].token = account[o].token
    BY <1>1, <1>8, SameAlike
  <2>2. CASE next = "select"
    <3>1. check'.pc \notin WorkPlaces
      BY <1>6, <2>2 DEF WorkPlaces
    <3> QED
      BY <1>1, <1>3, <1>4, <1>6, <1>7, <2>1, <3>1, CheckFrees
  <2>3. next = "select"
    BY <1>8 DEF next
  <2> QED
    BY <2>2, <2>3
<1>9. CASE left # {}
  <2>1. next = "read" /\ UNCHANGED lock
    BY <1>1, <1>5, <1>9
  <2>2. \A o \in Objects : Working(o)' <=> Working(o)
    BY <1>1, <1>6, <2>1 DEF Working, WorkPlaces
  <2> QED
    BY <1>1, <1>3, <1>4, <1>6, <1>7, <2>1, <2>2, CheckStays
<1> QED
  BY <1>8, <1>9

LEMMA ReadFailsKeeps == ASSUME IInv, ReadFails, UNCHANGED registryVars PROVE IInv'
<1>1. /\ TypeOK /\ check.pc = "read" /\ check.of \in Objects /\ FreeLock /\ EndCheck
      /\ UNCHANGED <<listed, loop, daemon, age>>
  BY CheckBounds DEF ReadFails, At
<1>2. /\ check' \in Check /\ check'.of <= made /\ check'.pc \notin WorkPlaces
      /\ check.pc \in WorkPlaces /\ age' \in [Lists -> Ages]
  BY <1>1, CheckBounds, CheckType, NoCheckFacts DEF EndCheck, WorkPlaces
<1>3. CASE Failure /\ UNCHANGED account
  <2>1. Alike /\ \A o \in Objects : account'[o].token = account[o].token
    BY <1>1, <1>3, SameAlike
  <2> QED
    BY <1>1, <1>2, <1>3, <2>1, FailureFacts, CheckFrees
<1>4. ASSUME NEW token \in BOOLEAN, account' = [account EXCEPT ![check.of].token = token],
             UNCHANGED <<incident, calm>>
      PROVE  IInv'
  <2>1. Alike /\ \A o \in Objects \ {check.of} : account'[o] = account[o]
    BY <1>1, <1>4, TokenStep
  <2> QED
    BY <1>1, <1>2, <1>4, <2>1, SameIncident, CheckFrees
<1> QED
  BY <1>3, <1>4 DEF ReadFails

LEMMA ActionBeginsKeeps ==
  ASSUME IInv, NEW a \in Actions, ActionBegins(a), UNCHANGED registryVars PROVE IInv'
<1>1. /\ TypeOK /\ Permits(a) /\ TakeLock /\ check \in Check /\ check.of \in Objects
      /\ check' = [check EXCEPT !.pc = "preflight", !.action = a]
      /\ UNCHANGED <<account, listed, loop, daemon, incident, age, calm>>
      /\ page' = page /\ LocksHeld /\ Shut
  BY CheckBounds DEF ActionBegins, registryVars, IInv
<1>2. check' \in Check /\ check'.pc = "preflight" /\ check'.of = check.of
  BY <1>1 DEF Check
<1>3. ~Closed(check.of)
  BY <1>1, NotClosed DEF Permits, Active
<1>4. LocksHeld'
  BY <1>1, <1>2, LockTook DEF TakeLock, WorkPlaces
<1>5. /\ lock' \in [Objects -> Pages \cup {Worker, Nobody}]
      /\ \A o \in Objects \ {check.of} : lock'[o] = lock[o]
  BY <1>1, TypeParts DEF TakeLock
<1>6. /\ check'.of <= made /\ check'.pc # "posted" /\ age' \in [Lists -> Ages] /\ Alike
  BY <1>1, <1>2, CheckBounds, CheckType, SameAlike
<1> QED
  BY <1>1, <1>2, <1>3, <1>4, <1>5, <1>6, SameIncident, CheckMoves

LEMMA ToNextFacts ==
  ASSUME IInv, NEW a \in Actions, ToNext(a)
  PROVE  check' \in Check /\ check'.pc \notin WorkPlaces /\ check'.of <= made
<1> DEFINE next == IF a = "select" THEN "sign" ELSE "end"
<1>1. check' = [check EXCEPT !.pc = next, !.action = "select"] /\ next \in {"sign", "end"}
  BY DEF ToNext
<1> HIDE DEF next
<1>2. check' \in Check /\ check'.pc = next /\ check'.of = check.of
  BY <1>1, CheckBounds DEF Check, Actions
<1> QED
  BY <1>1, <1>2, CheckBounds DEF WorkPlaces

LEMMA NoneLeftKeeps ==
  ASSUME IInv, NEW a \in Actions, NoneLeft(a), UNCHANGED registryVars PROVE IInv'
<1>1. /\ TypeOK /\ check.pc = a /\ ToNext(a)
      /\ UNCHANGED <<account, listed, lock, loop, daemon, incident, age, calm>>
  BY CheckBounds DEF NoneLeft, At
<1>2. check' \in Check /\ check'.pc \notin WorkPlaces /\ check'.of <= made
      /\ check.pc \notin WorkPlaces
  BY <1>1, ToNextFacts, CheckBounds
<1>3. \A o \in Objects : Working(o)' <=> Working(o)
  BY <1>2 DEF Working
<1>4. check'.pc # "posted" /\ age' \in [Lists -> Ages]
  BY <1>1, <1>2, CheckType DEF WorkPlaces
<1> QED
  BY <1>1, <1>2, <1>3, <1>4, SameIncident, CheckStays

\* The worker leaves an action.
LEMMA LeaveKeeps ==
  ASSUME IInv, UNCHANGED registryVars, UNCHANGED <<account, listed, loop, daemon, age>>,
         check.pc \in WorkPlaces, FreeLock,
         check' \in Check, check'.of <= made, check'.pc \notin WorkPlaces,
         UNCHANGED <<incident, calm>> \/ Failure
  PROVE  IInv'
<1>1. TypeOK
  BY DEF IInv
<1>2. /\ Alike /\ age' \in [Lists -> Ages]
      /\ \A o \in Objects : account'[o].token = account[o].token
  BY <1>1, SameAlike, CheckType
<1>3. CalmTrue' /\ incident' \in Incident /\ calm' \in Ages
  BY SameIncident, FailureFacts
<1> QED
  BY <1>2, <1>3, CheckFrees

LEMMA ActionRefusedKeeps == ASSUME IInv, ActionRefused, UNCHANGED registryVars PROVE IInv'
<1>1. /\ check.pc \in WorkPlaces /\ FreeLock /\ check \in Check /\ check.action \in Actions
      /\ check' = [check EXCEPT !.pc = check.action, !.action = "select"]
      /\ UNCHANGED <<account, listed, loop, daemon, incident, age, calm>>
  BY CheckBounds, CheckFacts DEF ActionRefused, WorkPlaces
<1>2. check' \in Check /\ check'.pc = check.action /\ check'.of = check.of
  BY <1>1 DEF Check, Actions
<1>3. check'.of <= made /\ check'.pc \notin WorkPlaces
  BY <1>1, <1>2, CheckBounds
<1> QED
  BY <1>1, <1>2, <1>3, LeaveKeeps

LEMMA ActionFailsKeeps == ASSUME IInv, ActionFails, UNCHANGED registryVars PROVE IInv'
<1>1. /\ check.pc \in WorkPlaces /\ FreeLock /\ check' = NoCheck /\ Failure
      /\ UNCHANGED <<account, listed, loop, daemon, age>>
  BY DEF ActionFails, WorkPlaces, EndCheck
<1>2. check' \in Check /\ check'.of <= made /\ check'.pc \notin WorkPlaces
  BY <1>1, CheckBounds, NoCheckFacts
<1> QED
  BY <1>1, <1>2, LeaveKeeps

\* The worker goes on with an action, lock in hand.
LEMMA GoOnKeeps ==
  ASSUME IInv, UNCHANGED registryVars,
         UNCHANGED <<account, listed, lock, loop, daemon, incident, age, calm>>,
         check.pc \in WorkPlaces, NEW place \in CheckPcs, place \in WorkPlaces, Goto(place),
         place = "posted" => Mine.on[check.action]
  PROVE  IInv'
<1>1. /\ check' \in Check /\ check'.pc = place /\ check'.of = check.of
      /\ check'.action = check.action
  BY CheckBounds, GotoFacts
<1>2. \A o \in Objects : Working(o)' <=> Working(o)
  BY <1>1 DEF Working
<1>3. check'.of <= made /\ age' \in [Lists -> Ages]
  BY <1>1, CheckBounds, CheckType
<1> QED
  BY <1>1, <1>2, <1>3, SameIncident, CheckStays

LEMMA PreflightRepliesKeeps ==
  ASSUME IInv, PreflightReplies, UNCHANGED registryVars PROVE IInv'
<1> DEFINE place == IF check.action = "select" THEN "ordinary" ELSE "submit"
<1>1. /\ check.pc = "preflight" /\ Goto(place)
      /\ UNCHANGED <<account, listed, lock, loop, daemon, incident, age, calm>>
  BY DEF PreflightReplies, At
<1>2. place \in CheckPcs /\ place \in WorkPlaces /\ check.pc \in WorkPlaces
      /\ place # "posted"
  BY <1>1 DEF CheckPcs, WorkPlaces
<1> HIDE DEF place
<1> QED
  BY <1>1, <1>2, GoOnKeeps

LEMMA OrdinaryRepliesKeeps ==
  ASSUME IInv, OrdinaryReplies, UNCHANGED registryVars PROVE IInv'
<1>1. /\ check.pc \in WorkPlaces /\ Goto("submit")
      /\ UNCHANGED <<account, listed, lock, loop, daemon, incident, age, calm>>
  BY DEF OrdinaryReplies, At, WorkPlaces
<1>2. "submit" \in CheckPcs /\ "submit" \in WorkPlaces
  BY DEF CheckPcs, WorkPlaces
<1> QED
  BY <1>1, <1>2, GoOnKeeps

LEMMA OrdinaryFailsKeeps ==
  ASSUME IInv, OrdinaryFails, UNCHANGED registryVars PROVE IInv'
<1>1. /\ check.pc \in WorkPlaces /\ FreeLock /\ Goto("select")
      /\ UNCHANGED <<account, listed, loop, daemon, incident, age, calm>>
  BY DEF OrdinaryFails, At, WorkPlaces
<1>2. "select" \in CheckPcs /\ "select" \notin WorkPlaces
  BY DEF CheckPcs, WorkPlaces, Actions
<1>3. check' \in Check /\ check'.pc = "select" /\ check'.of = check.of
  BY <1>1, <1>2, CheckBounds, GotoFacts
<1>4. check'.of <= made /\ check'.pc \notin WorkPlaces
  BY <1>2, <1>3, CheckBounds
<1> QED
  BY <1>1, <1>3, <1>4, LeaveKeeps

LEMMA SubmitKeeps == ASSUME IInv, Submit, UNCHANGED registryVars PROVE IInv'
<1>1. /\ check.pc \in WorkPlaces /\ Goto("posted") /\ Mine.on[check.action]
      /\ UNCHANGED <<account, listed, lock, loop, daemon, incident, age, calm>>
  BY DEF Submit, At, WorkPlaces, Permits
<1>2. "posted" \in CheckPcs /\ "posted" \in WorkPlaces
  BY DEF CheckPcs, WorkPlaces
<1> QED
  BY <1>1, <1>2, GoOnKeeps

LEMMA PostPendingKeeps == ASSUME IInv, PostPending, UNCHANGED registryVars PROVE IInv'
<1>1. /\ check.pc \in WorkPlaces /\ FreeLock /\ check.action \in Actions
      /\ ToNext(check.action)
      /\ UNCHANGED <<account, listed, loop, daemon, incident, age, calm>>
  BY CheckBounds, CheckFacts DEF PostPending, At, WorkPlaces
<1>2. check' \in Check /\ check'.of <= made /\ check'.pc \notin WorkPlaces
  BY <1>1, ToNextFacts
<1> QED
  BY <1>1, <1>2, LeaveKeeps

LEMMA CheckEndsKeeps == ASSUME IInv, CheckEnds, UNCHANGED registryVars PROVE IInv'
<1>1. /\ TypeOK /\ check.pc = "end" /\ check' = NoCheck
      /\ \/ Recovered /\ calm' = IF calm = "never" THEN "fresh" ELSE calm
         \/ UNCHANGED <<incident, calm>>
      /\ UNCHANGED <<account, listed, lock, loop, daemon, age>>
  BY CheckBounds DEF CheckEnds, At, EndCheck
<1>2. /\ check' \in Check /\ check'.of <= made /\ check'.pc # "posted"
      /\ age' \in [Lists -> Ages] /\ \A o \in Objects : Working(o)' <=> Working(o)
  BY <1>1, CheckBounds, CheckType, NoCheckFacts DEF Working, WorkPlaces
<1>3. CalmTrue' /\ incident' \in Incident /\ calm' \in Ages
  <2>1. CASE UNCHANGED <<incident, calm>>
    BY <2>1, SameIncident
  <2>2. CASE Recovered /\ calm' = IF calm = "never" THEN "fresh" ELSE calm
    <3>1. incident \in Incident /\ calm \in Ages /\ CalmTrue
      BY CheckBounds, CheckType
    <3>2. calm' \in {"fresh", "old"} /\ calm' \in Ages /\ (calm = "old" => calm' = "old")
      BY <2>2, <3>1 DEF Ages
    <3>3. CASE incident' = incident
      BY <3>1, <3>2, <3>3 DEF CalmTrue
    <3>4. CASE incident' = NoIncident
      BY <3>2, <3>4 DEF CalmTrue, NoIncident, Incident, Ages
    <3>5. CASE incident' = [incident EXCEPT !.stable = 1, !.age = "fresh"]
      <4>1. incident' \in Incident /\ incident'.age = "fresh"
        <5> DEFINE row == [incident EXCEPT !.stable = 1, !.age = "fresh"]
        <5>1. 1 \in 0..1 /\ "fresh" \in Ages
          BY DEF Ages
        <5>2. row \in Incident
          BY <3>1, <5>1 DEF Incident
        <5>3. row.age = "fresh"
          BY <3>1 DEF Incident
        <5> HIDE DEF row
        <5> QED
          BY <3>5, <5>2, <5>3 DEF row
      <4>2. incident'.age # "old" /\ incident'.age \in {"fresh", "old"}
        BY <4>1
      <4> QED
        BY <3>1, <3>2, <4>1, <4>2 DEF CalmTrue
    <3> QED
      BY <2>2, <3>3, <3>4, <3>5 DEF Recovered
  <2> QED
    BY <1>1, <2>1, <2>2
<1> QED
  BY <1>1, <1>2, <1>3, CheckStays

LEMMA DaemonNextKeeps == ASSUME IInv, DaemonNext, UNCHANGED registryVars PROVE IInv'
<1>1. CASE Tick BY <1>1, TickKeeps
<1>2. CASE ThreadEnds BY <1>2, ThreadEndsKeeps
<1>3. CASE CoolDownEnds BY <1>3, CoolDownEndsKeeps
<1>4. CASE Minute BY <1>4, MinuteKeeps
<1>5. CASE WorkerSteps
  <2>1. CASE CheckStarts BY <2>1, CheckStartsKeeps
  <2>2. CASE LockTaken BY <2>2, LockTakenKeeps
  <2>3. CASE Renewed BY <2>3, RenewedKeeps
  <2>4. CASE ListRead BY <2>4, ListReadKeeps
  <2>5. CASE ReadFails BY <2>5, ReadFailsKeeps
  <2>6. ASSUME NEW a \in Actions, ActionBegins(a) PROVE IInv' BY <2>6, ActionBeginsKeeps
  <2>7. ASSUME NEW a \in Actions, NoneLeft(a) PROVE IInv' BY <2>7, NoneLeftKeeps
  <2>8. CASE ActionRefused BY <2>8, ActionRefusedKeeps
  <2>9. CASE ActionFails BY <2>9, ActionFailsKeeps
  <2>10. CASE PreflightReplies BY <2>10, PreflightRepliesKeeps
  <2>11. CASE OrdinaryReplies BY <2>11, OrdinaryRepliesKeeps
  <2>12. CASE OrdinaryFails BY <2>12, OrdinaryFailsKeeps
  <2>13. CASE Submit BY <2>13, SubmitKeeps
  <2>14. CASE PostPending BY <2>14, PostPendingKeeps
  <2>15. CASE CheckEnds BY <2>15, CheckEndsKeeps
  <2> QED
    BY <1>5, <2>1, <2>2, <2>3, <2>4, <2>5, <2>6, <2>7, <2>8, <2>9, <2>10, <2>11, <2>12, <2>13,
       <2>14, <2>15 DEF WorkerSteps
<1> QED
  BY <1>1, <1>2, <1>3, <1>4, <1>5 DEF DaemonNext

LEMMA PageKeeps ==
  ASSUME IInv, NEW p \in Pages, PageStarts(p) \/ PageSteps(p) PROVE IInv'
<1>1. CASE PageStarts(p)
  <2>1. CASE LoginStarts(p) BY <2>1, LoginStartsKeeps
  <2>2. CASE ConnectStarts(p) BY <2>2, ConnectStartsKeeps
  <2>3. CASE RemoveStarts(p) BY <2>3, RemoveStartsKeeps
  <2>4. CASE BoyaStarts(p) BY <2>4, BoyaStartsKeeps
  <2>5. CASE RegularStarts(p) BY <2>5, RegularStartsKeeps
  <2> QED
    BY <1>1, <2>1, <2>2, <2>3, <2>4, <2>5 DEF PageStarts
<1>2. CASE PageSteps(p)
  <2>1. CASE Authenticates(p) BY <2>1, AuthenticatesKeeps
  <2>2. CASE Blocks(p) BY <2>2, BlocksKeeps
  <2>3. CASE LoginLocked(p) BY <2>3, LoginLockedKeeps
  <2>4. CASE ConnectLocked(p) BY <2>4, ConnectLockedKeeps
  <2>5. CASE SsoReplies(p) BY <2>5, SsoRepliesKeeps
  <2>6. CASE BoyaSynced(p) BY <2>6, BoyaSyncedKeeps
  <2>7. CASE RemovedMeanwhile(p) BY <2>7, RemovedMeanwhileKeeps
  <2>8. CASE SaveBegins(p) BY <2>8, SaveBeginsKeeps
  <2>9. CASE Saved(p) BY <2>9, SavedKeeps
  <2>10. CASE HooksDone(p) BY <2>10, HooksDoneKeeps
  <2>11. CASE DisposeLocks(p) BY <2>11, DisposeLocksKeeps
  <2>12. CASE CloseBoya(p) BY <2>12, CloseBoyaKeeps
  <2>13. CASE Disposed(p) BY <2>13, DisposedKeeps
  <2>14. CASE Updates(p) BY <2>14, UpdatesKeeps
  <2>15. CASE BoyaSaved(p) BY <2>15, BoyaSavedKeeps
  <2>16. CASE Decides(p) BY <2>16, DecidesKeeps
  <2>17. CASE RegularSaved(p) BY <2>17, RegularSavedKeeps
  <2> QED
    BY <1>2, <2>1, <2>2, <2>3, <2>4, <2>5, <2>6, <2>7, <2>8, <2>9, <2>10, <2>11, <2>12, <2>13,
       <2>14, <2>15, <2>16, <2>17 DEF PageSteps
<1> QED
  BY <1>1, <1>2

LEMMA StutterKeeps == ASSUME IInv, UNCHANGED vars PROVE IInv'
<1>1. /\ UNCHANGED registryVars
      /\ UNCHANGED <<account, listed, lock, loop, daemon, check, incident, age, calm>>
  BY DEF vars, daemonVars
<1>2. /\ check' \in Check /\ check'.of <= made /\ check' = check /\ age' \in [Lists -> Ages]
      /\ \A o \in Objects : Working(o)' <=> Working(o)
  BY <1>1, CheckBounds, CheckType DEF Working
<1> QED
  BY <1>1, <1>2, SameIncident, CheckStays
-----------------------------------------------------------------------------
(* The properties. *)

\* The invariant holds from the start of the process on, over its restarts.
THEOREM RegistryInvariance == Spec => []IInv
<1>1. IInv /\ [Next]_vars => IInv'
  BY DaemonNextKeeps, PageKeeps, RestartKeeps, StutterKeeps DEF Next
<1> QED
  BY <1>1, InitGood, PTL DEF Spec

\* The accounts, requests, locks and the daemon always have their types.
THEOREM RegistryTypeCorrect == Spec => []TypeOK
<1>1. IInv => TypeOK
  BY DEF IInv
<1> QED
  BY <1>1, RegistryInvariance, PTL

\* No worker reads, renews or posts for an account that has been disposed of.
THEOREM RegistryRemovedIsSilent == Spec => []RemovedIsSilent
<1>1. IInv => RemovedIsSilent
  <2> SUFFICES ASSUME IInv,
                      check.pc \in {"renew", "read", "preflight", "ordinary", "posted"}
               PROVE  ~account[check.of].gone
    BY DEF RemovedIsSilent
  <2>1. check.pc \in WorkPlaces /\ TypeOK /\ Shut /\ LocksHeld
    BY DEF WorkPlaces, IInv
  <2> QED
    BY <2>1, NotClosed DEF Closed
<1> QED
  BY <1>1, RegistryInvariance, PTL

\* No request is posted for a switch that was said to be off and saved.
THEOREM RegistryStopIsSilent == Spec => []StopIsSilent
<1>1. IInv => StopIsSilent
  <2> SUFFICES ASSUME IInv, check.pc = "posted", check.of = listed, check.action \in said
               PROVE  FALSE
    BY DEF StopIsSilent
  <2>1. listed # None
    BY CheckBounds, RegistryAssumption
  <2> QED
    BY <2>1 DEF IInv, PostedOn, SaidOff
<1> QED
  BY <1>1, RegistryInvariance, PTL

\* With no settings request under way the daemon runs if an account wants it.
THEOREM RegistryDaemonFollows == Spec => []DaemonFollows
<1>1. IInv => DaemonFollows
  <2> SUFFICES ASSUME IInv, AnyBoya, \A p \in Pages : Kind(p) # "boya"
               PROVE  daemon.running \/ refused
    BY DEF DaemonFollows
  <2>1. \A p \in Pages : ~Writes(p) /\ Place(p) # "decide"
    BY DEF Writes, IInv, PlacesFit, PlaceFits, Place, Kind
  <2> QED
    BY <2>1 DEF IInv, Follows, Settled
<1> QED
  BY <1>1, RegistryInvariance, PTL

\* The worker, when a check ends, and the passing of time are all that touch
\* an open incident while no request does.
LEMMA IncidentClosed ==
  ASSUME IInv, [Next]_vars, UNCHANGED registryVars, check.pc = "end",
         incident.open, ~incident'.open
  PROVE  CheckEnds
<1>1. TypeOK /\ incident \in Incident
  BY CheckBounds, CheckType
<1>2. incident' # incident
  OBVIOUS
<1>3. CASE DaemonNext
  <2>1. ASSUME incident' = [incident EXCEPT !.cooling = FALSE] PROVE FALSE
    BY <1>1, <2>1 DEF Incident
  <2>2. ASSUME incident' = [incident EXCEPT !.age = Aged(@)] PROVE FALSE
    BY <1>1, <2>2 DEF Incident
  <2>3. ~Tick /\ ~ThreadEnds /\ ~CoolDownEnds /\ ~Minute
    BY <1>2, <2>1, <2>2 DEF Tick, ThreadEnds, CoolDownEnds, Minute
  <2>4. /\ ~CheckStarts /\ ~LockTaken /\ ~Renewed /\ ~ListRead /\ ~ReadFails
        /\ \A a \in Actions : ~ActionBegins(a) /\ ~NoneLeft(a)
    BY <1>2 DEF CheckStarts, LockTaken, Renewed, ListRead, ReadFails, ActionBegins, NoneLeft, At
  <2>5. /\ ~ActionRefused /\ ~ActionFails /\ ~PreflightReplies /\ ~OrdinaryReplies
        /\ ~OrdinaryFails /\ ~Submit /\ ~PostPending
    BY DEF ActionRefused, ActionFails, PreflightReplies, OrdinaryReplies, OrdinaryFails,
           Submit, PostPending, At
  <2> QED
    BY <1>3, <2>3, <2>4, <2>5 DEF DaemonNext, WorkerSteps
<1>4. ASSUME NEW p \in Pages, PageStarts(p) PROVE FALSE
  BY <1>2, <1>4 DEF PageStarts, LoginStarts, ConnectStarts, RemoveStarts, BoyaStarts,
     RegularStarts, daemonVars
<1>5. ASSUME NEW p \in Pages, PageSteps(p) PROVE FALSE
  <2>1. ~HooksDone(p)
    <3>1. ASSUME HooksDone(p) PROVE FALSE
      <4>1. "auth" \in Pcs /\ Place(p) = "hooks" /\ Move(p, "auth")
        BY <3>1 DEF HooksDone, Pcs
      <4>2. page'[p].pc = "auth"
        BY <1>1, <4>1, MoveFacts, PageStep
      <4> QED
        BY <4>1, <4>2 DEF registryVars, Place
    <3> QED
      BY <3>1
  <2>2. /\ ~Authenticates(p) /\ ~Blocks(p) /\ ~LoginLocked(p) /\ ~ConnectLocked(p)
        /\ ~SsoReplies(p) /\ ~BoyaSynced(p) /\ ~RemovedMeanwhile(p) /\ ~SaveBegins(p)
    BY <1>2 DEF Authenticates, Blocks, LoginLocked, ConnectLocked, SsoReplies, BoyaSynced,
       RemovedMeanwhile, SaveBegins, daemonVars
  <2>3. /\ ~Saved(p) /\ ~DisposeLocks(p) /\ ~CloseBoya(p) /\ ~Disposed(p) /\ ~Updates(p)
        /\ ~BoyaSaved(p) /\ ~Decides(p) /\ ~RegularSaved(p)
    BY <1>2 DEF Saved, DisposeLocks, CloseBoya, Disposed, Updates, BoyaSaved, Decides,
       RegularSaved, daemonVars
  <2> QED
    BY <1>5, <2>1, <2>2, <2>3 DEF PageSteps
<1>6. ~Restart
  <2>1. ASSUME Restart PROVE FALSE
    <3>1. budget.faults \in Nat /\ budget'.faults = budget.faults - 1
      BY <1>1, <2>1, TypeParts DEF Restart
    <3> QED
      BY <3>1 DEF registryVars
  <2> QED
    BY <2>1
<1>7. ~UNCHANGED vars
  BY <1>2 DEF vars, daemonVars
<1> QED
  BY <1>3, <1>4, <1>5, <1>6, <1>7 DEF Next

\* An incident is closed by two complete readings a minute apart only.
THEOREM RegistryRecoveryIsReal == Spec => RecoveryIsReal
<1> DEFINE A == check.pc = "end" /\ incident.open /\ ~incident'.open /\ UNCHANGED registryVars
                  => calm = "old"
<1>1. IInv /\ [Next]_vars => A
  <2> SUFFICES ASSUME IInv, [Next]_vars, UNCHANGED registryVars, check.pc = "end",
                      incident.open, ~incident'.open
               PROVE  calm = "old"
    OBVIOUS
  <2>1. CheckEnds
    BY IncidentClosed
  <2>2. incident \in Incident /\ CalmTrue
    BY CheckBounds, CheckType
  <2>3. ASSUME incident' = [incident EXCEPT !.stable = 1, !.age = "fresh"] PROVE FALSE
    <3> DEFINE row == [incident EXCEPT !.stable = 1, !.age = "fresh"]
    <3>1. row.open = incident.open
      BY <2>2 DEF Incident
    <3> QED
      BY <2>3, <3>1
  <2>4. incident.stable = 1 /\ incident.age # "fresh"
    BY <2>1, <2>3 DEF CheckEnds, Recovered
  <2> QED
    BY <2>2, <2>4 DEF CalmTrue
<1>2. IInv /\ [Next]_vars => [A]_vars
  BY <1>1
<1> HIDE DEF A
<1>3. Spec => [][A]_vars
  BY <1>2, RegistryInvariance, PTL DEF Spec
<1> QED
  BY <1>3 DEF RecoveryIsReal, A

\* No switch is changed; a switch comes on for a request only.
SwitchesStay == \A o \in Objects : account'[o].on = account[o].on
AskedFor == \A o \in Objects, s \in Switches :
  account'[o].on[s] /\ ~account[o].on[s] /\ ~account'[o].removed =>
    \E p \in Pages : Order(p)'[s] = "on"

LEMMA StayFacts ==
  ASSUME TypeOK, NEW x \in Objects, NEW v \in BOOLEAN, NEW w \in BOOLEAN,
         \/ UNCHANGED account
         \/ account' = [account EXCEPT ![x].token = v]
         \/ account' = [account EXCEPT ![x].removed = v]
         \/ account' = [account EXCEPT ![x].gone = v]
         \/ account' = [account EXCEPT ![x].input = v]
         \/ account' = [account EXCEPT ![x].maintenance = v, ![x].input = w]
  PROVE  SwitchesStay
<1>1. account[x] \in Account
  BY TypeParts
<1>2. ASSUME NEW row \in Account, row.on = account[x].on, account' = [account EXCEPT ![x] = row]
      PROVE  SwitchesStay
  BY <1>2, RowStep DEF SwitchesStay
<1>3. /\ [account[x] EXCEPT !.token = v] \in Account
      /\ [account[x] EXCEPT !.token = v].on = account[x].on
      /\ [account[x] EXCEPT !.removed = v] \in Account
      /\ [account[x] EXCEPT !.removed = v].on = account[x].on
      /\ [account[x] EXCEPT !.gone = v] \in Account
      /\ [account[x] EXCEPT !.gone = v].on = account[x].on
      /\ [account[x] EXCEPT !.input = v] \in Account
      /\ [account[x] EXCEPT !.input = v].on = account[x].on
  BY <1>1 DEF Account
<1>4. CASE account' = [account EXCEPT ![x].maintenance = v, ![x].input = w]
  BY <1>4, FlagStep DEF Alike, SwitchesStay
<1>5. CASE account' = [account EXCEPT ![x].token = v]
  BY <1>5, TokenStep DEF Alike, SwitchesStay
<1>6. CASE UNCHANGED account
  BY <1>6 DEF SwitchesStay
<1>7. CASE account' = [account EXCEPT ![x].removed = v]
  <2> DEFINE row == [account[x] EXCEPT !.removed = v]
  <2>1. account' = [account EXCEPT ![x] = row] /\ row \in Account /\ row.on = account[x].on
    BY <1>3, <1>7
  <2> HIDE DEF row
  <2> QED
    BY <1>2, <2>1
<1>8. CASE account' = [account EXCEPT ![x].gone = v]
  <2> DEFINE row == [account[x] EXCEPT !.gone = v]
  <2>1. account' = [account EXCEPT ![x] = row] /\ row \in Account /\ row.on = account[x].on
    BY <1>3, <1>8
  <2> HIDE DEF row
  <2> QED
    BY <1>2, <2>1
<1>9. CASE account' = [account EXCEPT ![x].input = v]
  <2> DEFINE row == [account[x] EXCEPT !.input = v]
  <2>1. account' = [account EXCEPT ![x] = row] /\ row \in Account /\ row.on = account[x].on
    BY <1>3, <1>9
  <2> HIDE DEF row
  <2> QED
    BY <1>2, <2>1
<1> QED
  BY <1>4, <1>5, <1>6, <1>7, <1>8, <1>9

LEMMA DaemonStays == ASSUME IInv, DaemonNext PROVE SwitchesStay
<1>1. TypeOK /\ check.of \in Objects
  BY CheckBounds
<1>2. UNCHANGED account => SwitchesStay
  BY DEF SwitchesStay
<1>3. CASE Renewed
  <2>1. ASSUME NEW input \in BOOLEAN,
               account' = [account EXCEPT ![check.of].input = @ \/ input]
        PROVE  SwitchesStay
    <3> DEFINE v == account[check.of].input \/ input
    <3>1. v \in BOOLEAN /\ account' = [account EXCEPT ![check.of].input = v]
      BY <2>1
    <3> HIDE DEF v
    <3> QED
      BY <1>1, <3>1, StayFacts
  <2>2. CASE account' = [account EXCEPT ![check.of].token = TRUE]
    BY <1>1, <2>2, StayFacts
  <2> QED
    BY <1>3, <2>1, <2>2 DEF Renewed
<1>4. CASE ReadFails
  <2>1. ASSUME NEW token \in BOOLEAN, account' = [account EXCEPT ![check.of].token = token]
        PROVE  SwitchesStay
    BY <1>1, <2>1, StayFacts
  <2> QED
    BY <1>2, <1>4, <2>1 DEF ReadFails
<1>5. CASE Tick \/ ThreadEnds \/ CoolDownEnds \/ Minute \/ CheckStarts \/ LockTaken \/ ListRead
  BY <1>2, <1>5 DEF Tick, ThreadEnds, CoolDownEnds, Minute, CheckStarts, LockTaken, ListRead
<1>6. CASE \E a \in Actions : ActionBegins(a) \/ NoneLeft(a)
  BY <1>2, <1>6 DEF ActionBegins, NoneLeft
<1>7. CASE \/ ActionRefused \/ ActionFails \/ PreflightReplies \/ OrdinaryReplies
           \/ OrdinaryFails \/ Submit \/ PostPending \/ CheckEnds
  BY <1>2, <1>7 DEF ActionRefused, ActionFails, PreflightReplies, OrdinaryReplies,
     OrdinaryFails, Submit, PostPending, CheckEnds
<1> QED
  BY <1>3, <1>4, <1>5, <1>6, <1>7 DEF DaemonNext, WorkerSteps

LEMMA AnswerStays ==
  ASSUME TypeOK, NEW p \in Pages, NEW input \in BOOLEAN, AnswerLogin(p, input)
  PROVE  SwitchesStay
BY AnswerLoginFacts DEF Alike, SwitchesStay

\* The steps of a request that change no switch.
LEMMA PageStays ==
  ASSUME IInv, NEW p \in Pages,
         \/ ConnectStarts(p) \/ RemoveStarts(p) \/ BoyaStarts(p) \/ Authenticates(p)
         \/ Blocks(p) \/ ConnectLocked(p) \/ SsoReplies(p) \/ BoyaSynced(p)
         \/ RemovedMeanwhile(p) \/ SaveBegins(p) \/ Saved(p) \/ DisposeLocks(p)
         \/ CloseBoya(p) \/ Disposed(p) \/ Decides(p)
  PROVE  SwitchesStay
<1>1. TypeOK /\ Of(p) \in Objects /\ Acc(p) \in Objects
  BY PageFacts DEF IInv
<1>2. UNCHANGED account => SwitchesStay
  BY DEF SwitchesStay
<1>3. CASE \/ ConnectStarts(p) \/ BoyaStarts(p) \/ ConnectLocked(p) \/ SaveBegins(p)
           \/ DisposeLocks(p) \/ Decides(p)
  BY <1>2, <1>3 DEF ConnectStarts, BoyaStarts, ConnectLocked, SaveBegins, DisposeLocks,
     Decides, daemonVars
<1>4. CASE RemoveStarts(p)
  <2>1. listed \in Objects /\ account' = [account EXCEPT ![listed].removed = TRUE]
    BY <1>1, <1>4, TypeParts DEF RemoveStarts
  <2> QED
    BY <1>1, <2>1, StayFacts
<1>5. CASE Authenticates(p)
  <2>1. CASE UNCHANGED account
    BY <1>2, <2>1
  <2>2. CASE account' = [account EXCEPT ![Of(p)].maintenance = TRUE,
                           ![Of(p)].input = @ /\ Kind(p) = "connect"]
    <3> DEFINE w == account[Of(p)].input /\ Kind(p) = "connect"
    <3>1. w \in BOOLEAN
             /\ account' = [account EXCEPT ![Of(p)].maintenance = TRUE, ![Of(p)].input = w]
      BY <2>2
    <3> HIDE DEF w
    <3> QED
      BY <1>1, <3>1, FlagStep DEF Alike, SwitchesStay
  <2> QED
    BY <1>5, <2>1, <2>2 DEF Authenticates
<1>6. CASE Blocks(p) \/ CloseBoya(p)
  BY <1>1, <1>6, StayFacts DEF Blocks, CloseBoya
<1>7. CASE Disposed(p)
  BY <1>1, <1>7, StayFacts DEF Disposed
<1>8. CASE BoyaSynced(p)
  <2>1. PICK ready \in BOOLEAN : account' = [account EXCEPT ![Acc(p)].token =
          IF account[Acc(p)].removed THEN account[Acc(p)].token ELSE ready]
    BY <1>8 DEF BoyaSynced
  <2> DEFINE v == IF account[Acc(p)].removed THEN account[Acc(p)].token ELSE ready
  <2>2. v \in BOOLEAN /\ account' = [account EXCEPT ![Acc(p)].token = v]
    BY <1>1, <2>1, TypeParts DEF Account
  <2> HIDE DEF v
  <2> QED
    BY <1>1, <2>2, StayFacts
<1>9. CASE SsoReplies(p)
  <2>1. ASSUME NEW input \in BOOLEAN, AnswerLogin(p, input \/ Kind(p) = "login")
        PROVE  SwitchesStay
    <3>1. (input \/ Kind(p) = "login") \in BOOLEAN
      OBVIOUS
    <3> QED
      BY <1>1, <2>1, <3>1, AnswerStays
  <2> QED
    BY <1>2, <1>9, <2>1 DEF SsoReplies
<1>10. CASE RemovedMeanwhile(p) \/ Saved(p)
  BY <1>1, <1>2, <1>10, AnswerStays DEF RemovedMeanwhile, Saved
<1> QED
  BY <1>3, <1>4, <1>5, <1>6, <1>7, <1>8, <1>9, <1>10

LEMMA ChangeAsked ==
  ASSUME TypeOK, NEW x \in Objects, NEW on \in [Switches -> BOOLEAN],
         account' = [account EXCEPT ![x].on = on],
         \A s \in Switches : on[s] /\ ~account[x].on[s] /\ ~account[x].removed =>
           \E p \in Pages : Order(p)'[s] = "on"
  PROVE  AskedFor
<1>1. /\ account'[x].on = on
      /\ \A o \in Objects : account'[o].removed = account[o].removed
      /\ \A o \in Objects \ {x} : account'[o] = account[o]
  BY OnStep
<1>2. ASSUME NEW o \in Objects, NEW s \in Switches,
             account'[o].on[s], ~account[o].on[s], ~account'[o].removed
      PROVE  \E p \in Pages : Order(p)'[s] = "on"
  <2>1. o = x
    BY <1>1, <1>2
  <2> QED
    BY <1>1, <1>2, <2>1
<1> QED
  BY <1>2 DEF AskedFor

LEMMA NewAsked ==
  ASSUME TypeOK, NEW on \in [Switches -> BOOLEAN], NewObject(on),
         \A s \in Switches : on[s] => \E p \in Pages : Order(p)'[s] = "on"
  PROVE  AskedFor
<1>1. /\ account'[made + 1] = NewAccount(on)
      /\ \A o \in Objects \ {made + 1} : account'[o] = account[o]
  BY NewFacts
<1>2. NewAccount(on).on = on
  BY NewType
<1>3. ASSUME NEW o \in Objects, NEW s \in Switches,
             account'[o].on[s], ~account[o].on[s], ~account'[o].removed
      PROVE  \E p \in Pages : Order(p)'[s] = "on"
  <2>1. o = made + 1
    BY <1>1, <1>3
  <2> QED
    BY <1>1, <1>2, <1>3, <2>1
<1> QED
  BY <1>3 DEF AskedFor

LEMMA LoginAsked ==
  ASSUME IInv, NEW p \in Pages, LoginStarts(p) \/ LoginLocked(p) PROVE AskedFor
<1>1. TypeOK /\ Off \in [Switches -> BOOLEAN] /\ \A s \in Switches : ~Off[s]
  BY DEF IInv, Off
<1>2. CASE LoginStarts(p)
  <2>1. CASE UNCHANGED account
    BY <2>1 DEF AskedFor
  <2>2. CASE NewObject(Off)
    BY <1>1, <2>2, NewAsked
  <2> QED
    BY <1>2, <2>1, <2>2 DEF LoginStarts
<1>3. CASE LoginLocked(p)
  <2> DEFINE on == [Off EXCEPT !["regular"] = Order(p)["regular"] = "on"]
             now == Applied(Order(p), account[listed].on)
             x == IF listed = None THEN made + 1 ELSE listed
             r == [page[p] EXCEPT !.pc = "sso", !.acc = x]
  <2>1. Order(p)' = Order(p) /\ Order(p) \in [Switches -> {"on", "off", "keep"}]
    <3>1. page' = [page EXCEPT ![p] = r]
      BY <1>3 DEF LoginLocked
    <3>2. page'[p] = r
      BY <1>1, <3>1, PageFacts
    <3>3. r.order = page[p].order
      BY <1>1, PageFacts DEF PageType
    <3> QED
      BY <1>1, <3>2, <3>3, PageFacts DEF Order
  <2>2. CASE listed = None
    <3>1. NewObject(on)
      BY <1>3, <2>2 DEF LoginLocked
    <3>2. /\ on \in [Switches -> BOOLEAN]
          /\ \A s \in Switches : on[s] => Order(p)[s] = "on"
      BY <1>1 DEF Switches
    <3> HIDE DEF on
    <3>3. \A s \in Switches : on[s] => \E w \in Pages : Order(w)'[s] = "on"
      BY <2>1, <3>2
    <3> QED
      BY <1>1, <3>1, <3>2, <3>3, NewAsked
  <2>3. CASE listed # None
    <3>1. listed \in Objects /\ account[listed].on \in [Switches -> BOOLEAN]
      BY <1>1, <2>3, TypeParts DEF Account
    <3>2. account' = [account EXCEPT ![listed].on = now]
      BY <1>3, <2>3, <3>1 DEF LoginLocked
    <3>3. /\ now \in [Switches -> BOOLEAN]
          /\ \A s \in Switches : now[s] /\ ~account[listed].on[s] => Order(p)[s] = "on"
      BY <2>1, <3>1, AppliedType
    <3> HIDE DEF now
    <3>4. \A s \in Switches : now[s] /\ ~account[listed].on[s] =>
            \E w \in Pages : Order(w)'[s] = "on"
      BY <2>1, <3>3
    <3> QED
      BY <1>1, <3>1, <3>2, <3>3, <3>4, ChangeAsked
  <2> QED
    BY <2>2, <2>3
<1> QED
  BY <1>2, <1>3

LEMMA SettingsAsked ==
  ASSUME IInv, NEW p \in Pages, Updates(p) \/ RegularStarts(p) PROVE AskedFor
<1>1. TypeOK
  BY DEF IInv
<1>2. CASE Updates(p)
  <2> DEFINE x == Of(p)
             on == Applied(Order(p), account[x].on)
             r == [page[p] EXCEPT !.pc = "write", !.prev = account[x].on,
                                  !.image = IF listed = x THEN on ELSE Snapshot]
  <2>1. CASE UNCHANGED account
    BY <2>1 DEF AskedFor
  <2>2. CASE account' = [account EXCEPT ![x].on = on] /\ page' = [page EXCEPT ![p] = r]
    <3>1. /\ x \in Objects /\ account[x].on \in [Switches -> BOOLEAN]
          /\ Order(p) \in [Switches -> {"on", "off", "keep"}]
      BY <1>1, PageFacts, TypeParts DEF Account
    <3>2. /\ on \in [Switches -> BOOLEAN]
          /\ \A s \in Switches : on[s] /\ ~account[x].on[s] => Order(p)[s] = "on"
      BY <3>1, AppliedType
    <3> HIDE DEF on
    <3>3. Order(p)' = Order(p)
      <4>1. r.order = page[p].order
        BY <1>1, PageFacts DEF PageType
      <4>2. page'[p] = r
        BY <1>1, <2>2, PageFacts
      <4> QED
        BY <4>1, <4>2 DEF Order
    <3>4. \A s \in Switches : on[s] /\ ~account[x].on[s] => \E w \in Pages : Order(w)'[s] = "on"
      BY <3>2, <3>3
    <3> HIDE DEF x
    <3> QED
      BY <1>1, <2>2, <3>1, <3>2, <3>4, ChangeAsked
  <2> QED
    BY <1>2, <2>1, <2>2 DEF Updates
<1>3. CASE RegularStarts(p)
  <2>1. PICK order \in Orders["regular"] :
         LET on == Applied(order, account[listed].on) IN
         /\ account' = [account EXCEPT ![listed].on = on]
         /\ page' = [page EXCEPT ![p] = [IdlePage EXCEPT !.pc = "write", !.kind = "regular",
                       !.of = listed, !.acc = listed, !.order = order,
                       !.prev = account[listed].on, !.image = on]]
    BY <1>3 DEF RegularStarts
  <2> DEFINE on == Applied(order, account[listed].on)
             r == [IdlePage EXCEPT !.pc = "write", !.kind = "regular",
                       !.of = listed, !.acc = listed, !.order = order,
                       !.prev = account[listed].on, !.image = on]
  <2>2. /\ listed \in Objects /\ "regular" \in Kinds
        /\ account[listed].on \in [Switches -> BOOLEAN]
    BY <1>1, <1>3, TypeParts DEF RegularStarts, Request, Account
  <2>3. order \in [Switches -> {"on", "off", "keep"}]
    BY <2>2, OrderFacts
  <2>4. /\ on \in [Switches -> BOOLEAN]
        /\ \A s \in Switches : on[s] /\ ~account[listed].on[s] => order[s] = "on"
    BY <2>2, <2>3, AppliedType
  <2>5. account' = [account EXCEPT ![listed].on = on] /\ page' = [page EXCEPT ![p] = r]
    BY <2>1
  <2> HIDE DEF on
  <2>6. r.order = order
    BY IdleFacts DEF PageType
  <2> HIDE DEF r
  <2>7. Order(p)' = order
    BY <1>1, <2>5, <2>6, PageFacts DEF Order
  <2>8. \A s \in Switches :
          on[s] /\ ~account[listed].on[s] => \E w \in Pages : Order(w)'[s] = "on"
    BY <2>4, <2>7
  <2> QED
    BY <1>1, <2>2, <2>4, <2>5, <2>8, ChangeAsked
<1> QED
  BY <1>2, <1>3

\* What is put back was on: the request had turned it on itself.
LEMMA RestoreAsked ==
  ASSUME IInv, NEW p \in Pages, BoyaSaved(p) \/ RegularSaved(p) \/ HooksDone(p)
  PROVE  AskedFor
<1> DEFINE x == Of(p)
           back == Restored(Order(p), page[p].prev, account[x].on)
<1>1. /\ TypeOK /\ x \in Objects /\ account[x].on \in [Switches -> BOOLEAN]
      /\ Order(p) \in [Switches -> {"on", "off", "keep"}]
      /\ page[p].prev \in [Switches -> BOOLEAN]
  BY PageFacts, TypeParts DEF IInv, Account
<1>2. /\ back \in [Switches -> BOOLEAN]
      /\ \A s \in Switches : Order(p)[s] # "on" => back[s] = account[x].on[s]
  BY <1>1, RestoredType
<1>3. CASE UNCHANGED account
  BY <1>3 DEF AskedFor
<1>4. CASE HooksDone(p)
  <2>1. Off \in [Switches -> BOOLEAN] /\ \A s \in Switches : ~Off[s]
    BY DEF Off
  <2>2. account' = [account EXCEPT ![x].on = Off]
    BY <1>4 DEF HooksDone
  <2> HIDE DEF x
  <2> QED
    BY <1>1, <2>1, <2>2, ChangeAsked
<1>5. CASE (BoyaSaved(p) \/ RegularSaved(p)) /\ account' = [account EXCEPT ![x].on = back]
  <2>1. ASSUME NEW s \in Switches, Order(p)[s] = "on", ~account[x].removed
        PROVE  account[x].on[s]
    <3>1. CASE RegularSaved(p)
      <4>1. WritesRegular(p) /\ Kind(p) = "regular"
        BY <3>1 DEF RegularSaved, WritesRegular
      <4>2. s = "regular"
        BY <2>1, <4>1 DEF IInv, Orderly
      <4> QED
        BY <2>1, <4>1, <4>2 DEF IInv, Changed
    <3>2. CASE BoyaSaved(p)
      <4>1. Writes(p) /\ Kind(p) = "boya"
        BY <3>2 DEF BoyaSaved, Writes
      <4>2. s \in Actions
        BY <2>1, <4>1 DEF IInv, Orderly, Actions, Switches
      <4>3. Applied(Order(p), page[p].prev)[s]
        BY <1>1, <2>1, AppliedType
      <4> QED
        BY <2>1, <4>1, <4>2, <4>3 DEF IInv, Changed
    <3> QED
      BY <1>5, <3>1, <3>2
  <2>2. \A s \in Switches : back[s] /\ ~account[x].on[s] /\ ~account[x].removed => FALSE
    BY <1>1, <1>2, <2>1
  <2> HIDE DEF back, x
  <2> QED
    BY <1>1, <1>2, <1>5, <2>2, ChangeAsked
<1>6. CASE BoyaSaved(p)
  BY <1>3, <1>5, <1>6 DEF BoyaSaved
<1>7. CASE RegularSaved(p)
  BY <1>3, <1>5, <1>7 DEF RegularSaved
<1> QED
  BY <1>4, <1>6, <1>7

\* No switch of an account in use comes on unless a request under way asks for it.
THEOREM RegistryStopHolds == Spec => StopHolds
<1> DEFINE A == ~Restart => \A o \in Objects, s \in Switches :
                  account'[o].on[s] /\ ~account[o].on[s] /\ ~account'[o].removed =>
                    \E p \in Pages : Order(p)'[s] = "on"
<1>1. SwitchesStay => AskedFor
  BY DEF SwitchesStay, AskedFor
<1>2. ASSUME IInv, NEW p \in Pages, PageStarts(p) \/ PageSteps(p) PROVE AskedFor
  BY <1>1, <1>2, PageStays, LoginAsked, SettingsAsked, RestoreAsked DEF PageStarts, PageSteps
<1>3. ASSUME IInv, [Next]_vars, ~Restart PROVE AskedFor
  <2>1. UNCHANGED vars => AskedFor
    BY DEF vars, daemonVars, AskedFor
  <2> QED
    BY <1>1, <1>2, <1>3, <2>1, DaemonStays DEF Next
<1>4. IInv /\ [Next]_vars => [A]_vars
  BY <1>3 DEF AskedFor
<1> HIDE DEF A
<1>5. Spec => [][A]_vars
  BY <1>4, RegistryInvariance, PTL DEF Spec
<1> QED
  BY <1>5 DEF StopHolds, A
=============================================================================

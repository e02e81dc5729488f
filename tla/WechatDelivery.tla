--------------------------- MODULE WechatDelivery ---------------------------
(***************************************************************************)
(* The WeChat channel of one student: core/wechat.py with the requests of  *)
(* server/wechat.py.  Coroutines of one event loop share the bindings (in  *)
(* memory, and in a file written by a thread), a queue of entries, the     *)
(* student's gate and the lock of the store.  A step runs from one await   *)
(* to the next; the lock is held exactly as long as a write is under way.  *)
(*                                                                         *)
(* Of time only its effects are kept: a course begins, a pause is over, an *)
(* entry is older than ten minutes.  The waits between two rounds of a     *)
(* loop and the back-off of the sender are the steps it does not take.     *)
(***************************************************************************)
EXTENDS Naturals, Sequences, SequencesExt

CONSTANTS
  Keys,       \* lessons a reminder can be due for
  Start,      \* Start[k]: when lesson k begins, for the urgency of its reminder
  Log,        \* what stands for the key of an ordinary notice
  Room,       \* entries in the queue (100)
  Answers,    \* how the provider may answer
  Bindings, Beginnings, \* bounds: on the bindings begun, on the lessons that begin,
  Faults      \* and on the writes that fail and the restarts

Generations == 1..Bindings

ASSUME WechatAssumption ==
  /\ Start \in [Keys -> Nat] /\ Log \notin Keys
  /\ Room \in Nat \ {0} /\ Bindings \in Nat
  /\ Beginnings \in Nat /\ Faults \in Nat
  /\ Answers \subseteq {"accepted", "submitted", "rejected", "unconfirmed",
                        "session_expired"}

VARIABLES
  memory, file,   \* the bindings as the process and as the disk have them
  storage_error,  \* the last write, or the reading at the start, failed
  write,          \* the write under way: who, what, and memory should it fail
  gate,           \* the coroutine inside the student's gate
  queue,          \* the entries that wait for the sender
  at,             \* at[p]: where coroutine p is, and its locals
  pending,        \* the generation of the QR code on show, 0 for none
  generations,    \* generations drawn so far
  exists,         \* the account is in the registry
  begun,          \* lessons that have begun
  faults,
  wire            \* history: of the last binding written, how often each reminder
                  \* was sent, and those the provider accepted

vars == <<memory, file, storage_error, write, gate, queue, at, pending, generations,
          exists, begun, faults, wire>>

Procs == {"sender", "poller", "reminder", "drain", "binder", "request"}

\* A row is what the student is told of a reminder; "none": it was not claimed.
Unsent == {"expired", "disabled", "queue_full", "storage_blocked"}
Row == {"none", "queued", "sending", "not_replayed"} \cup Unsent \cup Answers
Entry == [key : Keys \cup {Log}, generation : Generations]
\* generation 0: not bound; others: the bindings of the other students
Binding == [generation : Nat, enabled : BOOLEAN, reminders : BOOLEAN,
              context : BOOLEAN, paused : BOOLEAN, rows : [Keys -> Row],
              others : BOOLEAN]

Unbound(b) == [generation |-> 0, enabled |-> FALSE, reminders |-> FALSE,
               context |-> FALSE, paused |-> FALSE,
               rows |-> [k \in Keys |-> "none"], others |-> b.others]
NoWrite == [by |-> "nobody"]
NoEntry == [key |-> Log, generation |-> 0]
Idle == [pc |-> "idle", entry |-> NoEntry, note |-> "none", generation |-> 0,
         rest |-> <<>>]

Places == {"idle", "gate", "write", "read", "reply", "marking", "note", "noting",
           "pause", "pausing", "dispose"}

Local == [pc : Places, entry : Entry \cup {NoEntry}, note : Row, generation : Nat,
          rest : Seq(Entry)]

NothingSent == [sent |-> [k \in Keys |-> 0], accepted |-> {}]

TypeOK ==
  /\ memory \in Binding /\ file \in Binding
  /\ storage_error \in BOOLEAN
  /\ write = NoWrite
     \/ write \in [by : Procs, value : Binding, otherwise : Binding]
  /\ gate \in Procs \cup {"nobody"}
  /\ queue \in Seq(Entry) /\ Len(queue) <= Room
  /\ at \in [Procs -> Local]
  /\ pending \in {0} \cup Generations /\ generations \in 0..Bindings
  /\ exists \in BOOLEAN /\ begun \subseteq Keys /\ faults \in 0..Faults
  /\ wire \in [sent : [Keys -> Nat], accepted : SUBSET Keys]

Init ==
  /\ memory = Unbound([others |-> TRUE]) /\ file = memory
  /\ storage_error = FALSE
  /\ write = NoWrite /\ gate = "nobody" /\ queue = <<>>
  /\ at = [p \in Procs |-> Idle]
  /\ pending = 0 /\ generations = 0
  /\ exists = TRUE /\ begun = {} /\ faults = 0
  /\ wire = NothingSent
-----------------------------------------------------------------------------
IsBound == memory.generation # 0
IsReminder(e) == e.key # Log
Current(e) == memory.generation = e.generation
LockFree == write = NoWrite

WithRow(b, k, row) == [b EXCEPT !.rows[k] = row]
\* The session is over: no context, and an hour without polling or sending.
SessionOver(b) == [b EXCEPT !.context = FALSE, !.paused = TRUE]

Goto(p, pc) == at' = [at EXCEPT ![p].pc = pc]
Return(p) == at' = [at EXCEPT ![p] = Idle]

\* save(), up to its await.
Save(p, value, otherwise) ==
  write' = [by |-> p, value |-> value, otherwise |-> otherwise]

\* save(), from there: written, or not.
Written(p, ok) ==
  /\ write # NoWrite /\ write.by = p
  /\ ok \/ faults < Faults
  /\ write' = NoWrite
  /\ faults' = IF ok THEN faults ELSE faults + 1
  /\ storage_error' = ~ok
  /\ memory' = IF ok THEN write.value ELSE write.otherwise
  /\ file' = IF ok THEN write.value ELSE file

Store == <<memory, file, storage_error>>
Outside == <<pending, generations, exists, begun>>
World == <<Outside, faults>>

Holding(p) == gate = p
LetGo(p) == gate' = IF gate = p THEN "nobody" ELSE gate
-----------------------------------------------------------------------------
(* delivery(): a reminder's row is brought up to date, under the lock.     *)

\* What is left to do when an entry was dropped or answered.
Noting(p, e, note, rest) ==
  at' = [at EXCEPT ![p] = [Idle EXCEPT !.pc = "note", !.entry = e, !.note = note,
                                       !.rest = rest]]

Told(p, e, note) == IF IsReminder(e) THEN Noting(p, e, note, <<>>) ELSE Return(p)

\* After the row: the next entry a request has withdrawn, or the pause that a
\* lost session asks for.
Noted(p) ==
  IF at[p].rest # <<>> THEN Noting(p, Head(at[p].rest), at[p].note, Tail(at[p].rest))
  ELSE IF at[p].note = "session_expired" THEN Goto(p, "pause")
  ELSE Return(p)
LetGoAfterNote(p) == IF at[p].note = "session_expired" THEN UNCHANGED gate ELSE LetGo(p)

Note(p) ==
  /\ at[p].pc = "note" /\ LockFree
  /\ LET e == at[p].entry
         row == WithRow(memory, e.key, at[p].note)
     IN IF Current(e)
        THEN Save(p, row, row) /\ Goto(p, "noting") /\ UNCHANGED gate
        ELSE UNCHANGED write /\ Noted(p) /\ LetGoAfterNote(p)
  /\ UNCHANGED <<Store, queue, World, wire>>

\* A row that could not be written is kept in memory all the same.
NoteWritten(p) == \E ok \in BOOLEAN :
  /\ at[p].pc = "noting" /\ Written(p, ok)
  /\ Noted(p) /\ LetGoAfterNote(p)
  /\ UNCHANGED <<queue, Outside, wire>>
-----------------------------------------------------------------------------
(* enqueue(): reminders first, the most urgent before the others.          *)

IsOrdinary(e) == ~IsReminder(e)

Place(s, e) ==
  LET later(d) == IsOrdinary(d) \/ Start[d.key] > Start[e.key]
      index == SelectInSeq(s, later)
  IN IF IsOrdinary(e) \/ index = 0 THEN Append(s, e) ELSE InsertAt(s, index, e)

\* Faulty variant: the oldest entry goes, whatever it is.
DropOldest(e) == 1

\* Where in a full queue the entry is that goes for e: the first ordinary notice
\* if there is one, else the reminder that is least urgent; 0 for e itself.
Drop(e) ==
  IF \E i \in DOMAIN queue : IsOrdinary(queue[i]) THEN SelectInSeq(queue, IsOrdinary)
  ELSE IF IsOrdinary(e) \/ Start[e.key] >= Start[Last(queue).key] THEN 0
  ELSE Len(queue)

\* Faulty variant: one entry too many.
FullLate == Len(queue) > Room

Full == Len(queue) >= Room

Enqueue(e) ==
  queue' = IF ~Full THEN Place(queue, e)
           ELSE IF Drop(e) = 0 THEN queue
           ELSE Place(RemoveAt(queue, Drop(e)), e)

Victim(e) == IF ~Full THEN NoEntry ELSE IF Drop(e) = 0 THEN e ELSE queue[Drop(e)]
-----------------------------------------------------------------------------
(* sender(): one entry at a time; from the gate to the provider's answer the *)
(* student's gate is held.                                                   *)

SenderAt(pc) == at["sender"].pc = pc
Sending == at["sender"].entry
Stay == Return("sender") /\ LetGo("sender")

SenderTake ==
  /\ SenderAt("idle") /\ queue # <<>>
  /\ IsBound /\ exists /\ memory.context /\ memory.enabled /\ ~memory.paused
  /\ ~storage_error
  /\ queue' = Tail(queue)
  /\ LET e == Head(queue) IN
       \/ Current(e) /\ at' = [at EXCEPT !["sender"].pc = "gate", !["sender"].entry = e]
       \/ Told("sender", e, "expired")      \* older than ten minutes
  /\ UNCHANGED <<Store, write, gate, World, wire>>

\* The request leaves.
Leave(e) ==
  /\ Goto("sender", "reply")
  /\ wire' = IF IsReminder(e)
             THEN [wire EXCEPT !.sent[e.key] = @ + 1] ELSE wire

\* Faulty variant: the switch was looked at when the entry was taken.
SenderGateOnce ==
  LET e == Sending IN
  /\ SenderAt("gate") /\ gate = "nobody"
  /\ IF ~(Current(e) /\ exists /\ memory.context /\ ~memory.paused)
     THEN Stay /\ UNCHANGED <<write, wire>>
     ELSE gate' = "sender" /\ Leave(e) /\ UNCHANGED write
  /\ UNCHANGED <<Store, queue, World>>

\* Inside the gate what was asked before is asked again; a reminder is marked on
\* the disk before it leaves.
SenderGate ==
  LET e == Sending
      allowed == Current(e) /\ memory.enabled /\ exists
      late == IsReminder(e) /\ (~memory.reminders \/ e.key \in begun)
  IN
  /\ SenderAt("gate") /\ gate = "nobody"
  /\ \/ ~allowed /\ Stay /\ UNCHANGED <<write, wire>>
     \/ /\ allowed /\ late
        /\ gate' = "sender" /\ Told("sender", e, "expired")
        /\ UNCHANGED <<write, wire>>
     \/ /\ allowed /\ ~late /\ IsReminder(e) /\ LockFree
        /\ gate' = "sender" /\ Goto("sender", "marking")
        /\ Save("sender", WithRow(memory, e.key, "sending"),
                          WithRow(memory, e.key, "storage_blocked"))
        /\ UNCHANGED wire
     \/ /\ allowed /\ IsOrdinary(e) /\ memory.context /\ ~memory.paused
        /\ gate' = "sender" /\ Leave(e)
        /\ UNCHANGED write
     \/ /\ allowed /\ IsOrdinary(e) /\ (~memory.context \/ memory.paused)
        /\ Stay /\ UNCHANGED <<write, wire>>
  /\ UNCHANGED <<Store, queue, World>>

\* Faulty variant: a mark that was not written does not keep it from leaving.
SenderMarkedAnyway == \E ok \in BOOLEAN :
  /\ SenderAt("marking") /\ Written("sender", ok)
  /\ Leave(Sending) /\ UNCHANGED gate
  /\ UNCHANGED <<queue, Outside>>

SenderMarked == \E ok \in BOOLEAN :
  LET e == Sending
      allowed == memory'.generation = e.generation /\ memory'.context /\ ~memory'.paused
                   /\ e.key \notin begun
  IN
  /\ SenderAt("marking") /\ Written("sender", ok)
  /\ \/ ~ok /\ Stay /\ UNCHANGED wire
     \/ ok /\ ~allowed /\ Told("sender", e, "expired") /\ UNCHANGED <<gate, wire>>
     \/ ok /\ allowed /\ Leave(e) /\ UNCHANGED gate
  /\ UNCHANGED <<queue, Outside>>

SenderReply == \E answer \in Answers :
  LET e == Sending
      told == WithRow(memory, e.key, answer)
  IN
  /\ SenderAt("reply")
  /\ \/ /\ IsReminder(e) /\ LockFree
        /\ Save("sender", told, told)
        /\ at' = [at EXCEPT !["sender"].pc = "noting", !["sender"].note = answer]
        /\ UNCHANGED gate
        /\ wire' = IF answer # "accepted" THEN wire
                   ELSE [wire EXCEPT !.accepted = @ \cup {e.key}]
     \/ /\ IsOrdinary(e) /\ answer = "session_expired"
        /\ Goto("sender", "pause") /\ UNCHANGED <<write, gate, wire>>
     \/ /\ IsOrdinary(e) /\ answer # "session_expired"
        /\ Stay /\ UNCHANGED <<write, wire>>
  /\ UNCHANGED <<Store, queue, World>>

SenderPause ==
  /\ SenderAt("pause") /\ LockFree
  /\ Save("sender", SessionOver(memory), memory) /\ Goto("sender", "pausing")
  /\ UNCHANGED <<Store, gate, queue, World, wire>>

SenderPaused == \E ok \in BOOLEAN :
  /\ SenderAt("pausing") /\ Written("sender", ok)
  /\ Stay
  /\ UNCHANGED <<queue, Outside, wire>>

Sender == SenderTake \/ SenderGate \/ SenderMarked \/ SenderReply
            \/ SenderPause \/ SenderPaused
-----------------------------------------------------------------------------
(* poll(): the student's messages give the channel its context.            *)

PollStart ==
  /\ at["poller"].pc = "idle" /\ IsBound /\ exists /\ ~memory.paused
  /\ at' = [at EXCEPT !["poller"].pc = "reply",
                      !["poller"].generation = memory.generation]
  /\ UNCHANGED <<Store, write, gate, queue, World, wire>>

\* Also the way out of a storage error: the next poll writes once more.
PollAnswer ==
  /\ at["poller"].pc = "reply" /\ LockFree
  /\ \/ /\ memory.generation = at["poller"].generation
        /\ \E new \in {memory, [memory EXCEPT !.context = TRUE]} :
             /\ exists /\ (new # memory \/ storage_error)
             /\ Save("poller", new, memory) /\ Goto("poller", "write")
     \/ /\ memory.generation = at["poller"].generation
        /\ Save("poller", SessionOver(memory), memory) /\ Goto("poller", "write")
     \/ Return("poller") /\ UNCHANGED write     \* no news, an error, another binding
  /\ UNCHANGED <<Store, gate, queue, World, wire>>

PollWritten == \E ok \in BOOLEAN :
  /\ at["poller"].pc = "write" /\ Written("poller", ok)
  /\ Return("poller")
  /\ UNCHANGED <<gate, queue, Outside, wire>>

Poller == PollStart \/ PollAnswer \/ PollWritten
-----------------------------------------------------------------------------
(* reminder_tick() and claim_reminder().                                   *)

RemindStart ==
  /\ at["reminder"].pc = "idle"
  /\ IsBound /\ memory.enabled /\ memory.reminders /\ memory.context /\ ~memory.paused
  /\ exists
  /\ at' = [at EXCEPT !["reminder"].pc = "read",
                      !["reminder"].generation = memory.generation]
  /\ UNCHANGED <<Store, write, gate, queue, World, wire>>

\* The lessons were read, or not; meanwhile the binding may be another one.  The
\* claim is written, in the gate, before the reminder is queued.
Claim ==
  LET generation == at["reminder"].generation IN
  /\ at["reminder"].pc = "read"
  /\ \/ /\ gate = "nobody" /\ LockFree
        /\ memory.generation = generation /\ exists
        /\ memory.enabled /\ memory.reminders /\ memory.context
        /\ \E k \in Keys \ begun :
             /\ memory.rows[k] = "none"
             /\ Save("reminder", WithRow(memory, k, "queued"), memory)
             /\ at' = [at EXCEPT !["reminder"].pc = "write",
                         !["reminder"].entry = [key |-> k, generation |-> generation]]
        /\ gate' = "reminder"
     \/ Return("reminder") /\ UNCHANGED <<write, gate>>
  /\ UNCHANGED <<Store, queue, World, wire>>

\* Faulty variant: what could not be claimed is queued all the same.
ClaimedAnyway == \E ok \in BOOLEAN :
  /\ at["reminder"].pc = "write" /\ Written("reminder", ok)
  /\ gate' = "nobody"
  /\ Enqueue(at["reminder"].entry)
  /\ Told("reminder", Victim(at["reminder"].entry), "queue_full")
  /\ UNCHANGED <<Outside, wire>>

Claimed == \E ok \in BOOLEAN :
  LET e == at["reminder"].entry IN
  /\ at["reminder"].pc = "write" /\ Written("reminder", ok)
  /\ gate' = "nobody"
  /\ \/ ~ok /\ Return("reminder") /\ UNCHANGED queue
     \/ ok /\ ~exists /\ Told("reminder", e, "disabled") /\ UNCHANGED queue
     \/ ok /\ exists /\ Enqueue(e) /\ Told("reminder", Victim(e), "queue_full")
  /\ UNCHANGED <<Outside, wire>>

Reminder == RemindStart \/ Claim \/ Claimed
-----------------------------------------------------------------------------
(* drain(), and the test message of the page.                              *)

Notice ==
  /\ IsBound /\ memory.enabled /\ exists
  /\ Enqueue([key |-> Log, generation |-> memory.generation])
  /\ UNCHANGED <<Store, write, gate, at, World, wire>>

\* An entry of the queue is older than ten minutes.
DrainExpired == \E i \in DOMAIN queue :
  /\ at["drain"].pc = "idle"
  /\ queue' = RemoveAt(queue, i)
  /\ Told("drain", queue[i], "expired")
  /\ UNCHANGED <<Store, write, gate, World, wire>>

Drain == Notice \/ DrainExpired
-----------------------------------------------------------------------------
(* The student's requests: begin() and wait(), configure(), remove().      *)

\* Faulty variant: a file that cannot be read is no reason not to bind.
BeginUnread ==
  /\ exists /\ LockFree
  /\ ~IsBound
  /\ generations < Bindings
  /\ generations' = generations + 1 /\ pending' = generations + 1
  /\ UNCHANGED <<Store, write, gate, queue, at, exists, begun, faults, wire>>

Begin ==
  /\ exists /\ LockFree
  /\ ~storage_error /\ ~IsBound
  /\ generations < Bindings
  /\ generations' = generations + 1 /\ pending' = generations + 1
  /\ UNCHANGED <<Store, write, gate, queue, at, exists, begun, faults, wire>>

\* The code has been scanned and confirmed.
Confirm ==
  /\ at["binder"].pc = "idle" /\ LockFree
  /\ pending # 0 /\ exists
  /\ Save("binder", [memory EXCEPT !.generation = pending, !.enabled = TRUE,
                        !.reminders = TRUE, !.context = FALSE, !.paused = FALSE,
                        !.rows = [k \in Keys |-> "none"]], memory)
  /\ Goto("binder", "write")
  /\ UNCHANGED <<Store, gate, queue, World, wire>>

Confirmed == \E ok \in BOOLEAN :
  /\ at["binder"].pc = "write" /\ Written("binder", ok)
  /\ pending' = IF ok THEN 0 ELSE pending
  /\ wire' = IF ok THEN NothingSent ELSE wire
  /\ Return("binder")
  /\ UNCHANGED <<gate, queue, generations, exists, begun>>

\* One request of the page at a time; it steps into the gate and the lock of the
\* store at once, as nothing is read between the two.
RequestAt(pc) == at["request"].pc = pc

Configure == \E enabled, reminders \in BOOLEAN :
  LET settings == [memory EXCEPT !.enabled = enabled, !.reminders = reminders] IN
  /\ RequestAt("idle") /\ exists /\ gate = "nobody" /\ LockFree
  /\ IF IsBound
     THEN /\ Save("request", settings, memory) /\ gate' = "request"
          /\ at' = [at EXCEPT !["request"].pc = "write", !["request"].note = "disabled"]
     ELSE UNCHANGED <<write, gate, at>>
  /\ UNCHANGED <<Store, queue, World, wire>>

\* The sequences of the entries of s that pass the test, in their order: one.
Selections(s, Test(_)) ==
  LET I == {i \in DOMAIN s : Test(s[i])}
      N == 1..Cardinality(I)
  IN {[n \in N |-> s[f[n]]] : f \in {g \in [N -> I] : \A m, n \in N : m < n => g[m] < g[n]}}

Configured ==
  \E ok \in BOOLEAN, reminding \in Selections(queue, IsReminder),
     ordinary \in Selections(queue, IsOrdinary) :
  LET enabled == write.value.enabled
      reminders == write.value.reminders
      withdrawn == IF enabled /\ reminders THEN <<>> ELSE reminding
  IN
  /\ RequestAt("write") /\ at["request"].note = "disabled" /\ Written("request", ok)
  /\ gate' = "nobody"
  /\ IF ok
     THEN /\ queue' = IF ~enabled THEN <<>>
                      ELSE IF ~reminders THEN ordinary
                      ELSE queue
          /\ IF withdrawn = <<>> THEN Return("request")
             ELSE Noting("request", Head(withdrawn), "disabled", Tail(withdrawn))
     ELSE Return("request") /\ UNCHANGED queue
  /\ UNCHANGED <<Outside, wire>>

\* remove(): unbound in memory whatever becomes of the file; the workers are
\* cancelled.
Unbinding ==
  /\ gate = "nobody" /\ LockFree
  /\ pending' = 0 /\ queue' = <<>>
  /\ memory' = Unbound(memory)
  /\ LET cancelled == [at EXCEPT !["sender"] = Idle, !["poller"] = Idle] IN
       IF IsBound
       THEN /\ Save("request", Unbound(memory), Unbound(memory)) /\ gate' = "request"
            /\ at' = [cancelled EXCEPT !["request"] = [Idle EXCEPT !.pc = "write"]]
       ELSE at' = [cancelled EXCEPT !["request"] = Idle] /\ UNCHANGED <<write, gate>>
  /\ UNCHANGED <<file, storage_error, generations, exists, begun, faults, wire>>

Unbind == RequestAt("idle") /\ exists /\ Unbinding

\* dispose_account(): the account is out of the registry, then unbound.
Dispose ==
  /\ RequestAt("idle") /\ exists
  /\ exists' = FALSE
  /\ Goto("request", "dispose")
  /\ UNCHANGED <<Store, write, gate, queue, pending, generations, begun, faults, wire>>

Disposing == RequestAt("dispose") /\ Unbinding

UnbindDone == \E ok \in BOOLEAN :
  /\ RequestAt("write") /\ at["request"].note = "none" /\ Written("request", ok)
  /\ Return("request") /\ LetGo("request")
  /\ UNCHANGED <<queue, Outside, wire>>

Request == Configure \/ Configured \/ Unbind \/ Dispose \/ Disposing \/ UnbindDone
-----------------------------------------------------------------------------
(* The world around.                                                       *)

Login == /\ ~exists /\ exists' = TRUE
         /\ UNCHANGED <<Store, write, gate, queue, at, pending, generations, begun,
                        faults, wire>>

LessonBegins == \E k \in Keys \ begun :
  /\ Cardinality(begun) < Beginnings
  /\ \A l \in Keys : Start[l] < Start[k] => l \in begun
  /\ begun' = begun \cup {k}
  /\ UNCHANGED <<Store, write, gate, queue, at, pending, generations, exists,
                 faults, wire>>

\* The hour after a lost session is over.
PauseEnds ==
  LET over(b) == [b EXCEPT !.paused = FALSE] IN
  /\ memory.paused
  /\ memory' = over(memory) /\ file' = over(file)
  /\ write' = IF write = NoWrite THEN NoWrite
              ELSE [write EXCEPT !.value = over(@), !.otherwise = over(@)]
  /\ UNCHANGED <<storage_error, gate, queue, at, World, wire>>

\* Faulty variant: what was on its way is too old.
RetiredAsExpired(b) == [b EXCEPT !.rows = [k \in Keys |->
                          IF @[k] \in {"queued", "sending"} THEN "expired" ELSE @[k]]]

\* start(): what waited or was on its way is not sent again.
Retired(b) == [b EXCEPT !.rows = [k \in Keys |->
                 IF @[k] \in {"queued", "sending"} THEN "not_replayed" ELSE @[k]]]

\* The process ends, in order or not, a write done or not; start() reads the
\* file, or cannot.
Restart == \E disk \in {file} \cup (IF write = NoWrite THEN {} ELSE {write.value}) :
  /\ faults < Faults /\ faults' = faults + 1
  /\ \/ memory' = Unbound([others |-> FALSE]) /\ file' = disk /\ storage_error' = TRUE
     \/ /\ memory' = Retired(disk)
        /\ \/ file' = Retired(disk) /\ storage_error' = FALSE
           \/ Retired(disk) # disk /\ file' = disk /\ storage_error' = TRUE
  /\ write' = NoWrite /\ gate' = "nobody" /\ queue' = <<>>
  /\ at' = [p \in Procs |-> Idle] /\ pending' = 0
  /\ wire' = IF disk.generation \in {0, file.generation} THEN wire ELSE NothingSent
  /\ UNCHANGED <<generations, exists, begun>>

Next ==
  \/ Sender \/ Poller \/ Reminder \/ Drain \/ Begin \/ Confirm \/ Confirmed
  \/ Request
  \/ \E p \in Procs : Note(p) \/ NoteWritten(p)
  \/ Login \/ LessonBegins \/ PauseEnds \/ Restart

Spec == Init /\ [][Next]_vars
-----------------------------------------------------------------------------
\* A reminder leaves at most once for a binding, however often the process is
\* restarted, writes fail, or the lesson is found due (claim_reminder, start).
AtMostOnce == \A k \in Keys : wire.sent[k] <= 1

\* Nothing leaves for a student who has switched the channel off, nor of a former
\* binding, nor a reminder that was switched off or whose lesson has begun:
\* whatever request has returned by then, and between the mark on the disk and
\* the sending (sender, configure, remove).
OnlyWhileWanted ==
  [][at["sender"].pc # "reply" /\ at'["sender"].pc = "reply" =>
       LET e == Sending IN
       /\ memory.generation = e.generation /\ memory.enabled /\ memory.context
       /\ IsReminder(e) => memory.reminders /\ e.key \notin begun]_vars

\* A reminder on its way is on the disk as being sent: whatever happens then, the
\* next process does not take it for one that never left (delivery).
MarkedBefore ==
  SenderAt("reply") /\ IsReminder(Sending) =>
    /\ file.generation = Sending.generation
    /\ file.rows[Sending.key] = "sending"

\* What the student is told of a reminder is true: accepted, if the provider has
\* accepted it; not sent, if nothing of it was sent.
HonestRows == \A b \in {memory, file} : \A k \in Keys :
  /\ b.rows[k] = "accepted" => k \in wire.accepted
  /\ b.rows[k] \in Unsent => wire.sent[k] = 0

\* A claimed reminder, that nobody will claim again, does not make room for an
\* ordinary notice, nor for a lesson that begins later (enqueue).
KeepsReminders ==
  [][LET lessUrgent(e) == \A d \in Range(queue') :
                            IsReminder(d) /\ Start[d.key] <= Start[e.key]
         told == at'["reminder"]
     IN /\ Full /\ Len(queue') = Len(queue) =>
             \A e \in Range(queue) \ Range(queue') : IsReminder(e) => lessUrgent(e)
        /\ at["reminder"].pc = "write" /\ told.pc = "note" /\ told.note = "queue_full" =>
             lessUrgent(told.entry)]_vars

\* The bindings of the other students are not lost, not even when the file could
\* not be read and this student binds anew (start, begin).
OthersKept == file.others

\* "disable records unsent reminder" (tests/test_wechat_delivery_audit.py): no
\* reminder stays queued that nobody holds any more, but for an account that is
\* being removed.
NoneLeftQueued == \A k \in Keys :
  memory.rows[k] = "queued" /\ exists /\ ~RequestAt("dispose") =>
    \E e \in Range(queue) \cup UNION {{at[p].entry} \cup Range(at[p].rest) : p \in Procs} :
      e.key = k /\ Current(e)
=============================================================================

----------------------------- MODULE PrefixCache -----------------------------
(***************************************************************************)
(* The prefix cache at work: the engine's front end, the reader and the     *)
(* writer thread of server/prefix_cache.rs over the index (CacheIndex), the *)
(* files of FsBackend (cache/fs.rs) and the staging buffers.                *)
(*                                                                         *)
(* Three locks are taken one after the other and never together, except     *)
(* that the serial `read` deletes under the index lock: every action holds  *)
(* one of them.  A write to disk spans two actions, and everybody else who  *)
(* needs the backend waits for it.  Sizes are in pages.                     *)
(***************************************************************************)
EXTENDS CacheIndex

CONSTANTS Modes,        \* of the engine: "serial", "continuous"
          Requests,     \* a sequence of [prompt, full]: the text and what it becomes
          StagingSizes, \* budgets the staging buffers may be given (--cache-staging-mib)
          ReusePages,   \* a free buffer up to twice this size suits any object
          ReaderCap,    \* capacity of the reader's queue
          WriterCap,    \* capacity of the writer's queue
          MaxEvents     \* bound: restarts, failures of the disk or of try_lock
                        \* and times that an object becomes idle, all together

VARIABLES mode,    \* of the engine
          ix,      \* the index
          idle,    \* names that are idle for longer than their ttl
          files,   \* the objects on disk
          tmps,    \* the temporary files
          stored,  \* the names in index.json, in their order
          lost,    \* files left behind by a failure
          st,      \* staging: its budget, pages allocated, capacities of the free buffers
          e,       \* the engine thread
          ch,      \* the channel of its restore: message, is the sender alive
          r, rq,   \* the reader thread and its queue
          w, wq,   \* the writer thread and its queue
          asked,   \* how many of the requests were made
          events   \* what MaxEvents bounds

vars == <<mode, ix, idle, files, tmps, stored, lost, st, e, ch, r, rq, w, wq, asked, events>>
run == <<mode, asked>>
disk == <<files, tmps, stored, lost>>
index == <<ix, idle>>
threads == <<r, rq, w, wq>>

ASSUME StagingAssumption == StagingSizes \subseteq Nat  \* none is rejected
ASSUME RequestsAssumption ==
  /\ Requests \in Seq([prompt : Seq(Token), full : Seq(Token)])
  /\ \A q \in ToSet(Requests) : Len(q.prompt) <= Len(q.full) /\ q.prompt = Prefix(q.full, Len(q.prompt))
ASSUME BoundsAssumption ==
  /\ Modes \subseteq {"serial", "continuous"}
  /\ ReusePages \in Nat /\ ReaderCap \in Nat \ {0} /\ WriterCap \in Nat \ {0} /\ MaxEvents \in Nat

-----------------------------------------------------------------------------
(***************************************************************************)
(* Staging                                                                  *)
(***************************************************************************)
Larger(a, b) == IF a > b THEN a ELSE b
Reusable(s, len) ==
  {i \in DOMAIN s.free : s.free[i] >= len /\ s.free[i] <= 2 * Larger(len, ReusePages)}
Smallest(s, I) ==
  CHOOSE i \in I : \A k \in I : s.free[i] < s.free[k] \/ (s.free[i] = s.free[k] /\ i <= k)
SwapRemove(q, i) == [k \in 1 .. Len(q) - 1 |-> IF k = i THEN q[Len(q)] ELSE q[k]]

\* Free buffers are dropped, the last one first, while there is no room.
RoomFor(s, len) ==
  LET n == Len(s.free)
      after(k) == [s EXCEPT !.alloc = @ - Total(SubSeq(s.free, n - k + 1, n)), !.free = SubSeq(@, 1, n - k)]
  IN  after(Min({k \in 0 .. n : k = n \/ after(k).alloc + len <= s.budget}))

\* take: the capacity of the buffer, 0 if there is none, and the staging after.
Reused(s, i) == [cap |-> s.free[i], st |-> [s EXCEPT !.free = SwapRemove(@, i)]]
Allocated(x, len) == [cap |-> len, st |-> [x EXCEPT !.alloc = @ + len]]
Refused(x) == [cap |-> 0, st |-> x]
Taken(s, len) ==
  LET I == Reusable(s, len)
      x == RoomFor(s, len)
  IN  IF I # {} THEN Reused(s, Smallest(s, I))
      ELSE IF x.alloc + len <= s.budget THEN Allocated(x, len) ELSE Refused(x)

Given(s, cap) == [s EXCEPT !.free = Append(@, cap)]

\* Staging::new; before continuous requests, warm_staging takes the common
\* sizes and gives back those there was room for.
Warmed(x, len) ==
  LET t == Taken(x.st, len)
  IN  [st |-> t.st, caps |-> IF t.cap > 0 THEN Append(x.caps, t.cap) ELSE x.caps]
WarmedBoth(x) == Warmed(Warmed(x, SnapBytes), ChunkLen)
NoStaging(size) == [budget |-> size, alloc |-> 0, free |-> << >>]
NewStaging(m, size) ==
  LET warm == WarmedBoth(WarmedBoth([st |-> NoStaging(size), caps |-> << >>]))
  IN  IF m = "serial" THEN NoStaging(size) ELSE [warm.st EXCEPT !.free = @ \o warm.caps]

-----------------------------------------------------------------------------
NoRequest == [prompt |-> << >>, full |-> << >>]
NoObject == Snapshot(<< >>, CHOOSE role \in Role : TRUE)
NoJob == [object |-> NoObject, flush |-> FALSE, cap |-> 0]
NoTask == [text |-> << >>, live |-> FALSE]

\* The three threads at rest.
Idle == [pc |-> "idle", req |-> NoRequest, plan |-> << >>, at |-> 1, buf |-> 0, rows |-> {},
         pos |-> 0, names |-> {}, saves |-> << >>]
IdleReader == [pc |-> "idle", task |-> NoTask, plan |-> << >>, at |-> 1, buf |-> 0, names |-> {}]
IdleWriter == [pc |-> "idle", job |-> NoJob, names |-> {}]

Closed == [msgs |-> << >>, open |-> FALSE]
Event == events < MaxEvents /\ events' = events + 1

\* The spans of a text; generated text begins a span of its own.
Border(text, prompt, i) ==
  i \in {0, Len(text), prompt} \/ RoleOf[text[i]] # RoleOf[text[i + 1]]
Spans(text, prompt) ==
  {<<s[1], s[2], RoleOf[text[s[1] + 1]]>> :
     s \in {x \in (0 .. Len(text)) \X (0 .. Len(text)) :
             /\ x[1] < x[2] /\ Border(text, prompt, x[1]) /\ Border(text, prompt, x[2])
             /\ \A z \in x[1] + 1 .. x[2] - 1 : ~Border(text, prompt, z)}}
PromptSpans(text) == Spans(text, 0)

BackendFree == w.pc # "rename"
FileNamed(name) == {o \in files : Name(o) = name}
Without(names) == {o \in files : Name(o) \notin names}

\* get succeeds on a file of that name and size.
Readable(o) == \E f \in files : Name(f) = Name(o) /\ Bytes(f) = Bytes(o)

\* best_restore, under the index lock
Looked(text) == LET gone == Expired(ix, idle) IN
  [gone |-> gone, plan |-> Plan(Dropped(ix, gone), text)]
LookedUp(text) ==
  /\ ix' = Hit(Dropped(ix, Looked(text).gone), Looked(text).plan)
  /\ idle' = (idle \ Looked(text).gone) \ {Name(o) : o \in ToSet(Looked(text).plan)}

TouchedNow(o) == ix' = Touched(ix, Name(o)) /\ idle' = idle \ {Name(o)}
Forgotten(o) == ix' = Dropped(ix, {Name(o)}) /\ idle' = idle \ {Name(o)}

\* Deletions whose failure is ignored.
Deleted(names) ==
  /\ UNCHANGED <<tmps, stored>>
  /\ \/ files' = Without(names) /\ lost' = lost \ names /\ UNCHANGED events
     \/ /\ Event
        /\ \E kept \in (SUBSET {Name(o) : o \in files \ Without(names)}) \ {{}} :
             files' = Without(names \ kept) /\ lost' = (lost \ names) \cup kept

Init ==
  /\ mode \in Modes
  /\ ix = EmptyIndex /\ idle = {}
  /\ files = {} /\ tmps = {} /\ stored = << >> /\ lost = {}
  /\ \E size \in StagingSizes : st = NewStaging(mode, size)
  /\ e = Idle /\ ch = Closed
  /\ r = IdleReader /\ rq = << >> /\ w = IdleWriter /\ wq = << >>
  /\ asked = 0 /\ events = 0

-----------------------------------------------------------------------------
(***************************************************************************)
(* The engine: restore                                                      *)
(***************************************************************************)
NewRestore(q, pc) == [Idle EXCEPT !.pc = pc, !.req = q]

\* A request arrives.  restore_async: a full reader queue is a miss.
Ask ==
  /\ e.pc = "idle" /\ asked < Len(Requests) /\ asked' = asked + 1
  /\ e' = NewRestore(Requests[asked + 1], IF mode = "serial" THEN "lookup" ELSE "receive")
  /\ IF mode = "continuous" /\ Len(rq) < ReaderCap
     THEN rq' = Append(rq, [text |-> Requests[asked + 1].prompt, live |-> TRUE]) /\ ch' = [Closed EXCEPT !.open = TRUE]
     ELSE rq' = rq /\ ch' = Closed
  /\ UNCHANGED <<mode, index, disk, st, r, w, wq, events>>

\* restore: the plan under the index lock, the expired files after it.
Lookup ==
  /\ e.pc = "lookup" /\ LookedUp(e.req.prompt)
  /\ LET look == Looked(e.req.prompt) IN
       e' = [e EXCEPT !.pc = IF look.gone # {} THEN "expire"
                             ELSE IF look.plan = << >> THEN "prefill" ELSE "take",
                      !.plan = look.plan, !.names = look.gone]
  /\ UNCHANGED <<run, disk, st, ch, threads, events>>

Expire ==
  /\ e.pc = "expire" /\ BackendFree /\ Deleted(e.names)
  /\ e' = [e EXCEPT !.pc = IF e.plan = << >> THEN "prefill" ELSE "take", !.names = {}]
  /\ UNCHANGED <<run, index, st, ch, threads>>

\* restore_plan: a buffer for the next object, waited for: for ever, if it is
\* larger than the budget.
Take ==
  /\ e.pc = "take"
  /\ LET t == Taken(st, Bytes(e.plan[e.at])) IN
       /\ st' = t.st
       /\ e' = IF t.cap = 0 THEN e ELSE [e EXCEPT !.pc = "get", !.buf = t.cap]
  /\ UNCHANGED <<run, index, disk, ch, threads, events>>

Object == e.plan[e.at]
Positions(o) == o.start + 1 .. Len(o.text)

\* What an import leaves: rows of positions, or a snapshot that ends the restore.
Imported(x, o) ==
  IF o.kind = "rows"
  THEN [x EXCEPT !.rows = @ \cup Positions(o), !.at = @ + 1]
  ELSE [x EXCEPT !.pos = Len(o.text)]

GetOk ==
  /\ e.pc = "get" /\ BackendFree /\ Readable(Object)
  /\ TouchedNow(Object) /\ st' = Given(st, e.buf)
  /\ e' = [Imported(e, Object) EXCEPT !.pc = IF Object.kind = "rows" THEN "take" ELSE "prefill",
                                      !.buf = 0]
  /\ UNCHANGED <<run, disk, ch, threads, events>>

\* read: an unreadable object is forgotten and deleted, still under the index
\* lock; restore resets the model.
GetFails ==
  /\ e.pc = "get" /\ BackendFree /\ Forgotten(Object)
  /\ st' = Given(st, e.buf)
  /\ UNCHANGED <<tmps, stored>>
  /\ \/ ~Readable(Object) /\ UNCHANGED events
     \/ Readable(Object) /\ Event
  /\ IF Has(ix, Name(Object))
     THEN files' = Without({Name(Object)}) /\ lost' = lost \ {Name(Object)}
     ELSE UNCHANGED <<files, lost>>
  /\ e' = NewRestore(e.req, "prefill")
  /\ UNCHANGED <<run, ch, threads>>

Cancelled(t) == [t EXCEPT !.live = FALSE]

\* Mutant: a message in the channel keeps its buffer.
DropReceiverOnly ==
  /\ ch' = Closed /\ st' = st
  /\ rq' = [i \in DOMAIN rq |-> Cancelled(rq[i])]
  /\ r' = [r EXCEPT !.task = Cancelled(@)]

\* Dropping the receiver: a message in the channel gives its buffer back, and
\* the next send of the reader fails.
DropReceiver ==
  /\ ch' = Closed
  /\ st' = IF ch.msgs # << >> /\ ch.msgs[1].cap > 0 THEN Given(st, ch.msgs[1].cap) ELSE st
  /\ rq' = [i \in DOMAIN rq |-> Cancelled(rq[i])]
  /\ r' = [r EXCEPT !.task = Cancelled(@)]

\* Continuous execution polls the channel once per iteration.
Receive ==
  /\ e.pc = "receive" /\ ch.msgs # << >>
  /\ LET m == ch.msgs[1] IN
       IF m.cap = 0    \* an error
       THEN e' = NewRestore(e.req, "prefill") /\ DropReceiver
       ELSE /\ e' = [Imported(e, m.object) EXCEPT
                       !.pc = IF m.object.kind = "rows" THEN "receive" ELSE "prefill"]
            /\ IF m.object.kind = "rows"
               THEN ch' = [ch EXCEPT !.msgs = << >>] /\ st' = Given(st, m.cap) /\ UNCHANGED <<r, rq>>
               ELSE DropReceiver
  /\ UNCHANGED <<run, index, disk, w, wq, events>>

\* The sender is gone: a miss, or a restore that has to start over.
Disconnected ==
  /\ e.pc = "receive" /\ ch = Closed
  /\ e' = NewRestore(e.req, "prefill")
  /\ UNCHANGED <<run, index, disk, st, ch, threads, events>>

\* The client is gone: nothing is stored.
Cancel ==
  /\ e.pc \in {"receive", "prefill"}
  /\ e' = Idle /\ DropReceiver
  /\ UNCHANGED <<run, index, disk, w, wq, events>>

-----------------------------------------------------------------------------
(***************************************************************************)
(* The engine: save.  A save is a sequence of jobs; those of one call of    *)
(* snapshot_now or save_ready are given up together.                        *)
(***************************************************************************)
\* The jobs of some objects; those from "first" on flush the index.
JobsOf(objects, first) ==
  [i \in DOMAIN objects |-> [object |-> objects[i], flush |-> i >= first]]

\* The snapshot points of the prompt that are not restored.
Points(q, from) ==
  InOrder({p[1] : p \in SnapshotPoints(PromptSpans(q.prompt), from, Len(q.prompt))})

\* snapshot_now at every snapshot point, then save.
SerialSaves(q, from) ==
  LET points == Points(q, from)
      all == SavedObjects(q.full, Spans(q.full, Len(q.prompt)))
      rows == {i \in DOMAIN all : all[i].kind = "rows"}
  IN  Append([i \in DOMAIN points |->
                [waits |-> FALSE,
                 jobs  |-> << [object |-> Snapshot(Prefix(q.prompt, points[i]), RoleOf[q.prompt[points[i]]]),
                               flush |-> FALSE] >>]],
             [waits |-> TRUE, jobs |-> JobsOf(all, Cardinality(rows))])

\* save_ready at every snapshot point and at the end.
ReadySave(text, prompt) ==
  [waits |-> FALSE, jobs |-> JobsOf(SavedObjects(text, Spans(text, prompt)), 1)]
ContinuousSaves(q, from) ==
  LET points == Points(q, from)
  IN  Append([i \in DOMAIN points |-> ReadySave(Prefix(q.prompt, points[i]), 0)],
             ReadySave(q.full, Len(q.prompt)))

\* The jobs after this one, or without the rest of its call.
Rest(saves) == IF Len(saves[1].jobs) > 1 THEN [saves EXCEPT ![1].jobs = Tail(@)] ELSE Tail(saves)
Saving(saves) == [Idle EXCEPT !.pc = "has", !.saves = saves]
Storing(saves) == IF saves = << >> THEN Idle ELSE Saving(saves)

\* The saves that have something to store.
Needed(saves) == Only(saves, {s \in ToSet(saves) : s.jobs # << >>})

\* The prompt is prefilled and the answer generated.
Generate ==
  /\ e.pc = "prefill"
  /\ e' = Storing(Needed(IF mode = "serial" THEN SerialSaves(e.req, e.pos) ELSE ContinuousSaves(e.req, e.pos)))
  /\ UNCHANGED <<run, index, disk, st, ch, threads, events>>

Job == e.saves[1].jobs[1]
Kept == Storing(Rest(e.saves))   \* what follows a job that is done
GivenUp == Storing(Tail(e.saves))

\* The index is asked; save_ready gives up if somebody holds it.
SaveHas ==
  /\ e.pc = "has"
  /\ \/ /\ e' = IF Has(ix, Name(Job.object)) THEN Kept ELSE [e EXCEPT !.pc = "save"]
        /\ UNCHANGED events
     \/ mode = "continuous" /\ w.pc \in {"insert", "flush"} /\ e' = GivenUp /\ Event
  /\ UNCHANGED <<run, index, disk, st, ch, threads>>

\* A buffer is taken and filled, waited for by save only; the others give up
\* if somebody holds the staging lock.
SaveTake ==
  /\ e.pc = "save"
  /\ \/ /\ LET t == Taken(st, Bytes(Job.object)) IN
            /\ st' = t.st
            /\ e' = IF t.cap > 0 THEN [e EXCEPT !.pc = "send", !.buf = t.cap]
                    ELSE IF e.saves[1].waits THEN e ELSE GivenUp
        /\ UNCHANGED events
     \/ ~e.saves[1].waits /\ e' = GivenUp /\ UNCHANGED st /\ Event
  /\ UNCHANGED <<run, index, disk, ch, threads>>

\* The job goes to the writer; save_ready gives up when its queue is full,
\* the serial engine waits.
SaveSend ==
  /\ e.pc = "send"
  /\ IF Len(wq) < WriterCap
     THEN wq' = Append(wq, [object |-> Job.object, flush |-> Job.flush, cap |-> e.buf])
          /\ e' = Kept /\ UNCHANGED st
     ELSE mode = "continuous" /\ e' = GivenUp /\ st' = Given(st, e.buf) /\ UNCHANGED wq
  /\ UNCHANGED <<run, index, disk, ch, r, rq, w, events>>

-----------------------------------------------------------------------------
(***************************************************************************)
(* The writer thread                                                        *)
(***************************************************************************)
Tmp(name) == <<"tmp", name>>

\* put: the temporary file, ...
WritePut ==
  /\ w.pc = "idle" /\ wq # << >>
  /\ wq' = Tail(wq) /\ tmps' = tmps \cup {Tmp(Name(wq[1].object))}
  /\ \/ w' = [pc |-> "rename", job |-> wq[1], names |-> {}] /\ UNCHANGED <<lost, events>>
     \/ /\ w' = [pc |-> "flush", job |-> wq[1], names |-> {}]
        /\ lost' = lost \cup {Tmp(Name(wq[1].object))} /\ Event
  /\ UNCHANGED <<run, index, files, stored, st, e, ch, r, rq>>

\* ... synced and renamed into place.
WriteRename ==
  /\ w.pc = "rename"
  /\ LET name == Name(w.job.object) IN
     \/ /\ w' = [w EXCEPT !.pc = "insert"] /\ tmps' = tmps \ {Tmp(name)}
        /\ files' = Without({name}) \cup {w.job.object} /\ lost' = lost \ {name, Tmp(name)}
        /\ UNCHANGED events
     \/ /\ w' = [w EXCEPT !.pc = "flush"] /\ lost' = lost \cup {Tmp(name)} /\ Event
        /\ UNCHANGED <<files, tmps>>
  /\ UNCHANGED <<run, index, stored, st, e, ch, r, rq, wq>>

\* insert: what expired or was evicted leaves the index at once.
WriteInsert ==
  /\ w.pc = "insert"
  /\ ix' = Inserted(ix, idle, w.job.object)
  /\ idle' = (idle \ {Name(w.job.object)}) \cap Names(ix')
  /\ LET gone == (Names(ix) \cup {Name(w.job.object)}) \ Names(ix') IN
       w' = [w EXCEPT !.pc = IF gone = {} THEN "flush" ELSE "delete", !.names = gone]
  /\ UNCHANGED <<run, disk, st, e, ch, r, rq, wq, events>>

\* Its files are deleted under one lock; the first failure ends it.
WriteDelete ==
  /\ w.pc = "delete" /\ w' = [w EXCEPT !.pc = "flush", !.names = {}]
  /\ Deleted(w.names)
  /\ UNCHANGED <<run, index, st, e, ch, r, rq, wq>>

\* The index is written if the job asks for it; a failure changes nothing.
Flushed(job) ==
  \/ /\ stored' = IF job.flush THEN [i \in DOMAIN ix.order |-> Name(ix.order[i])] ELSE stored
     /\ UNCHANGED events
  \/ job.flush /\ UNCHANGED stored /\ Event

\* Mutant: the buffer of a write that failed is forgotten.
WriteFlushLeaks ==
  /\ w.pc = "flush" /\ w' = IdleWriter /\ Flushed(w.job)
  /\ st' = IF Tmp(Name(w.job.object)) \in lost THEN st ELSE Given(st, w.job.cap)
  /\ UNCHANGED <<run, index, files, tmps, lost, e, ch, r, rq, wq>>

\* flush, and the buffer goes back.
WriteFlush ==
  /\ w.pc = "flush" /\ w' = IdleWriter /\ Flushed(w.job)
  /\ st' = Given(st, w.job.cap)
  /\ UNCHANGED <<run, index, files, tmps, lost, e, ch, r, rq, wq>>

-----------------------------------------------------------------------------
(***************************************************************************)
(* The reader thread                                                        *)
(***************************************************************************)
\* The sender is dropped with the task.
ReadEnds(live) == r' = IdleReader /\ ch' = IF live THEN [ch EXCEPT !.open = FALSE] ELSE ch

ReadLookupKeeps ==  \* mutant: what expired is not deleted
  /\ r.pc = "idle" /\ rq # << >> /\ rq' = Tail(rq) /\ LookedUp(rq[1].text)
  /\ LET look == Looked(rq[1].text)
         t == [IdleReader EXCEPT !.task = rq[1], !.plan = look.plan]
     IN  IF look.plan = << >> THEN ReadEnds(rq[1].live)
         ELSE r' = [t EXCEPT !.pc = "take"] /\ UNCHANGED ch
  /\ UNCHANGED <<run, disk, st, e, w, wq, events>>

ReadLookup ==
  /\ r.pc = "idle" /\ rq # << >> /\ rq' = Tail(rq) /\ LookedUp(rq[1].text)
  /\ LET look == Looked(rq[1].text)
         t == [IdleReader EXCEPT !.task = rq[1], !.plan = look.plan, !.names = look.gone]
     IN  IF look.gone # {} THEN r' = [t EXCEPT !.pc = "expire"] /\ UNCHANGED ch
         ELSE IF look.plan = << >> THEN ReadEnds(rq[1].live)
         ELSE r' = [t EXCEPT !.pc = "take"] /\ UNCHANGED ch
  /\ UNCHANGED <<run, disk, st, e, w, wq, events>>

ReadExpire ==
  /\ r.pc = "expire" /\ BackendFree /\ Deleted(r.names)
  /\ IF r.plan = << >> THEN ReadEnds(r.task.live)
     ELSE r' = [r EXCEPT !.pc = "take", !.names = {}] /\ UNCHANGED ch
  /\ UNCHANGED <<run, index, st, e, rq, w, wq>>

\* The reader never waits for staging: without a buffer, or if somebody holds
\* the lock, the restore fails.
ReadTake ==
  /\ r.pc = "take"
  /\ \/ /\ LET t == Taken(st, Bytes(r.plan[r.at])) IN
            st' = t.st /\ r' = [r EXCEPT !.pc = IF t.cap > 0 THEN "get" ELSE "error", !.buf = t.cap]
        /\ UNCHANGED events
     \/ r' = [r EXCEPT !.pc = "error"] /\ UNCHANGED st /\ Event
  /\ UNCHANGED <<run, index, disk, e, ch, rq, w, wq>>

ReadGet ==
  /\ r.pc = "get" /\ BackendFree
  /\ \/ Readable(r.plan[r.at]) /\ r' = [r EXCEPT !.pc = "touch"] /\ UNCHANGED <<st, events>>
     \/ /\ r' = [r EXCEPT !.pc = "forget", !.buf = 0] /\ st' = Given(st, r.buf)
        /\ \/ ~Readable(r.plan[r.at]) /\ UNCHANGED events
           \/ Readable(r.plan[r.at]) /\ Event
  /\ UNCHANGED <<run, index, disk, e, ch, rq, w, wq>>

\* Only the index entry is touched, if it is still there.
ReadTouch ==
  /\ r.pc = "touch" /\ TouchedNow(r.plan[r.at])
  /\ r' = [r EXCEPT !.pc = "send"]
  /\ UNCHANGED <<run, disk, st, e, ch, rq, w, wq, events>>

\* One object fits into the channel; a send to a dropped receiver fails and
\* drops the object.
ReadSend ==
  /\ r.pc = "send"
  /\ IF r.task.live
     THEN /\ ch.msgs = << >>
          /\ ch' = [msgs |-> << [object |-> r.plan[r.at], cap |-> r.buf] >>, open |-> r.at < Len(r.plan)]
          /\ r' = IF r.at < Len(r.plan) THEN [r EXCEPT !.pc = "take", !.at = @ + 1, !.buf = 0] ELSE IdleReader
          /\ UNCHANGED st
     ELSE r' = IdleReader /\ st' = Given(st, r.buf) /\ UNCHANGED ch
  /\ UNCHANGED <<run, index, disk, e, rq, w, wq, events>>

\* An unreadable object leaves the index, and then the disk.
ReadForget ==
  /\ r.pc = "forget" /\ Forgotten(r.plan[r.at])
  /\ r' = IF Has(ix, Name(r.plan[r.at]))
          THEN [r EXCEPT !.pc = "delete", !.names = {Name(r.plan[r.at])}]
          ELSE [r EXCEPT !.pc = "error"]
  /\ UNCHANGED <<run, disk, st, e, ch, rq, w, wq, events>>

ReadDelete ==
  /\ r.pc = "delete" /\ BackendFree /\ Deleted(r.names)
  /\ r' = [r EXCEPT !.pc = "error", !.names = {}]
  /\ UNCHANGED <<run, index, st, e, ch, rq, w, wq>>

ReadError ==
  /\ r.pc = "error" /\ (r.task.live => ch.msgs = << >>)
  /\ r' = IdleReader
  /\ ch' = IF r.task.live THEN [msgs |-> << [object |-> NoObject, cap |-> 0] >>, open |-> FALSE] ELSE ch
  /\ UNCHANGED <<run, index, disk, st, e, rq, w, wq, events>>

-----------------------------------------------------------------------------
(***************************************************************************)
(* Time and restarts                                                        *)
(***************************************************************************)
Ageing == {o \in ToSet(ix.order) : o.role \in Expiring}

\* An object was not used for longer than its role's ttl.
Age ==
  /\ Event
  /\ \E o \in Ageing : Name(o) \notin idle /\ idle' = idle \cup {Name(o)}
  /\ UNCHANGED <<run, ix, disk, st, e, ch, threads>>

\* open_with over what is on disk: FsBackend::open removes temporary files,
\* hit times since the last flush are forgotten, so that more objects may be
\* idle, and what is expired or over the budget is deleted.  The options are
\* those of before.
Start(index_json) ==
  /\ \E old \in SUBSET {Name(o) : o \in {x \in files : x.role \in Expiring}} :
       /\ idle \subseteq old \cup {n \in idle : FileNamed(n) = {}}
       /\ ix' = Opened(files, index_json, old)
       /\ idle' = old \cap Names(ix')
  /\ files' = {o \in files : Name(o) \in Names(ix')}
  /\ tmps' = {} /\ lost' = {} /\ stored' = index_json
  /\ st' = NewStaging(mode, st.budget)
  /\ e' = Idle /\ ch' = Closed /\ r' = IdleReader /\ rq' = << >> /\ w' = IdleWriter /\ wq' = << >>
  /\ UNCHANGED run

Crash == Event /\ Start(stored)

\* Drop joins the reader and then the writer, which drains its queue and
\* flushes.
Restart ==
  /\ e.pc = "idle" /\ r.pc = "idle" /\ rq = << >> /\ w.pc = "idle" /\ wq = << >>
  /\ Event
  /\ Start([i \in DOMAIN ix.order |-> Name(ix.order[i])])

Engine == \/ Lookup \/ Expire \/ Take \/ GetOk \/ GetFails \/ Receive \/ Disconnected
          \/ Generate \/ SaveHas \/ SaveTake \/ SaveSend
Writer == WritePut \/ WriteRename \/ WriteInsert \/ WriteDelete \/ WriteFlush
Reader == \/ ReadLookup \/ ReadExpire \/ ReadTake \/ ReadGet \/ ReadTouch
          \/ ReadSend \/ ReadForget \/ ReadDelete \/ ReadError
Next == \/ Ask \/ Engine \/ Cancel \/ Writer \/ Reader \/ Age \/ Crash \/ Restart

\* Fairness: a thread that can step does, again and again; written with the
\* condition under which it can, which is cheaper to evaluate than ENABLED.
EngineCan ==
  \/ e.pc \in {"lookup", "prefill", "has"}
  \/ e.pc \in {"expire", "get"} /\ BackendFree
  \/ e.pc = "take" /\ Taken(st, Bytes(Object)).cap > 0
  \/ e.pc = "save" /\ (e.saves[1].waits => Taken(st, Bytes(Job.object)).cap > 0)
  \/ e.pc = "send" /\ (mode = "continuous" \/ Len(wq) < WriterCap)
  \/ e.pc = "receive" /\ (ch = Closed \/ ch.msgs # << >>)
WriterCan == w.pc # "idle" \/ wq # << >>
ReaderCan ==
  \/ r.pc = "idle" /\ rq # << >>
  \/ r.pc \in {"take", "touch", "forget"}
  \/ r.pc \in {"expire", "get", "delete"} /\ BackendFree
  \/ r.pc \in {"send", "error"} /\ (r.task.live => ch.msgs = << >>)
Fairness == /\ []<>~EngineCan \/ []<><<Engine>>_vars
            /\ []<>~WriterCan \/ []<><<Writer>>_vars
            /\ []<>~ReaderCan \/ []<><<Reader>>_vars
Spec == Init /\ [][Next]_vars /\ Fairness

-----------------------------------------------------------------------------
(***************************************************************************)
(* Properties                                                               *)
(***************************************************************************)
ObjectsOf(text) ==
  UNION {{Rows(Prefix(text, n), s, RoleOf[text[n]]) : s \in 0 .. n - 1} \cup
         {Snapshot(Prefix(text, n), RoleOf[text[n]])} : n \in DOMAIN text}
Objects == UNION {ObjectsOf(q.full) : q \in ToSet(Requests)}

\* Types: the index and the disk hold objects of the requests, one per name.
TypeOK ==
  /\ ToSet(ix.order) \subseteq Objects /\ files \subseteq Objects
  /\ IsInjective([i \in DOMAIN ix.order |-> Name(ix.order[i])])
  /\ Cardinality({Name(o) : o \in files}) = Cardinality(files)
  /\ Len(wq) <= WriterCap /\ Len(rq) <= ReaderCap /\ Len(ch.msgs) <= 1
  /\ idle \subseteq Names(ix)

\* The index counts exactly the bytes of its objects, through insertions,
\* evictions, expiry, forgetting and restarts, and they fit the budget
\* (cache.rs: insert_entry, remove, evict_to_budget).
BudgetKept ==
  /\ ix.used = SumFunctionOnSet([o \in ToSet(ix.order) |-> Footprint(o)], ToSet(ix.order))
  /\ ix.used <= Budget

\* When prefill starts, the restored state is that of a prefix of the prompt:
\* the rows of all positions before the snapshot and no other, whatever was
\* evicted, expired, unreadable or cancelled meanwhile (prefix_cache.rs:
\* restore, restore_async; continuous.rs: restore_failed).
RestoreSound ==
  e.pc = "prefill" => /\ e.rows = 1 .. e.pos
                      /\ e.pos <= Len(e.req.prompt)

\* A file that the index does not know is about to be indexed or deleted, or
\* was left by a failed write or deletion; a restart finds those (writer_loop,
\* read, delete_all).
InFlight ==
  (IF w.pc = "idle" THEN {} ELSE {Name(w.job.object), Tmp(Name(w.job.object))}) \cup
  w.names \cup r.names \cup e.names
NoLeak == ({Name(o) : o \in files} \ Names(ix)) \cup tmps \subseteq InFlight \cup lost

\* Every page of staging is in a free buffer or leased by exactly one job,
\* message or thread, and together they fit the budget (Staging, RestoreObject).
Leased ==
  e.buf + r.buf + w.job.cap +
  Total([i \in DOMAIN wq |-> wq[i].cap]) + Total([i \in DOMAIN ch.msgs |-> ch.msgs[i].cap])
StagingConserved ==
  /\ st.alloc = Total(st.free) + Leased
  /\ st.alloc <= st.budget

\* The budget evicts nothing of a higher tier while something of a lower one
\* stays, and a restart keeps that order (the lru map; open_with).
EvictsLowest ==
  [][(WriteInsert \/ Crash \/ Restart) =>
       \A o \in ToSet(ix.order) :
         \/ Name(o) \in Names(ix') \/ o.role \in Expiring \/ FileNamed(Name(o)) = {}
         \/ \A x \in ToSet(ix'.order) : Tier[x.role] >= Tier[o.role]]_vars

\* The engine waits for a buffer that is larger than the whole budget.
Oversized ==
  \/ e.pc = "take" /\ Bytes(Object) > st.budget
  \/ e.pc = "save" /\ e.saves[1].waits /\ Bytes(Job.object) > st.budget

\* A request is served, be the staging full, the disk failing or the reader
\* busy with a cancelled restore, unless a restore or save of the serial engine
\* needs a buffer larger than the whole staging budget.  That one waits for
\* ever: nothing compares --cache-staging-mib with the size of a snapshot or of
\* a chunk (CacheCfg::validate, cache_opts, PrefixCache::open, Staging::new).
EngineServed == e.pc # "idle" ~> e.pc = "idle" \/ Oversized
=============================================================================

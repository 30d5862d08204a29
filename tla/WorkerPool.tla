----------------------------- MODULE WorkerPool -----------------------------
(***************************************************************************)
(* The worker pool of tr-sys/src/pool.rs executing run closures.           *)
(*                                                                         *)
(* Pool::run stores the closure, publishes a new run number node by node,  *)
(* executes the closure as worker <<0, 0>> and returns when every other    *)
(* worker has stored the number in its done word.  In a closure the        *)
(* workers meet at barriers of their node or of all nodes, built from one  *)
(* arrive word per worker and a leader flag and a release word per node;   *)
(* the generations they hold start at run << 32.                           *)
(*                                                                         *)
(* Every load and store of a word is a step.  The loads acquire and the    *)
(* stores release, so interleavings are what the code can show.  A spin    *)
(* loop over several words is one step: the words only grow while someone  *)
(* waits for them.  Sleeping on the futex is left out: a sleeper is woken  *)
(* by the publish or after 50 ms, and then looks at the word again.        *)
(***************************************************************************)
EXTENDS Accesses

CONSTANTS
    Jobs,       \* run closures
    Models,     \* models (machine layouts) the closures are built for
    Program,    \* Program[m][j][w]: the phases of closure j on worker w
    Schedule,   \* Schedule[r]: the closures run number r may be given
    GenBase     \* the generations of run r start at r * GenBase (1 << 32)

\* Program, as a definition: TLC computes it once.
Code == Program

\* Code[m][j][w] is a sequence of phases that ends with kind "end"; the
\* workers of a node take the same barriers (pool.rs:84: "every worker of
\* the node must call it the same number of times").
ASSUME ProgramAssumption ==
    /\ Jobs # {}
    /\ Schedule \in Seq(SUBSET Jobs)
    /\ GenBase \in Nat \ {0}
    /\ \A m \in Models, j \in Jobs : Code[m][j] \in [Workers -> Seq(Phases)]
    /\ \A m \in Models, j \in Jobs, w \in Workers :
        LET program == Code[m][j][w] IN
        /\ Len(program) \in 1 .. GenBase
        /\ \A k \in 1 .. Len(program) :
            /\ program[k].kind = "end" <=> k = Len(program)
            /\ program[k].kind = Code[m][j][LeaderOf(NodeOf(w))][k].kind

VARIABLES
    model,          \* the loaded model
    job,            \* Shared.job: the closure of the current run
    run,            \* Pool.run_gen
    run_gen,        \* NodeSync.run_gen, per node
    published,      \* nodes the caller has published the run to
    seen,           \* worker_main's seen: the last run a worker has taken
    myjob,          \* the closure a worker has loaded
    done,           \* NodeSync.done[local], per worker
    at,             \* what a worker is doing
    pos,            \* the phase of the closure it is in
    gen,            \* WorkerCtx.gen
    arrive,         \* NodeSync.arrive[local], per worker
    leader_flag,    \* NodeSync.leader_flag, per node
    release         \* NodeSync.release, per node

runVars == <<model, job, run, run_gen, published, seen, myjob, done>>
wordVars == <<arrive, leader_flag, release>>
vars == <<runVars, at, pos, gen, wordVars>>

\* at[w]: "idle" (the caller: between runs), "publish" (the caller), "woken"
\* (has seen the run, not loaded the closure), "run" (in a phase), "wait" (for
\* the release of its node), "gather" (leader: for its node), "cross" (leader:
\* for the other leaders), "join" (the caller: for everyone's done word).
Activities == {"idle", "publish", "woken", "run", "wait", "gather", "cross", "join"}
Others == Workers \ {Caller}

ContinuedGenerations(r) == r  \* mutant: runs count on from the run number
barrier_gen_base(r) == r * GenBase
Phase(w) == Code[model][myjob[w]][w][pos[w]]

Init ==
    /\ model \in Models
    /\ job = CHOOSE j \in Jobs : TRUE           \* no closure yet: never loaded
    /\ run = 0
    /\ run_gen = [n \in Nodes |-> 0]
    /\ published = 0
    /\ seen = [w \in Workers |-> 0]
    /\ myjob = [w \in Workers |-> job]
    /\ done = [w \in Workers |-> 0]
    /\ at = [w \in Workers |-> "idle"]
    /\ pos = [w \in Workers |-> 1]
    /\ gen = [w \in Workers |-> 0]
    /\ arrive = [w \in Workers |-> 0]
    /\ leader_flag = [n \in Nodes |-> 0]
    /\ release = [n \in Nodes |-> 0]

(***************************************************************************)
(* Pool::run                                                               *)
(***************************************************************************)
Run(j) ==
    /\ at[Caller] = "idle"
    /\ run < Len(Schedule)
    /\ j \in Schedule[run + 1]
    /\ job' = j
    /\ run' = run + 1
    /\ published' = 0
    /\ at' = [at EXCEPT ![Caller] = "publish"]
    /\ UNCHANGED <<model, run_gen, seen, myjob, done, pos, gen, wordVars>>

\* The caller executes the closure as worker <<0, 0>>.
OwnShare ==
    /\ seen' = [seen EXCEPT ![Caller] = run]
    /\ myjob' = [myjob EXCEPT ![Caller] = job]
    /\ at' = [at EXCEPT ![Caller] = "run"]
    /\ pos' = [pos EXCEPT ![Caller] = 1]
    /\ gen' = [gen EXCEPT ![Caller] = barrier_gen_base(run)]

SkipsLastNode ==  \* mutant: the last node is not told of the run
    /\ at[Caller] = "publish"
    /\ run_gen' = IF published + 1 < NNodes THEN [run_gen EXCEPT ![published] = run] ELSE run_gen
    /\ published' = published + 1
    /\ IF published' < NNodes THEN UNCHANGED <<seen, myjob, at, pos, gen>> ELSE OwnShare
    /\ UNCHANGED <<model, job, run, done, wordVars>>

\* One node's run word; after the last node the caller runs its own share.
Publish ==
    /\ at[Caller] = "publish"
    /\ run_gen' = [run_gen EXCEPT ![published] = run]
    /\ published' = published + 1
    /\ IF published' < NNodes THEN UNCHANGED <<seen, myjob, at, pos, gen>> ELSE OwnShare
    /\ UNCHANGED <<model, job, run, done, wordVars>>

JoinsOwnNode ==  \* mutant: only the caller's node is waited for
    /\ at[Caller] = "join"
    /\ \A w \in NodeMates(0) \ {Caller} : done[w] >= run
    /\ at' = [at EXCEPT ![Caller] = "idle"]
    /\ UNCHANGED <<runVars, pos, gen, wordVars>>

\* The wait for everyone's done word.
Join ==
    /\ at[Caller] = "join"
    /\ \A w \in Others : done[w] >= run
    /\ at' = [at EXCEPT ![Caller] = "idle"]
    /\ UNCHANGED <<runVars, pos, gen, wordVars>>

(***************************************************************************)
(* worker_main                                                             *)
(***************************************************************************)
WakeUp(w) ==
    /\ w # Caller
    /\ at[w] = "idle"
    /\ run_gen[NodeOf(w)] > seen[w]
    /\ seen' = [seen EXCEPT ![w] = run_gen[NodeOf(w)]]
    /\ at' = [at EXCEPT ![w] = "woken"]
    /\ UNCHANGED <<model, job, run, run_gen, published, myjob, done, pos, gen, wordVars>>

LoadKeepsGen(w) ==  \* mutant: the generation is not restarted
    /\ at[w] = "woken"
    /\ myjob' = [myjob EXCEPT ![w] = job]
    /\ pos' = [pos EXCEPT ![w] = 1]
    /\ at' = [at EXCEPT ![w] = "run"]
    /\ UNCHANGED <<model, job, run, run_gen, published, seen, done, gen, wordVars>>

Load(w) ==
    /\ at[w] = "woken"
    /\ myjob' = [myjob EXCEPT ![w] = job]
    /\ gen' = [gen EXCEPT ![w] = barrier_gen_base(seen[w])]
    /\ pos' = [pos EXCEPT ![w] = 1]
    /\ at' = [at EXCEPT ![w] = "run"]
    /\ UNCHANGED <<model, job, run, run_gen, published, seen, done, wordVars>>

\* The closure returns: the done word, or the caller's wait.
Finish(w) ==
    /\ at[w] = "run"
    /\ Phase(w).kind = "end"
    /\ IF w = Caller
       THEN /\ at' = [at EXCEPT ![w] = "join"]
            /\ UNCHANGED done
       ELSE /\ at' = [at EXCEPT ![w] = "idle"]
            /\ done' = [done EXCEPT ![w] = seen[w]]
    /\ UNCHANGED <<model, job, run, run_gen, published, seen, myjob, pos, gen, wordVars>>

(***************************************************************************)
(* WorkerCtx::barrier and ::node_barrier                                   *)
(***************************************************************************)
Arrive(w) ==
    /\ at[w] = "run"
    /\ Phase(w).kind # "end"
    /\ gen' = [gen EXCEPT ![w] = @ + 1]
    /\ IF IsLeader(w)
       THEN /\ at' = [at EXCEPT ![w] = "gather"]
            /\ UNCHANGED arrive
       ELSE /\ at' = [at EXCEPT ![w] = "wait"]
            /\ arrive' = [arrive EXCEPT ![w] = gen[w] + 1]
    /\ UNCHANGED <<runVars, pos, leader_flag, release>>

\* w leaves the barrier and starts its next phase.
NextPhase(w) ==
    /\ at' = [at EXCEPT ![w] = "run"]
    /\ pos' = [pos EXCEPT ![w] = @ + 1]

Arrived(w) == \A v \in NodeMates(NodeOf(w)) \ {w} : arrive[v] >= gen[w]

\* The leader of a node has seen its node arrive: at a node barrier it lets
\* it go, at a global one it tells the other leaders.
GatherNode(w) ==
    /\ at[w] = "gather"
    /\ Phase(w).kind = "node"
    /\ Arrived(w)
    /\ release' = [release EXCEPT ![NodeOf(w)] = gen[w]]
    /\ NextPhase(w)
    /\ UNCHANGED <<runVars, gen, arrive, leader_flag>>

GatherAll(w) ==
    /\ at[w] = "gather"
    /\ Phase(w).kind = "all"
    /\ Arrived(w)
    /\ leader_flag' = [leader_flag EXCEPT ![NodeOf(w)] = gen[w]]
    /\ at' = [at EXCEPT ![w] = "cross"]
    /\ UNCHANGED <<runVars, pos, gen, arrive, release>>

Cross(w) ==
    /\ at[w] = "cross"
    /\ \A n \in Nodes \ {NodeOf(w)} : leader_flag[n] >= gen[w]
    /\ release' = [release EXCEPT ![NodeOf(w)] = gen[w]]
    /\ NextPhase(w)
    /\ UNCHANGED <<runVars, gen, arrive, leader_flag>>

Released(w) ==
    /\ at[w] = "wait"
    /\ release[NodeOf(w)] >= gen[w]
    /\ NextPhase(w)
    /\ UNCHANGED <<runVars, gen, wordVars>>

Step(w) ==
    \/ WakeUp(w)
    \/ Load(w)
    \/ Finish(w)
    \/ Arrive(w)
    \/ GatherNode(w)
    \/ GatherAll(w)
    \/ Cross(w)
    \/ Released(w)

\* A step of the pool that a thread takes by itself.
PoolStep == Publish \/ Join \/ \E w \in Workers : Step(w)

\* No run is asked for any more.
Rest == at[Caller] = "idle" /\ run = Len(Schedule) /\ UNCHANGED vars

Next == (\E j \in Jobs : Run(j)) \/ PoolStep \/ Rest

\* Threads are scheduled: some thread that can take a step takes one.  (A
\* spin is no step, so no thread can keep the others from moving.)
Spec == Init /\ [][Next]_vars /\ WF_vars(PoolStep)
-----------------------------------------------------------------------------
(***************************************************************************)
(* Properties                                                              *)
(***************************************************************************)
Executing == {w \in Workers : at[w] \notin {"idle", "publish", "woken", "join"}}
InBarrier == {w \in Workers : at[w] \in {"wait", "gather", "cross"}}

\* Types; a worker's generation is the base of its run plus the barriers it
\* has entered, and no word is ahead of the run.
TypeOK ==
    /\ model \in Models
    /\ job \in Jobs
    /\ run \in 0 .. Len(Schedule)
    /\ run_gen \in [Nodes -> 0 .. run]
    /\ published \in 0 .. NNodes
    /\ seen \in [Workers -> 0 .. run]
    /\ done \in [Workers -> 0 .. run]
    /\ myjob \in [Workers -> Jobs]
    /\ at \in [Workers -> Activities]
    /\ pos \in [Workers -> 1 .. GenBase]
    /\ gen \in [Workers -> Nat]
    /\ arrive \in [Workers -> Nat]
    /\ leader_flag \in [Nodes -> Nat]
    /\ release \in [Nodes -> Nat]
    /\ \A w \in Executing :
        /\ pos[w] <= Len(Code[model][myjob[w]][w])
        /\ gen[w] = barrier_gen_base(seen[w]) + pos[w] - 1
                        + (IF w \in InBarrier THEN 1 ELSE 0)

\* Phases p of w and q of v that the barriers let run at the same time: each
\* is behind every global barrier that the other has taken, and on one node
\* both are behind the same barriers.
MayMeet(program, w, p, v, q) ==
    /\ NodeOf(w) = NodeOf(v) => p = q
    /\ \A i \in q .. p - 1 : program[w][i].kind # "all"
    /\ \A i \in p .. q - 1 : program[v][i].kind # "all"

\* What two workers do in phases of a closure that may meet never touches the
\* same memory, with a write.
Apart(m, j) ==
    \A w, v \in Workers : w # v =>
        \A p \in DOMAIN Code[m][j][w], q \in DOMAIN Code[m][j][v] :
            MayMeet(Code[m][j], w, p, v, q) => ~Clash(Code[m][j][w][p], Code[m][j][v][q])

\* What Pool::run may be lent: a closure whose phases are apart wherever its
\* barriers let them meet, in whatever order its workers are scheduled.
Separated == at[Caller] = "publish" /\ published = 0 => Apart(model, job)

\* The point of every barrier in the executor: what two workers do between
\* barriers at the same time never touches the same memory, with a write.
NoRace ==
    \A w, v \in Workers :
        w # v /\ at[w] = "run" /\ at[v] = "run" => ~Clash(Phase(w), Phase(v))

\* Pool::run lends its closure to the workers by address: a worker only
\* executes the closure of the run that is still going on.
JobAlive ==
    \A w \in Executing : w # Caller =>
        /\ at[Caller] # "idle"
        /\ seen[w] = run
        /\ myjob[w] = job

\* The words implement the rendezvous: no worker leaves a barrier before all
\* it waits for have entered it, whatever generations earlier runs and the
\* barriers of the other kind have left in the words.
PendOf(w) == IF w \in InBarrier THEN Phase(w).kind ELSE "none"
R == INSTANCE Rendezvous WITH entered <- gen, pend <- [w \in Workers |-> PendOf(w)]
ImplementsBarrier == R!Spec

\* A run returns: the tiles agree on the global barriers of every closure.
RunReturns == at[Caller] # "idle" ~> at[Caller] = "idle"
=============================================================================

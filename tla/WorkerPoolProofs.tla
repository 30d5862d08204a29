-------------------------- MODULE WorkerPoolProofs --------------------------
(***************************************************************************)
(* The barriers and the lent closure of the worker pool are sound for any   *)
(* number of nodes and cores, any closures whose workers agree on the       *)
(* barriers of their node, and any sequence of runs.                        *)
(*                                                                         *)
(* The inductive invariant says where everyone is while a run goes on       *)
(* (Runs), that a generation counts the barriers entered since the base of  *)
(* the run (Execs, Gens), and how far the words may be (Words): no word is  *)
(* ahead of a worker of its node, and a release of a global barrier is not  *)
(* ahead of anybody.                                                        *)
(*                                                                         *)
(* The last section keeps the memory apart: which phases two workers can be *)
(* in together follows from the barriers alone (Met), so the closures never *)
(* race as long as those phases of them do not clash (Separated).           *)
(***************************************************************************)
EXTENDS WorkerPool, TLAPS

Typed ==
  /\ model \in Models /\ job \in Jobs
  /\ run \in 0 .. Len(Schedule) /\ published \in 0 .. NNodes
  /\ run_gen \in [Nodes -> Nat]
  /\ seen \in [Workers -> Nat] /\ done \in [Workers -> Nat]
  /\ myjob \in [Workers -> Jobs]
  /\ at \in [Workers -> Activities]
  /\ pos \in [Workers -> 1 .. GenBase]
  /\ gen \in [Workers -> Nat] /\ arrive \in [Workers -> Nat]
  /\ leader_flag \in [Nodes -> Nat] /\ release \in [Nodes -> Nat]

Runs ==
  /\ \A n \in Nodes : run_gen[n] <= run
  /\ \A w \in Workers : done[w] <= seen[w] /\ seen[w] <= run
  /\ at[Caller] # "woken"
  /\ at[Caller] = "publish" => published < NNodes /\ seen[Caller] < run
  /\ at[Caller] = "idle" => \A w \in Others : done[w] = run
  /\ \A w \in Others :
       /\ at[w] \notin {"publish", "join"}
       /\ run <= seen[w] + 1
       /\ at[w] = "idle" => done[w] = seen[w]
       /\ at[w] # "idle" => done[w] < seen[w] /\ seen[w] = run

\* A worker in the closure.
Exec(w) ==
  /\ seen[w] = run /\ myjob[w] = job
  /\ pos[w] <= Len(Code[model][job][w])
  /\ gen[w] = barrier_gen_base(run) + pos[w] - 1 + (IF w \in InBarrier THEN 1 ELSE 0)
  /\ w \in InBarrier => Phase(w).kind # "end"
  /\ at[w] = "cross" => Phase(w).kind = "all"

Execs == \A w \in Executing : Exec(w)

Gens ==
  \A w \in Workers :
    /\ gen[w] < barrier_gen_base(seen[w]) + GenBase
    /\ at[w] = "woken" => gen[w] < barrier_gen_base(seen[w])

AllIn(w) == \A v \in Workers : gen[v] >= gen[w]

\* The words of a worker's node, seen from the worker.
Word(w) ==
  /\ arrive[w] <= gen[w]
  /\ release[NodeOf(w)] <= gen[w] /\ leader_flag[NodeOf(w)] <= gen[w]
  /\ at[w] = "cross" => \A v \in NodeMates(NodeOf(w)) : gen[v] >= gen[w]
  /\ w \in InBarrier /\ Phase(w).kind = "all" /\ release[NodeOf(w)] >= gen[w] => AllIn(w)

Words == \A w \in Workers : Word(w)

WInv == Typed /\ Runs /\ Execs /\ Gens /\ Words

-----------------------------------------------------------------------------
(***************************************************************************)
(* Facts                                                                   *)
(***************************************************************************)
LEMMA CallerFacts == Caller \in Workers
BY MachineAssumption DEF Caller, Workers, Nodes, Cores

LEMMA NodeFacts ==
  \A w \in Workers :
    /\ NodeOf(w) \in Nodes /\ LeaderOf(NodeOf(w)) \in Workers
    /\ \A v : v \in NodeMates(NodeOf(w)) <=> v \in Workers /\ NodeOf(v) = NodeOf(w)
<1>1. 0 \in Cores
  BY MachineAssumption DEF Cores
<1> TAKE w \in Workers
<1>2. NodeOf(w) \in Nodes /\ LeaderOf(NodeOf(w)) \in Workers
  BY <1>1 DEF Workers, NodeOf, LeaderOf
<1>3. ASSUME NEW v
      PROVE  v \in NodeMates(NodeOf(w)) <=> v \in Workers /\ NodeOf(v) = NodeOf(w)
  BY <1>2 DEF Workers, NodeOf, NodeMates
<1> QED
  BY <1>2, <1>3

\* The generations of a run lie between its base and the next.
LEMMA BaseFacts ==
  /\ \A r \in Nat : barrier_gen_base(r) \in Nat
  /\ \A r, q \in Nat : r < q => barrier_gen_base(r) + GenBase <= barrier_gen_base(q)
<1>1. GenBase \in Nat \ {0}
  BY ProgramAssumption
<1>2. ASSUME NEW r \in Nat, NEW q \in Nat, r < q
      PROVE  r * GenBase + GenBase <= q * GenBase
  <2>1. PICK d \in Nat : q = r + 1 + d
    <3>1. q - (r + 1) \in Nat /\ q = r + 1 + (q - (r + 1))
      BY <1>2
    <3> QED
      BY <3>1
  <2>2. q * GenBase = r * GenBase + GenBase + d * GenBase
    BY <1>1, <2>1
  <2>3. d * GenBase \in Nat /\ r * GenBase \in Nat
    BY <1>1, <2>1
  <2> QED
    BY <1>1, <2>2, <2>3
<1>3. \A r \in Nat : r * GenBase \in Nat
  BY <1>1
<1> QED
  BY <1>2, <1>3 DEF barrier_gen_base

LEMMA ProgramFacts ==
  \A m \in Models, j \in Jobs, w \in Workers :
    /\ Len(Code[m][j][w]) \in 1 .. GenBase
    /\ \A k \in 1 .. Len(Code[m][j][w]) :
         /\ Code[m][j][w][k].kind \in {"node", "all", "end"}
         /\ Code[m][j][w][k].kind = "end" <=> k = Len(Code[m][j][w])
         /\ Code[m][j][w][k].kind = Code[m][j][LeaderOf(NodeOf(w))][k].kind
<1> TAKE m \in Models, j \in Jobs, w \in Workers
<1>1. Code[m][j][w] \in Seq(Phases)
  BY ProgramAssumption
<1>2. \A k \in 1 .. Len(Code[m][j][w]) : Code[m][j][w][k].kind \in {"node", "all", "end"}
  <2> TAKE k \in 1 .. Len(Code[m][j][w])
  <2>1. Code[m][j][w][k] \in Phases
    BY <1>1
  <2> QED
    BY <2>1 DEF Phases
<1> QED
  BY <1>2, ProgramAssumption

LEMMA NumberFacts ==
  ASSUME Typed
  PROVE  /\ run \in Nat /\ barrier_gen_base(run) \in Nat /\ published \in Nat
         /\ \A w \in Workers :
              /\ seen[w] \in Nat /\ done[w] \in Nat /\ gen[w] \in Nat
              /\ arrive[w] \in Nat /\ release[NodeOf(w)] \in Nat
              /\ leader_flag[NodeOf(w)] \in Nat /\ pos[w] \in Nat \ {0}
              /\ barrier_gen_base(seen[w]) \in Nat
<1>1. run \in Nat /\ published \in Nat
  BY ProgramAssumption, MachineAssumption DEF Typed
<1>2. ASSUME NEW w \in Workers
      PROVE  /\ seen[w] \in Nat /\ done[w] \in Nat /\ gen[w] \in Nat
             /\ arrive[w] \in Nat /\ release[NodeOf(w)] \in Nat
             /\ leader_flag[NodeOf(w)] \in Nat /\ pos[w] \in Nat \ {0}
  BY CallerFacts, NodeFacts, ProgramAssumption DEF Typed
<1> QED
  BY <1>1, <1>2, BaseFacts

\* What a worker knows of the words stays true while the counts grow.
LEMMA WordKept ==
  ASSUME Typed, Typed', NEW w \in Workers, Word(w),
         UNCHANGED <<arrive[w], leader_flag, release>>,
         \A v \in Workers : gen'[v] >= gen[v], gen'[w] = gen[w],
         w \in InBarrier' => w \in InBarrier /\ Phase(w)' = Phase(w),
         at'[w] = "cross" => at[w] = "cross"
  PROVE  Word(w)'
<1>1. \A v \in Workers : gen[v] \in Nat /\ gen'[v] \in Nat
  BY DEF Typed
<1>2. \A v \in Workers : gen[v] >= gen[w] => gen'[v] >= gen'[w]
  BY <1>1
<1>3. at'[w] = "cross" => \A v \in NodeMates(NodeOf(w)) : gen'[v] >= gen'[w]
  BY <1>2, NodeFacts DEF Word
<1>4. ASSUME w \in InBarrier', Phase(w)'.kind = "all", release'[NodeOf(w)] >= gen'[w]
      PROVE  AllIn(w)'
  <2>1. AllIn(w)
    BY <1>4 DEF Word
  <2> QED
    BY <1>2, <2>1 DEF AllIn
<1> QED
  BY <1>3, <1>4 DEF Word

\* Nobody enters a barrier, and no count goes back.
LEMMA WordsKept ==
  ASSUME Typed, Words, Typed',
         UNCHANGED <<arrive, leader_flag, release>>,
         \A w \in Workers : gen'[w] >= gen[w],
         \A w \in InBarrier' : /\ w \in InBarrier /\ gen'[w] = gen[w]
                               /\ Phase(w)' = Phase(w)
                               /\ at'[w] = "cross" => at[w] = "cross"
  PROVE  Words'
<1> SUFFICES ASSUME NEW w \in Workers PROVE Word(w)'
  BY DEF Words
<1>1. Word(w)
  BY DEF Words
<1>2. CASE w \in InBarrier'
  BY <1>1, <1>2, WordKept
<1>3. CASE w \notin InBarrier'
  <2>1. /\ gen'[w] \in Nat /\ gen[w] \in Nat /\ arrive[w] \in Nat
        /\ release[NodeOf(w)] \in Nat /\ leader_flag[NodeOf(w)] \in Nat
    BY NumberFacts DEF Typed
  <2>2. at'[w] # "cross"
    BY <1>3 DEF InBarrier
  <2> QED
    BY <1>1, <1>3, <2>1, <2>2 DEF Word
<1> QED
  BY <1>2, <1>3

LEMMA ScheduleFacts ==
  /\ Len(Schedule) \in Nat /\ GenBase \in Nat \ {0} /\ NNodes \in Nat \ {0}
  /\ \A r \in 1 .. Len(Schedule) : Schedule[r] \subseteq Jobs
BY ProgramAssumption, MachineAssumption

-----------------------------------------------------------------------------
(***************************************************************************)
(* Runs: the caller and the other workers between closures                 *)
(***************************************************************************)
LEMMA InitStep == Init => WInv
<1> SUFFICES ASSUME Init PROVE WInv
  OBVIOUS
<1>1. job \in Jobs
  <2>1. \E j \in Jobs : TRUE
    BY ProgramAssumption
  <2> QED
    BY <2>1 DEF Init
<1>2. Typed
  BY <1>1, ScheduleFacts DEF Init, Typed, Activities
<1>3. Runs
  BY CallerFacts, NodeFacts DEF Init, Runs, Others
<1>4. Execs
  BY DEF Init, Execs, Executing
<1>5. Gens
  <2>1. barrier_gen_base(0) \in Nat
    BY BaseFacts
  <2> QED
    BY <2>1, ScheduleFacts DEF Init, Gens
<1>6. Words
  BY CallerFacts, NodeFacts DEF Init, Words, Word, InBarrier
<1> QED
  BY <1>2, <1>3, <1>4, <1>5, <1>6 DEF WInv

LEMMA RunStep ==
  ASSUME WInv, NEW j \in Jobs, Run(j)
  PROVE  WInv'
<1> USE CallerFacts, ScheduleFacts
<1>1. /\ at[Caller] = "idle" /\ run < Len(Schedule)
      /\ job' = j /\ run' = run + 1 /\ published' = 0
      /\ at' = [at EXCEPT ![Caller] = "publish"]
      /\ UNCHANGED <<model, run_gen, seen, myjob, done, pos, gen, arrive, leader_flag, release>>
  BY DEF Run, wordVars
<1>2. \A w \in Workers \ {Caller} : at[w] = "idle" /\ seen[w] = run
  BY <1>1 DEF WInv, Typed, Runs, Others
<1>3. Typed'
  <2>1. run' \in 0 .. Len(Schedule) /\ published' \in 0 .. NNodes
    BY <1>1 DEF WInv, Typed
  <2>2. at' \in [Workers -> Activities]
    BY <1>1 DEF WInv, Typed, Activities
  <2> QED
    BY <1>1, <2>1, <2>2 DEF WInv, Typed
<1>4. Runs'
  BY <1>1, <1>2 DEF WInv, Typed, Runs, Others
<1>5. Executing' = {}
  BY <1>1, <1>2 DEF WInv, Typed, Executing
<1>6. Execs'
  BY <1>5 DEF Execs
<1>7. Gens'
  BY <1>1, <1>2 DEF WInv, Typed, Gens, barrier_gen_base
<1>8. InBarrier' = {}
  BY <1>5 DEF Executing, InBarrier
<1>9. Words'
  BY <1>1, <1>5, <1>8 DEF WInv, Words, Word, Executing
<1> QED
  BY <1>3, <1>4, <1>6, <1>7, <1>9 DEF WInv

LEMMA PublishStep ==
  ASSUME WInv, Publish
  PROVE  WInv'
<1> USE CallerFacts, ScheduleFacts
<1>0. /\ Typed /\ run \in Nat /\ published \in Nat
      /\ \A w \in Workers : gen[w] \in Nat
      /\ at \in [Workers -> Activities] /\ gen \in [Workers -> Nat]
      /\ seen \in [Workers -> Nat]
  BY NumberFacts DEF WInv, Typed
<1>1. /\ at[Caller] = "publish" /\ published < NNodes /\ seen[Caller] < run
      /\ run_gen' = [run_gen EXCEPT ![published] = run]
      /\ published' = published + 1
      /\ UNCHANGED <<model, job, run, done, arrive, leader_flag, release>>
  BY DEF Publish, wordVars, WInv, Runs
<1>2. CASE published' < NNodes
  <2>1. UNCHANGED <<seen, myjob, at, pos, gen>>
    BY <1>2 DEF Publish
  <2>2. Typed'
    <3>1. published' \in 0 .. NNodes
      BY <1>1, <1>0
    <3>2. run_gen' \in [Nodes -> Nat]
      BY <1>1, <1>0 DEF Typed
    <3> QED
      BY <1>0, <1>1, <2>1, <3>1, <3>2 DEF Typed
  <2>3. Runs'
    BY <1>1, <1>2, <2>1 DEF WInv, Typed, Runs
  <2> QED
    BY <1>1, <2>1, <2>2, <2>3
    DEF WInv, Execs, Exec, Gens, Words, Word, AllIn, Executing, InBarrier, Phase, barrier_gen_base
<1>3. CASE ~(published' < NNodes)
  <2>1. /\ seen' = [seen EXCEPT ![Caller] = run]
        /\ myjob' = [myjob EXCEPT ![Caller] = job]
        /\ at' = [at EXCEPT ![Caller] = "run"]
        /\ pos' = [pos EXCEPT ![Caller] = 1]
        /\ gen' = [gen EXCEPT ![Caller] = barrier_gen_base(run)]
    BY <1>3 DEF Publish, OwnShare
  <2>2. barrier_gen_base(run) \in Nat /\ gen[Caller] < barrier_gen_base(run)
    <3>1. barrier_gen_base(seen[Caller]) + GenBase <= barrier_gen_base(run)
      BY <1>1, BaseFacts DEF WInv, Typed
    <3>2. gen[Caller] < barrier_gen_base(seen[Caller]) + GenBase
      BY DEF WInv, Gens
    <3> QED
      BY <3>1, <3>2, NumberFacts DEF WInv
  <2>3. Typed'
    <3>1. published' \in 0 .. NNodes
      BY <1>1, <1>0
    <3>2. run_gen' \in [Nodes -> Nat]
      BY <1>1, <1>0 DEF Typed
    <3>3. seen' \in [Workers -> Nat] /\ gen' \in [Workers -> Nat]
      BY <2>1, <2>2, <1>0 DEF Typed
    <3>4. /\ myjob' \in [Workers -> Jobs] /\ at' \in [Workers -> Activities]
          /\ pos' \in [Workers -> 1 .. GenBase]
      BY <2>1, <1>0 DEF Typed, Activities
    <3> QED
      BY <1>1, <1>0, <3>1, <3>2, <3>3, <3>4 DEF Typed
  <2>4. Runs'
    BY <1>1, <1>3, <2>1 DEF WInv, Typed, Runs, Others
  <2>5. Execs'
    <3> SUFFICES ASSUME NEW w \in Executing' PROVE Exec(w)'
      BY DEF Execs
    <3>1. CASE w = Caller
      BY <1>1, <2>1, <2>2, <3>1, ProgramFacts DEF WInv, Typed, Exec, InBarrier
    <3>2. CASE w # Caller
      BY <1>1, <2>1, <3>2 DEF WInv, Typed, Execs, Exec, Executing, InBarrier, Phase, barrier_gen_base
    <3> QED
      BY <3>1, <3>2
  <2>6. Gens'
    BY <1>1, <2>1, <2>2 DEF WInv, Typed, Gens, barrier_gen_base
  <2>7. Words'
    <3>1. \A w \in Workers : gen'[w] >= gen[w]
      BY <2>1, <2>2, <1>0
    <3>2. \A w \in InBarrier' :
            /\ w \in InBarrier /\ gen'[w] = gen[w] /\ Phase(w)' = Phase(w)
            /\ at'[w] = "cross" => at[w] = "cross"
      BY <1>1, <2>1 DEF WInv, Typed, InBarrier, Phase
    <3> QED
      BY <1>1, <2>3, <3>1, <3>2, WordsKept DEF WInv
  <2> QED
    BY <2>3, <2>4, <2>5, <2>6, <2>7 DEF WInv
<1> QED
  BY <1>2, <1>3

LEMMA JoinStep ==
  ASSUME WInv, Join
  PROVE  WInv'
<1> USE CallerFacts, ScheduleFacts
<1>0. /\ run \in Nat /\ barrier_gen_base(run) \in Nat
      /\ \A v \in Workers : /\ seen[v] \in Nat /\ done[v] \in Nat /\ gen[v] \in Nat
                            /\ barrier_gen_base(seen[v]) \in Nat
  BY NumberFacts DEF WInv
<1>1. /\ at[Caller] = "join" /\ \A w \in Others : done[w] >= run
      /\ at' = [at EXCEPT ![Caller] = "idle"]
      /\ UNCHANGED <<model, job, run, run_gen, published, seen, myjob, done, pos, gen,
                     arrive, leader_flag, release>>
  BY DEF Join, runVars, wordVars
<1>2. Typed /\ Typed'
  BY <1>1 DEF WInv, Typed, Activities
<1>3. Runs'
  <2>1. \A w \in Others : done[w] = run
    BY <1>0, <1>1 DEF WInv, Runs, Others
  <2> QED
    BY <1>1, <1>2, <2>1 DEF WInv, Typed, Runs, Others
<1>4. Executing' = Executing /\ InBarrier' = InBarrier
  BY <1>1, <1>2 DEF Typed, Executing, InBarrier
<1>5. Execs'
  BY <1>1, <1>2, <1>4 DEF WInv, Execs, Exec, Phase, Typed, barrier_gen_base, Executing
<1>6. Gens'
  BY <1>1, <1>2 DEF WInv, Gens, Typed, barrier_gen_base
<1>7. Words'
  <2>1. \A w \in Workers : gen'[w] >= gen[w]
    BY <1>1, <1>2, NumberFacts
  <2>2. \A w \in InBarrier' : /\ w \in InBarrier /\ gen'[w] = gen[w] /\ Phase(w)' = Phase(w)
                              /\ at'[w] = "cross" => at[w] = "cross"
    BY <1>1, <1>2, <1>4 DEF Phase, Typed
  <2> QED
    BY <1>1, <1>2, <2>1, <2>2, WordsKept DEF WInv
<1> QED
  BY <1>2, <1>3, <1>5, <1>6, <1>7 DEF WInv

LEMMA WakeUpStep ==
  ASSUME WInv, NEW w \in Workers, WakeUp(w)
  PROVE  WInv'
<1> USE CallerFacts, ScheduleFacts
<1>0. /\ run \in Nat /\ barrier_gen_base(run) \in Nat
      /\ \A v \in Workers : /\ seen[v] \in Nat /\ done[v] \in Nat /\ gen[v] \in Nat
                            /\ barrier_gen_base(seen[v]) \in Nat
  BY NumberFacts DEF WInv
<1>1. /\ w # Caller /\ at[w] = "idle" /\ run_gen[NodeOf(w)] > seen[w]
      /\ seen' = [seen EXCEPT ![w] = run_gen[NodeOf(w)]]
      /\ at' = [at EXCEPT ![w] = "woken"]
      /\ UNCHANGED <<model, job, run, run_gen, published, myjob, done, pos, gen,
                     arrive, leader_flag, release>>
  BY DEF WakeUp, wordVars
<1>2. Typed /\ Typed'
  BY <1>1, NodeFacts DEF WInv, Typed, Activities
<1>3. /\ run_gen[NodeOf(w)] = run /\ seen[w] < run /\ done[w] < run
      /\ at[Caller] # "idle"
  <2>1. run_gen[NodeOf(w)] \in Nat /\ run_gen[NodeOf(w)] <= run
    BY <1>2, NodeFacts DEF WInv, Typed, Runs
  <2>2. /\ done[w] <= seen[w] /\ run <= seen[w] + 1
        /\ at[Caller] = "idle" => done[w] = run
    BY <1>1 DEF WInv, Runs, Others
  <2> QED
    BY <1>0, <1>1, <2>1, <2>2
<1>4. Runs'
  <2>1. /\ UNCHANGED <<run, run_gen, published, done>>
        /\ seen'[w] = run /\ at'[w] = "woken"
        /\ \A v \in Workers \ {w} : seen'[v] = seen[v] /\ at'[v] = at[v]
    BY <1>1, <1>2, <1>3 DEF Typed
  <2> QED
    BY <1>0, <1>1, <1>3, <2>1, SMTT(30) DEF WInv, Runs, Others
<1>5. /\ Executing' = Executing /\ InBarrier' = InBarrier /\ w \notin Executing
      /\ Executing \subseteq Workers
  BY <1>1, <1>2 DEF Typed, Executing, InBarrier
<1>6. Execs'
  <2> SUFFICES ASSUME NEW v \in Executing PROVE Exec(v)'
    BY <1>5 DEF Execs
  <2>1. Exec(v) /\ v # w /\ v \in Workers
    BY <1>5 DEF WInv, Execs
  <2> QED
    BY <1>1, <1>2, <1>5, <2>1 DEF Exec, Phase, Typed, barrier_gen_base
<1>7. Gens'
  <2>1. gen[w] < barrier_gen_base(run)
    <3>1. barrier_gen_base(seen[w]) + GenBase <= barrier_gen_base(run)
      BY <1>2, <1>3, NumberFacts, BaseFacts
    <3>2. gen[w] < barrier_gen_base(seen[w]) + GenBase
      BY DEF WInv, Gens
    <3> QED
      BY <1>2, <3>1, <3>2, NumberFacts
  <2> SUFFICES ASSUME NEW v \in Workers
               PROVE  /\ gen'[v] < barrier_gen_base(seen'[v]) + GenBase
                      /\ at'[v] = "woken" => gen'[v] < barrier_gen_base(seen'[v])
    BY DEF Gens, barrier_gen_base
  <2>2. CASE v = w
    <3>1. gen'[w] = gen[w] /\ seen'[w] = run
      BY <1>1, <1>2, <1>3 DEF Typed
    <3>2. gen[w] < barrier_gen_base(run) + GenBase
      BY <1>0, <2>1, ScheduleFacts
    <3> QED
      BY <2>1, <2>2, <3>1, <3>2
  <2>3. CASE v # w
    BY <1>1, <1>2, <2>3 DEF WInv, Gens, Typed
  <2> QED
    BY <2>2, <2>3
<1>8. Words'
  <2>1. \A v \in Workers : gen'[v] >= gen[v]
    BY <1>1, <1>2, NumberFacts
  <2>2. \A v \in InBarrier' : /\ v \in InBarrier /\ gen'[v] = gen[v] /\ Phase(v)' = Phase(v)
                              /\ at'[v] = "cross" => at[v] = "cross"
    BY <1>1, <1>2, <1>5 DEF Phase, Typed
  <2> QED
    BY <1>1, <1>2, <2>1, <2>2, WordsKept DEF WInv
<1> QED
  BY <1>2, <1>4, <1>6, <1>7, <1>8 DEF WInv

LEMMA LoadStep ==
  ASSUME WInv, NEW w \in Workers, Load(w)
  PROVE  WInv'
<1> USE CallerFacts, ScheduleFacts
<1>0. /\ run \in Nat /\ barrier_gen_base(run) \in Nat
      /\ \A v \in Workers : /\ seen[v] \in Nat /\ done[v] \in Nat /\ gen[v] \in Nat
                            /\ barrier_gen_base(seen[v]) \in Nat
  BY NumberFacts DEF WInv
<1>1. /\ at[w] = "woken"
      /\ myjob' = [myjob EXCEPT ![w] = job]
      /\ gen' = [gen EXCEPT ![w] = barrier_gen_base(seen[w])]
      /\ pos' = [pos EXCEPT ![w] = 1]
      /\ at' = [at EXCEPT ![w] = "run"]
      /\ UNCHANGED <<model, job, run, run_gen, published, seen, done,
                     arrive, leader_flag, release>>
  BY DEF Load, wordVars
<1>2. Typed /\ Typed'
  <2>1. gen' \in [Workers -> Nat]
    BY <1>0, <1>1 DEF WInv, Typed
  <2>2. pos' \in [Workers -> 1 .. GenBase]
    BY <1>1 DEF WInv, Typed
  <2>3. at' \in [Workers -> Activities] /\ myjob' \in [Workers -> Jobs]
    BY <1>1 DEF WInv, Typed, Activities
  <2> QED
    BY <1>1, <2>1, <2>2, <2>3 DEF WInv, Typed
<1>3. w \in Others /\ seen[w] = run
  BY <1>1 DEF WInv, Runs, Others
<1>4. Runs'
  <2>1. /\ UNCHANGED <<run, run_gen, published, done, seen>>
        /\ at'[w] = "run"
        /\ \A v \in Workers \ {w} : at'[v] = at[v]
    BY <1>1, <1>2 DEF Typed
  <2> QED
    BY <1>1, <1>3, <2>1 DEF WInv, Runs, Others
<1>5. Execs'
  <2> SUFFICES ASSUME NEW v \in Executing' PROVE Exec(v)'
    BY DEF Execs
  <2>1. CASE v = w
    <3>1. /\ seen'[w] = run /\ myjob'[w] = job /\ pos'[w] = 1 /\ at'[w] = "run"
          /\ gen'[w] = barrier_gen_base(run)
      BY <1>1, <1>2, <1>3 DEF Typed
    <3>2. Len(Code[model][job][w]) \in 1 .. GenBase
      BY <1>2, ProgramFacts DEF Typed
    <3>3. w \notin InBarrier'
      BY <3>1 DEF InBarrier
    <3> QED
      BY <1>0, <1>1, <2>1, <3>1, <3>2, <3>3 DEF Exec, barrier_gen_base
  <2>2. CASE v # w
    <3>1. v \in Executing /\ v \in Workers
      BY <1>1, <1>2, <2>2 DEF Typed, Executing
    <3> QED
      BY <1>1, <1>2, <2>2, <3>1
      DEF WInv, Typed, Execs, Exec, InBarrier, Phase, barrier_gen_base
  <2> QED
    BY <2>1, <2>2
<1>6. Gens'
  <2> SUFFICES ASSUME NEW v \in Workers
               PROVE  /\ gen'[v] < barrier_gen_base(seen'[v]) + GenBase
                      /\ at'[v] = "woken" => gen'[v] < barrier_gen_base(seen'[v])
    BY DEF Gens, barrier_gen_base
  <2>1. CASE v = w
    <3>1. gen'[w] = barrier_gen_base(seen[w]) /\ at'[w] = "run" /\ seen' = seen
      BY <1>1, <1>2 DEF Typed
    <3>2. barrier_gen_base(seen[w]) < barrier_gen_base(seen[w]) + GenBase
      BY <1>0
    <3> QED
      BY <2>1, <3>1, <3>2
  <2>2. CASE v # w
    BY <1>1, <1>2, <2>2 DEF WInv, Gens, Typed
  <2> QED
    BY <2>1, <2>2
<1>7. Words'
  <2>1. gen[w] < barrier_gen_base(seen[w])
    BY <1>1 DEF WInv, Gens
  <2>2. \A v \in Workers : gen'[v] >= gen[v]
    <3>1. gen'[w] = barrier_gen_base(seen[w]) /\ \A v \in Workers \ {w} : gen'[v] = gen[v]
      BY <1>1, <1>2 DEF Typed
    <3> QED
      BY <1>0, <2>1, <3>1
  <2>3. \A v \in InBarrier' : /\ v \in InBarrier /\ gen'[v] = gen[v] /\ Phase(v)' = Phase(v)
                              /\ at'[v] = "cross" => at[v] = "cross"
    BY <1>1, <1>2 DEF InBarrier, Phase, Typed
  <2> QED
    BY <1>1, <1>2, <2>2, <2>3, WordsKept DEF WInv
<1> QED
  BY <1>2, <1>4, <1>5, <1>6, <1>7 DEF WInv

LEMMA FinishStep ==
  ASSUME WInv, NEW w \in Workers, Finish(w)
  PROVE  WInv'
<1> USE CallerFacts, ScheduleFacts
<1>0. /\ run \in Nat /\ barrier_gen_base(run) \in Nat
      /\ \A v \in Workers : /\ seen[v] \in Nat /\ done[v] \in Nat /\ gen[v] \in Nat
                            /\ barrier_gen_base(seen[v]) \in Nat
  BY NumberFacts DEF WInv
<1>1. /\ at[w] = "run"
      /\ at' = [at EXCEPT ![w] = IF w = Caller THEN "join" ELSE "idle"]
      /\ done' = IF w = Caller THEN done ELSE [done EXCEPT ![w] = seen[w]]
      /\ UNCHANGED <<model, job, run, run_gen, published, seen, myjob, pos, gen,
                     arrive, leader_flag, release>>
  BY DEF Finish, wordVars
<1>2. Typed /\ Typed'
  <2>1. done' \in [Workers -> Nat]
    BY <1>0, <1>1 DEF WInv, Typed
  <2> QED
    BY <1>1, <2>1 DEF WInv, Typed, Activities
<1>3. Runs'
  <2>1. /\ UNCHANGED <<run, run_gen, published, seen>>
        /\ at'[w] = IF w = Caller THEN "join" ELSE "idle"
        /\ w # Caller => done'[w] = seen[w]
        /\ w = Caller => done' = done
        /\ \A v \in Workers \ {w} : at'[v] = at[v] /\ done'[v] = done[v]
    BY <1>1, <1>2 DEF Typed
  <2>2. w # Caller => at[Caller] # "idle"
    BY <1>0, <1>1 DEF WInv, Runs, Others
  <2> QED
    BY <1>0, <1>1, <2>1, <2>2 DEF WInv, Runs, Others
<1>4. /\ Executing' = Executing \ {w} /\ InBarrier' = InBarrier
      /\ Executing \subseteq Workers
  BY <1>1, <1>2 DEF Typed, Executing, InBarrier
<1>5. Execs'
  <2> SUFFICES ASSUME NEW v \in Executing' PROVE Exec(v)'
    BY DEF Execs
  <2>1. v \in Executing /\ v # w /\ v \in Workers
    BY <1>4
  <2>2. Exec(v) /\ at'[v] = at[v]
    BY <1>1, <1>2, <2>1 DEF WInv, Execs, Typed
  <2> QED
    BY <1>1, <1>4, <2>1, <2>2 DEF Exec, Phase, barrier_gen_base
<1>6. Gens'
  BY <1>1, <1>2 DEF WInv, Gens, Typed, barrier_gen_base
<1>7. Words'
  <2>1. \A v \in Workers : gen'[v] >= gen[v]
    BY <1>0, <1>1
  <2>2. \A v \in InBarrier' : /\ v \in InBarrier /\ gen'[v] = gen[v] /\ Phase(v)' = Phase(v)
                              /\ at'[v] = "cross" => at[v] = "cross"
    BY <1>1, <1>2, <1>4 DEF Phase, Typed
  <2> QED
    BY <1>1, <1>2, <2>1, <2>2, WordsKept DEF WInv
<1> QED
  BY <1>2, <1>3, <1>5, <1>6, <1>7 DEF WInv

-----------------------------------------------------------------------------
(***************************************************************************)
(* Barriers                                                                *)
(***************************************************************************)
\* Workers of a node that have entered as many barriers are in the same one.
LEMMA SameBarrier ==
  ASSUME Typed, Execs, NEW w \in Workers, NEW v \in Workers, NodeOf(v) = NodeOf(w),
         w \in InBarrier, v \in InBarrier, gen[v] = gen[w]
  PROVE  Phase(v).kind = Phase(w).kind
<1>1. Exec(w) /\ Exec(v)
  BY DEF Execs, Executing, InBarrier
<1>2. /\ barrier_gen_base(run) \in Nat /\ pos[v] \in Nat \ {0} /\ pos[w] \in Nat \ {0}
  BY NumberFacts
<1>3. pos[v] = pos[w]
  BY <1>1, <1>2 DEF Exec
<1>4. /\ Phase(w) = Code[model][job][w][pos[w]] /\ Phase(v) = Code[model][job][v][pos[v]]
      /\ pos[w] \in 1 .. Len(Code[model][job][w]) /\ pos[v] \in 1 .. Len(Code[model][job][v])
  <2>1. model \in Models /\ job \in Jobs
    BY DEF Typed
  <2>2. Len(Code[model][job][w]) \in Nat /\ Len(Code[model][job][v]) \in Nat
    BY <2>1, ProgramFacts
  <2> QED
    BY <1>1, <1>2, <2>2 DEF Exec, Phase
<1>5. model \in Models /\ job \in Jobs
  BY DEF Typed
<1>6. /\ Code[model][job][w][pos[w]].kind
           = Code[model][job][LeaderOf(NodeOf(w))][pos[w]].kind
      /\ Code[model][job][v][pos[v]].kind
           = Code[model][job][LeaderOf(NodeOf(v))][pos[v]].kind
  BY <1>4, <1>5, ProgramFacts
<1> QED
  BY <1>3, <1>4, <1>6

\* The phase of a worker in the closure; in a barrier it is not the last.
LEMMA PhaseFacts ==
  ASSUME Typed, Execs, NEW w \in Workers, w \in Executing
  PROVE  /\ Phase(w) = Code[model][job][w][pos[w]]
         /\ pos[w] \in 1 .. Len(Code[model][job][w])
         /\ Len(Code[model][job][w]) \in 1 .. GenBase
         /\ Phase(w).kind \in {"node", "all", "end"}
         /\ Phase(w).kind # "end" => pos[w] < Len(Code[model][job][w])
<1>1. Exec(w) /\ model \in Models /\ job \in Jobs /\ pos[w] \in Nat \ {0}
  BY NumberFacts DEF Execs, Typed
<1>2. Len(Code[model][job][w]) \in 1 .. GenBase /\ GenBase \in Nat
  BY <1>1, ProgramFacts, ScheduleFacts
<1>3. /\ Phase(w) = Code[model][job][w][pos[w]]
      /\ pos[w] \in 1 .. Len(Code[model][job][w])
  BY <1>1, <1>2 DEF Exec, Phase
<1>4. /\ Code[model][job][w][pos[w]].kind \in {"node", "all", "end"}
      /\ Code[model][job][w][pos[w]].kind = "end" <=> pos[w] = Len(Code[model][job][w])
  BY <1>1, <1>3, ProgramFacts
<1> QED
  BY <1>1, <1>2, <1>3, <1>4

LEMMA ArriveStep ==
  ASSUME WInv, NEW w \in Workers, Arrive(w)
  PROVE  WInv'
<1> USE CallerFacts, ScheduleFacts
<1>0. /\ run \in Nat /\ barrier_gen_base(run) \in Nat
      /\ \A v \in Workers : /\ seen[v] \in Nat /\ done[v] \in Nat /\ gen[v] \in Nat
                            /\ barrier_gen_base(seen[v]) \in Nat
                            /\ arrive[v] \in Nat /\ release[NodeOf(v)] \in Nat
                            /\ leader_flag[NodeOf(v)] \in Nat /\ pos[v] \in Nat \ {0}
  BY NumberFacts DEF WInv
<1>1. /\ at[w] = "run" /\ Phase(w).kind # "end"
      /\ gen' = [gen EXCEPT ![w] = @ + 1]
      /\ at' = [at EXCEPT ![w] = IF IsLeader(w) THEN "gather" ELSE "wait"]
      /\ arrive' = IF IsLeader(w) THEN arrive ELSE [arrive EXCEPT ![w] = gen[w] + 1]
      /\ UNCHANGED <<model, job, run, run_gen, published, seen, myjob, done, pos,
                     leader_flag, release>>
  BY DEF Arrive, runVars
<1>2. Typed /\ Typed'
  <2>1. gen[w] + 1 \in Nat
    BY <1>0
  <2>3. gen' \in [Workers -> Nat] /\ arrive' \in [Workers -> Nat]
    BY <1>1, <2>1 DEF WInv, Typed
  <2>2. at' \in [Workers -> Activities]
    BY <1>1 DEF WInv, Typed, Activities
  <2> QED
    BY <1>1, <2>2, <2>3 DEF WInv, Typed
<1>3. /\ gen'[w] = gen[w] + 1 /\ at'[w] \in {"gather", "wait"}
      /\ arrive'[w] \in {arrive[w], gen[w] + 1}
      /\ \A v \in Workers \ {w} : /\ gen'[v] = gen[v] /\ at'[v] = at[v]
                                  /\ arrive'[v] = arrive[v]
  BY <1>1, <1>2 DEF Typed
<1>4. Runs'
  BY <1>1, <1>3 DEF WInv, Runs, Others
<1>5. /\ w \in Executing /\ w \notin InBarrier /\ Executing \subseteq Workers
      /\ Executing' = Executing /\ InBarrier' = InBarrier \cup {w}
  BY <1>1, <1>2, <1>3 DEF Executing, InBarrier
<1>6. Exec(w) /\ pos[w] < Len(Code[model][job][w]) /\ Len(Code[model][job][w]) \in 1 .. GenBase
  BY <1>1, <1>2, <1>5, PhaseFacts DEF WInv, Execs
<1>7. Execs'
  <2> SUFFICES ASSUME NEW v \in Executing PROVE Exec(v)'
    BY <1>5 DEF Execs
  <2>1. CASE v = w
    <3>1. Phase(w)' = Phase(w)
      BY <1>1 DEF Phase
    <3>2. gen'[w] = barrier_gen_base(run) + pos[w] - 1 + 1
      BY <1>0, <1>3, <1>5, <1>6 DEF Exec
    <3> QED
      BY <1>1, <1>3, <1>5, <1>6, <2>1, <3>1, <3>2 DEF Exec, barrier_gen_base
  <2>2. CASE v # w
    BY <1>1, <1>3, <1>5, <2>2 DEF WInv, Execs, Exec, Phase, barrier_gen_base
  <2> QED
    BY <2>1, <2>2
<1>8. Gens'
  <2> SUFFICES ASSUME NEW v \in Workers
               PROVE  /\ gen'[v] < barrier_gen_base(seen'[v]) + GenBase
                      /\ at'[v] = "woken" => gen'[v] < barrier_gen_base(seen'[v])
    BY DEF Gens, barrier_gen_base
  <2>1. CASE v = w
    <3>1. gen'[w] = barrier_gen_base(run) + pos[w] /\ seen[w] = run
      BY <1>0, <1>3, <1>5, <1>6 DEF Exec
    <3>2. pos[w] < GenBase
      BY <1>0, <1>6
    <3>3. gen'[w] < barrier_gen_base(run) + GenBase
      BY <1>0, <3>1, <3>2
    <3>4. seen'[w] = run /\ at'[w] # "woken"
      BY <1>1, <1>3, <3>1
    <3> QED
      BY <2>1, <3>3, <3>4
  <2>2. CASE v # w
    BY <1>1, <1>3, <2>2 DEF WInv, Gens
  <2> QED
    BY <2>1, <2>2
<1>9. Words'
  <2> SUFFICES ASSUME NEW v \in Workers PROVE Word(v)'
    BY DEF Words
  <2>0. Word(v)
    BY DEF WInv, Words
  <2>1. \A u \in Workers : gen'[u] >= gen[u]
    BY <1>0, <1>3
  <2>2. CASE v = w
    <3>1. release[NodeOf(w)] <= gen[w] /\ leader_flag[NodeOf(w)] <= gen[w] /\ arrive[w] <= gen[w]
      BY <2>0, <2>2 DEF Word
    <3> QED
      BY <1>0, <1>1, <1>3, <2>2, <3>1, SMTT(30) DEF Word
  <2>3. CASE v # w
    <3>1. gen'[v] = gen[v] /\ at'[v] = at[v] /\ arrive'[v] = arrive[v] /\ Phase(v)' = Phase(v)
      BY <1>1, <1>3, <2>3 DEF Phase
    <3>2. v \in InBarrier' => v \in InBarrier
      BY <1>5, <2>3
    <3> QED
      BY <1>1, <1>2, <2>0, <2>1, <3>1, <3>2, WordKept
  <2> QED
    BY <2>2, <2>3
<1> QED
  BY <1>2, <1>4, <1>7, <1>8, <1>9 DEF WInv

\* Whoever leaves a barrier is in the next phase, with the same count.
LEMMA LeaveStep ==
  ASSUME WInv, NEW w \in Workers, w \in InBarrier, NextPhase(w),
         UNCHANGED <<runVars, gen, arrive, leader_flag>>,
         release' \in [Nodes -> Nat]
  PROVE  /\ Typed' /\ Runs' /\ Execs' /\ Gens'
         /\ InBarrier' = InBarrier \ {w}
         /\ \A v \in Workers \ {w} : at'[v] = at[v] /\ Phase(v)' = Phase(v)
<1> USE CallerFacts, ScheduleFacts
<1>1. /\ at' = [at EXCEPT ![w] = "run"] /\ pos' = [pos EXCEPT ![w] = @ + 1]
      /\ UNCHANGED <<model, job, run, run_gen, published, seen, myjob, done, gen, arrive,
                     leader_flag>>
  BY DEF NextPhase, runVars
<1>2. w \in Executing /\ Executing \subseteq Workers /\ Exec(w)
  BY DEF Executing, InBarrier, WInv, Execs
<1>3. pos[w] < Len(Code[model][job][w]) /\ Len(Code[model][job][w]) \in 1 .. GenBase
  BY <1>2, PhaseFacts DEF WInv, Exec
<1>4. pos[w] \in Nat \ {0} /\ barrier_gen_base(run) \in Nat /\ gen[w] \in Nat
  BY NumberFacts DEF WInv
<1>5. Typed'
  <2>1. pos[w] + 1 \in 1 .. GenBase
    BY <1>3, <1>4
  <2>2. pos' \in [Workers -> 1 .. GenBase]
    BY <1>1, <2>1 DEF WInv, Typed
  <2>3. at' \in [Workers -> Activities]
    BY <1>1 DEF WInv, Typed, Activities
  <2> QED
    BY <1>1, <2>2, <2>3 DEF WInv, Typed
<1>6. /\ at'[w] = "run" /\ pos'[w] = pos[w] + 1
      /\ \A v \in Workers \ {w} : at'[v] = at[v] /\ pos'[v] = pos[v]
  BY <1>1 DEF WInv, Typed
<1>7. at[w] \in {"wait", "gather", "cross"}
  BY DEF InBarrier
<1>8. Runs'
  BY <1>1, <1>6, <1>7 DEF WInv, Runs, Others
<1>9. Executing' = Executing /\ InBarrier' = InBarrier \ {w}
  BY <1>6, <1>7 DEF Executing, InBarrier
<1>10. \A v \in Workers \ {w} : at'[v] = at[v] /\ Phase(v)' = Phase(v)
  BY <1>1, <1>6 DEF Phase
<1>11. Execs'
  <2> SUFFICES ASSUME NEW v \in Executing PROVE Exec(v)'
    BY <1>9 DEF Execs
  <2>1. CASE v = w
    <3>1. gen[w] = barrier_gen_base(run) + (pos[w] + 1) - 1 + 0
      BY <1>2, <1>4 DEF Exec
    <3>2. pos[w] + 1 <= Len(Code[model][job][w])
      BY <1>3, <1>4
    <3> QED
      BY <1>1, <1>2, <1>6, <1>9, <2>1, <3>1, <3>2 DEF Exec, barrier_gen_base
  <2>2. CASE v # w
    <3>1. Exec(v) /\ v \in Workers
      BY <1>2 DEF WInv, Execs
    <3> QED
      BY <1>1, <1>6, <1>9, <1>10, <2>2, <3>1 DEF Exec, barrier_gen_base
  <2> QED
    BY <2>1, <2>2
<1>12. Gens'
  BY <1>1, <1>6 DEF WInv, Gens, barrier_gen_base
<1> QED
  BY <1>5, <1>8, <1>9, <1>10, <1>11, <1>12

LEMMA ReleasedStep ==
  ASSUME WInv, NEW w \in Workers, Released(w)
  PROVE  WInv'
<1>0. \A v \in Workers : /\ gen[v] \in Nat /\ arrive[v] \in Nat
                        /\ release[NodeOf(v)] \in Nat /\ leader_flag[NodeOf(v)] \in Nat
  BY NumberFacts DEF WInv
<1>1. /\ w \in InBarrier /\ NextPhase(w)
      /\ UNCHANGED <<runVars, gen, arrive, leader_flag, release>>
  BY DEF Released, InBarrier, wordVars
<1>2. release' \in [Nodes -> Nat]
  BY <1>1 DEF WInv, Typed
<1>3. /\ Typed' /\ Runs' /\ Execs' /\ Gens' /\ InBarrier' = InBarrier \ {w}
      /\ \A v \in Workers \ {w} : at'[v] = at[v] /\ Phase(v)' = Phase(v)
  BY <1>1, <1>2, LeaveStep
<1>4. Words'
  <2>1. \A v \in Workers : gen'[v] >= gen[v]
    BY <1>0, <1>1
  <2>2. \A v \in InBarrier' : /\ v \in InBarrier /\ gen'[v] = gen[v] /\ Phase(v)' = Phase(v)
                              /\ at'[v] = "cross" => at[v] = "cross"
    BY <1>1, <1>3 DEF InBarrier
  <2> QED
    BY <1>1, <1>3, <2>1, <2>2, WordsKept DEF WInv
<1> QED
  BY <1>3, <1>4 DEF WInv

\* The members of a gathered node have all entered the leader's barrier.
LEMMA GatheredNode ==
  ASSUME WInv, NEW w \in Workers, Arrived(w),
         NEW v \in Workers, NodeOf(v) = NodeOf(w)
  PROVE  gen[v] >= gen[w]
<1>1. CASE v = w
  BY <1>1, NumberFacts DEF WInv
<1>2. CASE v # w
  <2>1. arrive[v] >= gen[w]
    BY <1>2, NodeFacts DEF Arrived
  <2>2. arrive[v] <= gen[v]
    BY DEF WInv, Words, Word
  <2> QED
    BY <2>1, <2>2, NumberFacts DEF WInv
<1> QED
  BY <1>1, <1>2

\* A node is let go: its release word is set to the count of w.
LEMMA ReleaseStep ==
  ASSUME WInv, NEW w \in Workers, w \in InBarrier, NextPhase(w),
         UNCHANGED <<runVars, gen, arrive, leader_flag>>,
         release' = [release EXCEPT ![NodeOf(w)] = gen[w]],
         \A v \in Workers : NodeOf(v) = NodeOf(w) => gen[v] >= gen[w],
         Phase(w).kind = "node" \/ AllIn(w)
  PROVE  WInv'
<1>0. \A v \in Workers : /\ gen[v] \in Nat /\ arrive[v] \in Nat
                        /\ release[NodeOf(v)] \in Nat /\ leader_flag[NodeOf(v)] \in Nat
  BY NumberFacts DEF WInv
<1>1. release' \in [Nodes -> Nat] /\ release'[NodeOf(w)] = gen[w]
  BY <1>0, NodeFacts DEF WInv, Typed
<1>2. /\ Typed' /\ Runs' /\ Execs' /\ Gens' /\ InBarrier' = InBarrier \ {w}
      /\ \A v \in Workers \ {w} : at'[v] = at[v] /\ Phase(v)' = Phase(v)
  BY <1>1, LeaveStep
<1>3. at'[w] = "run"
  BY DEF NextPhase, WInv, Typed
<1>4. ASSUME NEW v \in Workers PROVE Word(v)'
  <2>1. Word(v) /\ gen' = gen /\ arrive' = arrive /\ leader_flag' = leader_flag
    BY DEF WInv, Words
  <2>2. release'[NodeOf(v)] <= gen'[v]
    <3>1. CASE NodeOf(v) = NodeOf(w)
      BY <1>0, <1>1, <2>1, <3>1
    <3>2. CASE NodeOf(v) # NodeOf(w)
      BY <2>1, <3>2, NodeFacts DEF Word, WInv, Typed
    <3> QED
      BY <3>1, <3>2
  <2>3. at'[v] = "cross" => v # w /\ at[v] = "cross"
    BY <1>2, <1>3
  <2>4. ASSUME v \in InBarrier', Phase(v)'.kind = "all", release'[NodeOf(v)] >= gen'[v]
        PROVE  AllIn(v)
    <3>1. v # w /\ v \in InBarrier /\ Phase(v).kind = "all"
      BY <1>2, <2>4
    <3>2. CASE NodeOf(v) # NodeOf(w)
      <4>1. release'[NodeOf(v)] = release[NodeOf(v)]
        BY <3>2, NodeFacts DEF WInv, Typed
      <4> QED
        BY <2>1, <2>4, <3>1, <4>1 DEF Word
    <3>3. CASE NodeOf(v) = NodeOf(w)
      <4>1. gen[v] = gen[w]
        <5>1. release'[NodeOf(v)] = gen[w] /\ gen[v] >= gen[w]
          BY <1>1, <3>3
        <5> QED
          BY <1>0, <2>1, <2>4, <5>1
      <4>2. Phase(v).kind = Phase(w).kind
        BY <3>1, <3>3, <4>1, SameBarrier DEF WInv
      <4> QED
        BY <3>1, <4>1, <4>2 DEF AllIn
    <3> QED
      BY <3>2, <3>3
  <2> QED
    BY <2>1, <2>2, <2>3, <2>4 DEF Word, AllIn
<1> QED
  BY <1>2, <1>4 DEF WInv, Words

LEMMA GatherNodeStep ==
  ASSUME WInv, NEW w \in Workers, GatherNode(w)
  PROVE  WInv'
<1>1. /\ w \in InBarrier /\ NextPhase(w) /\ Arrived(w) /\ Phase(w).kind = "node"
      /\ UNCHANGED <<runVars, gen, arrive, leader_flag>>
      /\ release' = [release EXCEPT ![NodeOf(w)] = gen[w]]
  BY DEF GatherNode, InBarrier
<1>2. \A v \in Workers : NodeOf(v) = NodeOf(w) => gen[v] >= gen[w]
  BY <1>1, GatheredNode
<1> QED
  BY <1>1, <1>2, ReleaseStep

\* A leader that crosses has seen every node arrive.
LEMMA CrossedAll ==
  ASSUME WInv, NEW w \in Workers, Cross(w)
  PROVE  AllIn(w)
<1> SUFFICES ASSUME NEW v \in Workers PROVE gen[v] >= gen[w]
  BY DEF AllIn
<1>1. CASE NodeOf(v) = NodeOf(w)
  BY <1>1, NodeFacts DEF Cross, WInv, Words, Word
<1>2. CASE NodeOf(v) # NodeOf(w)
  <2>1. leader_flag[NodeOf(v)] >= gen[w]
    BY <1>2, NodeFacts DEF Cross
  <2>2. leader_flag[NodeOf(v)] <= gen[v]
    BY DEF WInv, Words, Word
  <2> QED
    BY <2>1, <2>2, NumberFacts DEF WInv
<1> QED
  BY <1>1, <1>2

LEMMA CrossStep ==
  ASSUME WInv, NEW w \in Workers, Cross(w)
  PROVE  WInv'
<1>1. /\ w \in InBarrier /\ NextPhase(w)
      /\ UNCHANGED <<runVars, gen, arrive, leader_flag>>
      /\ release' = [release EXCEPT ![NodeOf(w)] = gen[w]]
  BY DEF Cross, InBarrier
<1>2. AllIn(w)
  BY CrossedAll
<1> QED
  BY <1>1, <1>2, ReleaseStep DEF AllIn

LEMMA GatherAllStep ==
  ASSUME WInv, NEW w \in Workers, GatherAll(w)
  PROVE  WInv'
<1> USE CallerFacts, ScheduleFacts
<1>0. \A v \in Workers : /\ gen[v] \in Nat /\ arrive[v] \in Nat
                        /\ release[NodeOf(v)] \in Nat /\ leader_flag[NodeOf(v)] \in Nat
  BY NumberFacts DEF WInv
<1>1. /\ at[w] = "gather" /\ Phase(w).kind = "all" /\ Arrived(w)
      /\ leader_flag' = [leader_flag EXCEPT ![NodeOf(w)] = gen[w]]
      /\ at' = [at EXCEPT ![w] = "cross"]
      /\ UNCHANGED <<model, job, run, run_gen, published, seen, myjob, done, pos, gen,
                     arrive, release>>
  BY DEF GatherAll, runVars
<1>2. Typed /\ Typed'
  <2>1. leader_flag' \in [Nodes -> Nat]
    BY <1>0, <1>1 DEF WInv, Typed
  <2> QED
    BY <1>1, <2>1 DEF WInv, Typed, Activities
<1>3. at'[w] = "cross" /\ \A v \in Workers \ {w} : at'[v] = at[v]
  BY <1>1, <1>2 DEF Typed
<1>4. Runs'
  BY <1>1, <1>3 DEF WInv, Runs, Others
<1>5. Executing' = Executing /\ InBarrier' = InBarrier /\ Executing \subseteq Workers
  BY <1>1, <1>3 DEF Executing, InBarrier
<1>6. \A v \in Workers : Phase(v)' = Phase(v)
  BY <1>1 DEF Phase
<1>7. Execs'
  <2> SUFFICES ASSUME NEW v \in Executing PROVE Exec(v)'
    BY <1>5 DEF Execs
  <2>1. Exec(v) /\ v \in Workers
    BY <1>5 DEF WInv, Execs
  <2>2. at'[v] = "cross" => Phase(v).kind = "all"
    BY <1>1, <1>3, <2>1 DEF Exec
  <2> QED
    BY <1>1, <1>5, <1>6, <2>1, <2>2 DEF Exec, barrier_gen_base
<1>8. Gens'
  BY <1>1, <1>3 DEF WInv, Gens, barrier_gen_base
<1>9. ASSUME NEW v \in Workers PROVE Word(v)'
  <2>1. Word(v) /\ gen' = gen /\ arrive' = arrive /\ release' = release
    BY <1>1 DEF WInv, Words
  <2>2. leader_flag'[NodeOf(v)] <= gen'[v]
    <3>1. CASE NodeOf(v) = NodeOf(w)
      <4>1. leader_flag'[NodeOf(v)] = gen[w]
        BY <1>1, <1>2, <3>1, NodeFacts DEF Typed
      <4> QED
        BY <1>0, <1>1, <2>1, <3>1, <4>1, GatheredNode
    <3>2. CASE NodeOf(v) # NodeOf(w)
      BY <1>1, <1>2, <2>1, <3>2, NodeFacts DEF Word, Typed
    <3> QED
      BY <3>1, <3>2
  <2>3. at'[v] = "cross" => \A u \in NodeMates(NodeOf(v)) : gen'[u] >= gen'[v]
    <3>1. CASE v = w
      BY <1>1, <2>1, <3>1, NodeFacts, GatheredNode
    <3>2. CASE v # w
      BY <1>3, <2>1, <3>2 DEF Word
    <3> QED
      BY <3>1, <3>2
  <2> QED
    BY <1>5, <1>6, <2>1, <2>2, <2>3 DEF Word, AllIn
<1> QED
  BY <1>2, <1>4, <1>7, <1>8, <1>9 DEF WInv, Words

LEMMA StillStep ==
  ASSUME WInv, UNCHANGED vars
  PROVE  WInv'
BY DEF WInv, Typed, Runs, Execs, Exec, Gens, Words, Word, AllIn, Executing, InBarrier, Phase,
       barrier_gen_base, vars, runVars, wordVars

LEMMA NextStep == WInv /\ [Next]_vars => WInv'
<1> SUFFICES ASSUME WInv, [Next]_vars PROVE WInv'
  OBVIOUS
<1>1. CASE \E j \in Jobs : Run(j)
  BY <1>1, RunStep
<1>2. CASE Publish
  BY <1>2, PublishStep
<1>3. CASE Join
  BY <1>3, JoinStep
<1>4. ASSUME NEW w \in Workers, Step(w) PROVE WInv'
  BY <1>4, WakeUpStep, LoadStep, FinishStep, ArriveStep, GatherNodeStep, GatherAllStep,
     CrossStep, ReleasedStep DEF Step
<1>5. CASE Rest \/ UNCHANGED vars
  BY <1>5, StillStep DEF Rest
<1> QED
  BY <1>1, <1>2, <1>3, <1>4, <1>5 DEF Next, PoolStep

-----------------------------------------------------------------------------
(***************************************************************************)
(* The rendezvous                                                          *)
(***************************************************************************)
Pend == [w \in Workers |-> PendOf(w)]

LEMMA RendezvousFacts ==
  /\ R!Workers = Workers
  /\ \A w \in Workers : \A kind : R!Party(w, kind) =
       IF kind = "all" THEN Workers ELSE NodeMates(NodeOf(w))
  /\ R!vars = <<gen, Pend>>
BY DEF R!Workers, R!Nodes, R!Cores, R!Party, R!NodeMates, R!NodeOf, R!vars, Pend,
       Workers, Nodes, Cores, NodeMates, NodeOf

\* Who enters, leaves or stays in no barrier is seen by nobody else.
LEMMA PendChanges ==
  ASSUME NEW w \in Workers,
         \A v \in Workers \ {w} :
           /\ v \in InBarrier' <=> v \in InBarrier
           /\ v \in InBarrier => Phase(v)' = Phase(v)
  PROVE  Pend' = [Pend EXCEPT ![w] = PendOf(w)']
<1>1. ASSUME NEW v \in Workers \ {w} PROVE PendOf(v)' = PendOf(v)
  <2>1. CASE v \in InBarrier
    <3>1. v \in InBarrier' /\ Phase(v)' = Phase(v)
      BY <2>1
    <3> QED
      BY <2>1, <3>1 DEF PendOf
  <2>2. CASE v \notin InBarrier
    <3>1. v \notin InBarrier'
      BY <2>2
    <3> QED
      BY <2>2, <3>1 DEF PendOf
  <2> QED
    BY <2>1, <2>2
<1> QED
  BY <1>1 DEF Pend

LEMMA ArriveEnters ==
  ASSUME WInv, NEW w \in Workers, Arrive(w)
  PROVE  R!Enter(w)
<1>1. /\ at[w] = "run" /\ Phase(w).kind # "end"
      /\ gen' = [gen EXCEPT ![w] = @ + 1]
      /\ at' = [at EXCEPT ![w] = IF IsLeader(w) THEN "gather" ELSE "wait"]
      /\ UNCHANGED <<model, myjob, pos>>
  BY DEF Arrive, runVars
<1>2. /\ w \notin InBarrier /\ w \in InBarrier'
      /\ \A v \in Workers : Phase(v)' = Phase(v)
      /\ \A v \in Workers \ {w} : v \in InBarrier' <=> v \in InBarrier
  BY <1>1 DEF InBarrier, Phase, WInv, Typed
<1>3. Pend' = [Pend EXCEPT ![w] = PendOf(w)']
  BY <1>2, PendChanges
<1>4. PendOf(w)' = Phase(w).kind /\ Pend[w] = "none"
  BY <1>2 DEF PendOf, Pend
<1>5. Phase(w).kind \in {"node", "all"}
  BY <1>1, PhaseFacts DEF WInv, Executing
<1> QED
  BY <1>1, <1>3, <1>4, <1>5 DEF R!Enter, Pend

\* Whoever goes on has not been passed over by the others of its barrier.
LEMMA LeaveLeaves ==
  ASSUME WInv, NEW w \in Workers, w \in InBarrier, NextPhase(w),
         UNCHANGED <<runVars, gen>>,
         \A v \in Workers : NodeOf(v) = NodeOf(w) => gen[v] >= gen[w],
         Phase(w).kind = "all" => AllIn(w)
  PROVE  R!Leave(w)
<1>1. /\ at' = [at EXCEPT ![w] = "run"] /\ pos' = [pos EXCEPT ![w] = @ + 1]
      /\ UNCHANGED <<model, myjob, gen>>
  BY DEF NextPhase, runVars
<1>2. /\ w \notin InBarrier'
      /\ \A v \in Workers \ {w} : /\ v \in InBarrier' <=> v \in InBarrier
                                  /\ Phase(v)' = Phase(v)
  BY <1>1 DEF InBarrier, Phase, WInv, Typed
<1>3. Pend' = [Pend EXCEPT ![w] = "none"]
  BY <1>2, PendChanges DEF PendOf
<1>4. Pend[w] = Phase(w).kind /\ Phase(w).kind \in {"node", "all"}
  BY PhaseFacts DEF PendOf, Pend, WInv, Execs, Exec, Executing, InBarrier
<1>5. \A v \in R!Party(w, Pend[w]) : gen[v] >= gen[w]
  BY <1>4, RendezvousFacts, NodeFacts DEF AllIn
<1> QED
  BY <1>1, <1>3, <1>4, <1>5 DEF R!Leave, Pend

LEMMA BarrierLeaves ==
  ASSUME WInv, NEW w \in Workers, GatherNode(w) \/ Cross(w) \/ Released(w)
  PROVE  R!Leave(w)
<1>1. w \in InBarrier /\ NextPhase(w) /\ UNCHANGED <<runVars, gen>>
  BY DEF GatherNode, Cross, Released, InBarrier
<1>2. CASE GatherNode(w)
  <2>1. Arrived(w) /\ Phase(w).kind = "node"
    BY <1>2 DEF GatherNode
  <2>2. \A v \in Workers : NodeOf(v) = NodeOf(w) => gen[v] >= gen[w]
    BY <2>1, GatheredNode
  <2> QED
    BY <1>1, <2>1, <2>2, LeaveLeaves
<1>3. CASE Cross(w)
  BY <1>1, <1>3, CrossedAll, LeaveLeaves DEF AllIn
<1>4. CASE Released(w)
  <2>1. release[NodeOf(w)] >= gen[w]
    BY <1>4 DEF Released
  <2>2. \A v \in Workers : NodeOf(v) = NodeOf(w) => gen[v] >= gen[w]
    <3> TAKE v \in Workers
    <3>1. NodeOf(v) = NodeOf(w) => release[NodeOf(w)] <= gen[v]
      BY DEF WInv, Words, Word
    <3> QED
      BY <2>1, <3>1, NumberFacts DEF WInv
  <2>3. Phase(w).kind = "all" => AllIn(w)
    BY <1>1, <2>1 DEF WInv, Words, Word
  <2> QED
    BY <1>1, <2>2, <2>3, LeaveLeaves
<1> QED
  BY <1>2, <1>3, <1>4

\* A worker that takes up a run is not ahead of anyone who waits.
LEMMA BaseRestarts ==
  ASSUME WInv, NEW w \in Workers, w \notin InBarrier,
         gen[w] < barrier_gen_base(run),
         gen' = [gen EXCEPT ![w] = barrier_gen_base(run)],
         Pend' = Pend
  PROVE  R!Restart(w)
<1>1. Pend[w] = "none"
  BY DEF Pend, PendOf
<1>2. gen[w] \in Nat /\ barrier_gen_base(run) \in Nat /\ gen'[w] = barrier_gen_base(run)
  BY NumberFacts DEF WInv, Typed
<1>3. ASSUME NEW v \in Workers, gen[v] < gen'[w] PROVE Pend[v] = "none"
  <2>1. v \notin InBarrier
    <3>1. v \in InBarrier => Exec(v) /\ pos[v] \in Nat \ {0} /\ gen[v] \in Nat
      BY NumberFacts DEF WInv, Execs, Executing, InBarrier
    <3> QED
      BY <1>2, <1>3, <3>1 DEF Exec
  <2> QED
    BY <2>1 DEF Pend, PendOf
<1> QED
  BY <1>1, <1>2, <1>3, RendezvousFacts DEF R!Restart, Pend

LEMMA LoadRestarts ==
  ASSUME WInv, NEW w \in Workers, Load(w)
  PROVE  R!Restart(w)
<1>1. /\ at[w] = "woken"
      /\ myjob' = [myjob EXCEPT ![w] = job] /\ pos' = [pos EXCEPT ![w] = 1]
      /\ gen' = [gen EXCEPT ![w] = barrier_gen_base(seen[w])]
      /\ at' = [at EXCEPT ![w] = "run"] /\ model' = model
  BY DEF Load
<1>2. seen[w] = run /\ gen[w] < barrier_gen_base(seen[w])
  BY <1>1 DEF WInv, Runs, Others, Gens
<1>3. /\ w \notin InBarrier /\ w \notin InBarrier'
      /\ \A v \in Workers \ {w} : /\ v \in InBarrier' <=> v \in InBarrier
                                  /\ Phase(v)' = Phase(v)
  BY <1>1 DEF InBarrier, Phase, WInv, Typed
<1>4. Pend' = Pend
  BY <1>3, PendChanges DEF PendOf, Pend
<1> QED
  BY <1>1, <1>2, <1>3, <1>4, BaseRestarts

LEMMA PublishRestarts ==
  ASSUME WInv, Publish
  PROVE  R!Restart(Caller) \/ (gen' = gen /\ Pend' = Pend)
<1> USE CallerFacts
<1>1. at[Caller] = "publish" /\ seen[Caller] < run /\ model' = model
  BY DEF Publish, WInv, Runs
<1>2. CASE published' < NNodes
  <2>1. UNCHANGED <<myjob, at, pos, gen>>
    BY <1>2 DEF Publish
  <2> QED
    BY <1>1, <2>1 DEF Pend, PendOf, InBarrier, Phase
<1>3. CASE ~(published' < NNodes)
  <2>1. /\ myjob' = [myjob EXCEPT ![Caller] = job] /\ pos' = [pos EXCEPT ![Caller] = 1]
        /\ gen' = [gen EXCEPT ![Caller] = barrier_gen_base(run)]
        /\ at' = [at EXCEPT ![Caller] = "run"]
    BY <1>3 DEF Publish, OwnShare
  <2>2. gen[Caller] < barrier_gen_base(run)
    <3>1. barrier_gen_base(seen[Caller]) + GenBase <= barrier_gen_base(run)
      BY <1>1, NumberFacts, BaseFacts DEF WInv
    <3>2. gen[Caller] < barrier_gen_base(seen[Caller]) + GenBase
      BY DEF WInv, Gens
    <3> QED
      BY <3>1, <3>2, NumberFacts, ScheduleFacts DEF WInv
  <2>3. /\ Caller \notin InBarrier /\ Caller \notin InBarrier'
        /\ \A v \in Workers \ {Caller} : /\ v \in InBarrier' <=> v \in InBarrier
                                         /\ Phase(v)' = Phase(v)
    BY <1>1, <2>1 DEF InBarrier, Phase, WInv, Typed
  <2>4. Pend' = Pend
    BY <2>3, PendChanges DEF PendOf, Pend
  <2> QED
    BY <2>1, <2>2, <2>3, <2>4, BaseRestarts
<1> QED
  BY <1>2, <1>3

\* All other steps happen outside the barriers, or move a leader within one.
LEMMA OthersStutter ==
  ASSUME WInv,
         \/ \E j \in Jobs : Run(j)
         \/ Join \/ Rest \/ UNCHANGED vars
         \/ \E w \in Workers : WakeUp(w) \/ Finish(w) \/ GatherAll(w)
  PROVE  gen' = gen /\ Pend' = Pend
<1> USE CallerFacts
<1>1. UNCHANGED <<model, myjob, pos, gen>>
  BY DEF Run, Join, Rest, vars, runVars, wordVars, WakeUp, Finish, GatherAll
<1>2. InBarrier' = InBarrier
  <2>1. CASE (\E j \in Jobs : Run(j)) \/ Join \/ Rest \/ UNCHANGED vars
    BY <2>1 DEF Run, Join, Rest, vars, InBarrier, WInv, Typed
  <2>2. CASE \E w \in Workers : WakeUp(w) \/ Finish(w) \/ GatherAll(w)
    BY <2>2 DEF WakeUp, Finish, GatherAll, InBarrier, WInv, Typed
  <2> QED
    BY <2>1, <2>2
<1> QED
  BY <1>1, <1>2 DEF Pend, PendOf, Phase

LEMMA StepRefines == WInv /\ [Next]_vars => [R!Next]_(R!vars)
<1> SUFFICES ASSUME WInv, [Next]_vars
             PROVE  R!Next \/ (gen' = gen /\ Pend' = Pend)
  BY RendezvousFacts DEF R!vars, Pend
<1>1. ASSUME NEW w \in Workers, Step(w) PROVE R!Next \/ (gen' = gen /\ Pend' = Pend)
  BY <1>1, ArriveEnters, BarrierLeaves, LoadRestarts, OthersStutter, RendezvousFacts
  DEF Step, R!Next
<1>2. CASE Publish
  BY <1>2, PublishRestarts, CallerFacts, RendezvousFacts DEF R!Next
<1>3. CASE (\E j \in Jobs : Run(j)) \/ Join \/ Rest \/ UNCHANGED vars
  BY <1>3, OthersStutter
<1> QED
  BY <1>1, <1>2, <1>3 DEF Next, PoolStep

-----------------------------------------------------------------------------
(***************************************************************************)
(* Theorems                                                                *)
(***************************************************************************)
\* The inductive invariant holds in every reachable state.
THEOREM PoolInductive == Spec => []WInv
<1>1. Init => WInv
  BY InitStep
<1>2. WInv /\ [Next]_vars => WInv'
  BY NextStep
<1> QED
  BY <1>1, <1>2, PTL DEF Spec

\* Generations count barriers from the base of the run, and nothing the pool
\* keeps is ahead of the run.
THEOREM PoolTypeOK == Spec => []TypeOK
<1>1. WInv => TypeOK
  <2> SUFFICES ASSUME WInv PROVE TypeOK
    OBVIOUS
  <2>1. /\ run_gen \in [Nodes -> 0 .. run] /\ seen \in [Workers -> 0 .. run]
        /\ done \in [Workers -> 0 .. run]
    <3>1. \A n \in Nodes : run_gen[n] \in 0 .. run
      BY NumberFacts DEF WInv, Typed, Runs
    <3>2. \A w \in Workers : seen[w] \in 0 .. run /\ done[w] \in 0 .. run
      BY NumberFacts DEF WInv, Runs
    <3> QED
      BY <3>1, <3>2 DEF WInv, Typed
  <2>2. \A w \in Executing :
          /\ pos[w] <= Len(Code[model][myjob[w]][w])
          /\ gen[w] = barrier_gen_base(seen[w]) + pos[w] - 1
                          + (IF w \in InBarrier THEN 1 ELSE 0)
    BY DEF WInv, Execs, Exec
  <2> QED
    BY <2>1, <2>2 DEF WInv, Typed, TypeOK
<1> QED
  BY <1>1, PoolInductive, PTL

\* A worker executes only the closure of the run that is still going on: the
\* borrow Pool::run hands out by address never outlives the call.
THEOREM JobAlwaysAlive == Spec => []JobAlive
<1>1. WInv => JobAlive
  <2> SUFFICES ASSUME WInv, NEW w \in Executing, w # Caller
               PROVE  at[Caller] # "idle" /\ seen[w] = run /\ myjob[w] = job
    BY DEF JobAlive
  <2>1. w \in Others /\ at[w] # "idle" /\ w \in Workers
    BY DEF Executing, Others
  <2>2. seen[w] = run /\ myjob[w] = job
    BY DEF WInv, Execs, Exec
  <2>3. done[w] < seen[w] /\ (at[Caller] = "idle" => done[w] = run)
    BY <2>1 DEF WInv, Runs
  <2> QED
    BY <2>1, <2>2, <2>3, NumberFacts DEF WInv
<1> QED
  BY <1>1, PoolInductive, PTL

\* The arrive, leader and release words implement the rendezvous: no worker
\* leaves WorkerCtx::barrier or ::node_barrier before everyone it waits for
\* has entered it, whatever the words still hold from earlier runs and from
\* the barriers of the other kind.
THEOREM BarriersImplemented == Spec => ImplementsBarrier
<1>1. Init => R!Init
  BY RendezvousFacts DEF Init, R!Init, PendOf, InBarrier
<1>2. WInv /\ [Next]_vars => [R!Next]_(R!vars)
  BY StepRefines
<1> QED
  BY <1>1, <1>2, PoolInductive, PTL DEF Spec, ImplementsBarrier, R!Spec

-----------------------------------------------------------------------------
(***************************************************************************)
(* Phases that meet                                                        *)
(***************************************************************************)
\* What a worker has behind it: whoever it waited for in an earlier phase has
\* entered that barrier too.
Reached(w) ==
  \A i \in 1 .. pos[w] - 1, v \in Workers :
    NodeOf(v) = NodeOf(w) \/ Code[model][job][w][i].kind = "all" =>
      gen[v] >= barrier_gen_base(run) + i
Met == \A w \in Executing : Reached(w)

LEMMA CountsGrow ==
  ASSUME WInv, [Next]_vars
  PROVE  \A v \in Workers : gen[v] \in Nat /\ gen'[v] \in Nat /\ gen'[v] >= gen[v]
<1>1. [R!Next]_(R!vars)
  BY StepRefines
<1>2. gen \in [Workers -> Nat] /\ gen' \in [Workers -> Nat]
  BY NextStep DEF WInv, Typed
<1>3. CASE UNCHANGED R!vars
  BY <1>2, <1>3 DEF R!vars
<1>4. CASE R!Next
  <2>1. PICK u \in Workers : R!Enter(u) \/ R!Leave(u) \/ R!Restart(u)
    BY <1>4, RendezvousFacts DEF R!Next
  <2>2. CASE R!Enter(u)
    BY <1>2, <2>2 DEF R!Enter
  <2>3. CASE R!Leave(u)
    BY <1>2, <2>3 DEF R!Leave
  <2>4. CASE R!Restart(u)
    <3>1. gen'[u] > gen[u] /\ gen' = [gen EXCEPT ![u] = gen'[u]]
      BY <2>4 DEF R!Restart
    <3> QED
      BY <1>2, <3>1
  <2> QED
    BY <2>1, <2>2, <2>3, <2>4
<1> QED
  BY <1>1, <1>3, <1>4

LEMMA ReachedKept ==
  ASSUME Typed, NEW w \in Workers, Reached(w), UNCHANGED <<model, job, run>>, pos'[w] = pos[w],
         \A v \in Workers : gen[v] \in Nat /\ gen'[v] \in Nat /\ gen'[v] >= gen[v]
  PROVE  Reached(w)'
<1>1. barrier_gen_base(run) \in Nat /\ pos[w] \in Nat
  BY NumberFacts
<1>2. barrier_gen_base(run)' = barrier_gen_base(run)
  BY DEF barrier_gen_base
<1> SUFFICES ASSUME NEW i \in 1 .. pos[w] - 1, NEW v \in Workers,
                    NodeOf(v) = NodeOf(w) \/ Code[model][job][w][i].kind = "all"
             PROVE  gen'[v] >= barrier_gen_base(run) + i
  BY <1>2 DEF Reached
<1>3. gen[v] >= barrier_gen_base(run) + i
  BY DEF Reached
<1> QED
  BY <1>1, <1>3

\* A worker that starts the closure has nothing behind it.
LEMMA ReachedFirst == ASSUME NEW w, pos'[w] = 1 PROVE Reached(w)'
BY DEF Reached

\* A worker that leaves a barrier has it behind it.
LEMMA LeaveReaches ==
  ASSUME WInv, NEW w \in Workers, w \in InBarrier, Reached(w), NextPhase(w), UNCHANGED <<runVars, gen>>,
         \A v \in Workers : NodeOf(v) = NodeOf(w) => gen[v] >= gen[w],
         Phase(w).kind = "all" => AllIn(w)
  PROVE  Reached(w)'
<1>1. w \in Executing /\ Exec(w)
  BY DEF Executing, InBarrier, WInv, Execs
<1>2. PICK b \in Nat : b = barrier_gen_base(run)
  BY NumberFacts DEF WInv
<1>3. PICK p \in Nat : p = pos[w]
  BY NumberFacts DEF WInv
<1>4. pos'[w] = p + 1
  BY <1>3 DEF NextPhase, WInv, Typed
<1>5. gen[w] = b + p /\ Phase(w) = Code[model][job][w][p]
  <2>1. gen[w] = b + p - 1 + 1
    BY <1>1, <1>2, <1>3 DEF Exec
  <2>2. Phase(w) = Code[model][job][w][p]
    BY <1>1, <1>3, PhaseFacts DEF WInv
  <2> QED
    BY <2>1, <2>2
<1>6. model' = model /\ job' = job /\ gen' = gen /\ barrier_gen_base(run)' = b
  BY <1>2 DEF runVars, barrier_gen_base
<1> SUFFICES ASSUME NEW i \in 1 .. p + 1 - 1, NEW v \in Workers,
                    NodeOf(v) = NodeOf(w) \/ Code[model][job][w][i].kind = "all"
             PROVE  gen[v] >= b + i
  BY <1>4, <1>6 DEF Reached
<1>7. CASE i = p
  BY <1>5, <1>7 DEF AllIn
<1>8. CASE i # p
  <2>1. i \in 1 .. p - 1
    BY <1>8
  <2> QED
    BY <1>2, <1>3, <2>1 DEF Reached
<1> QED
  BY <1>7, <1>8

LEMMA StepMeets ==
  ASSUME WInv, Met, NEW u \in Workers, Step(u),
         \A v \in Workers : gen[v] \in Nat /\ gen'[v] \in Nat /\ gen'[v] >= gen[v]
  PROVE  Met'
<1>0. /\ at \in [Workers -> Activities] /\ pos \in [Workers -> 1 .. GenBase] /\ Typed
  BY DEF WInv, Typed
<1> SUFFICES ASSUME NEW w \in Executing' PROVE Reached(w)'
  BY DEF Met
<1>1. w \in Workers
  BY DEF Executing
<1>2. UNCHANGED <<model, job, run>>
  BY DEF Step, WakeUp, Load, Finish, Arrive, GatherNode, GatherAll, Cross, Released, runVars
<1>3. CASE w # u
  <2>1. at'[w] = at[w] /\ pos'[w] = pos[w]
    BY <1>0, <1>1, <1>3
    DEF Step, WakeUp, Load, Finish, Arrive, GatherNode, GatherAll, Cross, Released, NextPhase
  <2>2. w \in Executing
    BY <2>1 DEF Executing
  <2> QED
    BY <1>0, <1>1, <1>2, <2>1, <2>2, ReachedKept DEF Met
<1>4. CASE w = u
  <2>1. CASE WakeUp(u) \/ Finish(u)
    <3>1. at'[u] \in {"woken", "join", "idle"}
      BY <1>0, <2>1 DEF WakeUp, Finish
    <3> QED
      BY <1>4, <3>1 DEF Executing
  <2>2. CASE Load(u)
    <3>1. pos'[u] = 1
      BY <1>0, <2>2 DEF Load
    <3> QED
      BY <1>4, <3>1, ReachedFirst
  <2>3. CASE Arrive(u) \/ GatherAll(u)
    <3>1. u \in Executing /\ pos'[u] = pos[u]
      BY <2>3 DEF Arrive, GatherAll, Executing
    <3> QED
      BY <1>0, <1>2, <1>4, <3>1, ReachedKept DEF Met
  <2>4. ASSUME u \in InBarrier, NextPhase(u), UNCHANGED <<runVars, gen>>,
               \A v \in Workers : NodeOf(v) = NodeOf(u) => gen[v] >= gen[u],
               Phase(u).kind = "all" => AllIn(u)
        PROVE  Reached(u)'
    <3>1. Reached(u)
      BY <2>4 DEF Met, Executing, InBarrier
    <3> QED
      BY <2>4, <3>1, LeaveReaches
  <2>5. CASE GatherNode(u)
    <3>1. /\ u \in InBarrier /\ NextPhase(u) /\ UNCHANGED <<runVars, gen>>
          /\ Phase(u).kind = "node" /\ Arrived(u)
      BY <2>5 DEF GatherNode, InBarrier
    <3>2. \A v \in Workers : NodeOf(v) = NodeOf(u) => gen[v] >= gen[u]
      BY <3>1, GatheredNode
    <3> QED
      BY <1>4, <2>4, <3>1, <3>2
  <2>6. CASE Cross(u)
    <3>1. u \in InBarrier /\ NextPhase(u) /\ UNCHANGED <<runVars, gen>>
      BY <2>6 DEF Cross, InBarrier
    <3>2. AllIn(u)
      BY <2>6, CrossedAll
    <3> QED
      BY <1>4, <2>4, <3>1, <3>2 DEF AllIn
  <2>7. CASE Released(u)
    <3>1. u \in InBarrier /\ NextPhase(u) /\ UNCHANGED <<runVars, gen>> /\ release[NodeOf(u)] >= gen[u]
      BY <2>7 DEF Released, InBarrier
    <3>2. ASSUME NEW v \in Workers, NodeOf(v) = NodeOf(u) PROVE gen[v] >= gen[u]
      <4>1. release[NodeOf(v)] <= gen[v]
        BY DEF WInv, Words, Word
      <4>2. release[NodeOf(v)] \in Nat /\ gen[v] \in Nat /\ gen[u] \in Nat
        BY <1>0, NumberFacts
      <4> QED
        BY <3>1, <3>2, <4>1, <4>2
    <3>3. Phase(u).kind = "all" => AllIn(u)
      BY <3>1 DEF WInv, Words, Word
    <3> QED
      BY <1>4, <2>4, <3>1, <3>2, <3>3
  <2> QED
    BY <2>1, <2>2, <2>3, <2>5, <2>6, <2>7 DEF Step
<1> QED
  BY <1>3, <1>4

LEMMA NextMeets == WInv /\ Met /\ [Next]_vars => Met'
<1> SUFFICES ASSUME WInv, Met, [Next]_vars PROVE Met'
  OBVIOUS
<1>0. /\ at \in [Workers -> Activities] /\ pos \in [Workers -> 1 .. GenBase] /\ Typed
      /\ \A v \in Workers : gen[v] \in Nat /\ gen'[v] \in Nat /\ gen'[v] >= gen[v]
  BY CountsGrow DEF WInv, Typed
<1>1. CASE \E j \in Jobs : Run(j)
  <2>1. at[Caller] = "idle" /\ at' = [at EXCEPT ![Caller] = "publish"]
    BY <1>1 DEF Run
  <2>2. \A w \in Workers \ {Caller} : at[w] = "idle"
    BY <2>1, CallerFacts, NumberFacts DEF WInv, Runs, Others
  <2>3. \A w \in Workers : at'[w] \in {"idle", "publish"}
    BY <1>0, <2>1, <2>2
  <2> QED
    BY <2>3 DEF Met, Executing
<1>2. CASE Publish \/ Join \/ Rest \/ UNCHANGED vars
  <2> SUFFICES ASSUME NEW w \in Executing' PROVE Reached(w)'
    BY DEF Met
  <2>1. w \in Workers /\ UNCHANGED <<model, job, run>>
    BY <1>2 DEF Executing, Publish, Join, Rest, vars, runVars
  <2>2. CASE w # Caller \/ (at'[w] = at[w] /\ pos'[w] = pos[w])
    <3>1. at'[w] = at[w] /\ pos'[w] = pos[w]
      BY <1>0, <1>2, <2>1, <2>2, CallerFacts DEF Publish, Join, Rest, vars, OwnShare
    <3>2. w \in Executing
      BY <3>1 DEF Executing
    <3> QED
      BY <1>0, <2>1, <3>1, <3>2, ReachedKept DEF Met
  <2>3. CASE w = Caller /\ ~(at'[w] = at[w] /\ pos'[w] = pos[w])
    <3>1. ~Rest /\ ~UNCHANGED vars
      BY <2>3 DEF Rest, vars
    <3>2. ~Join
      BY <1>0, <2>3 DEF Join, Executing
    <3>3. pos'[w] = 1
      BY <1>0, <1>2, <2>3, <3>1, <3>2, CallerFacts DEF Publish, OwnShare
    <3> QED
      BY <3>3, ReachedFirst
  <2> QED
    BY <2>2, <2>3
<1>3. ASSUME NEW u \in Workers, Step(u) PROVE Met'
  BY <1>0, <1>3, StepMeets
<1> QED
  BY <1>1, <1>2, <1>3 DEF Next, PoolStep

\* Two workers in their phases may be in these phases at the same time.
LEMMA RunningMayMeet ==
  ASSUME WInv, Met, NEW w \in Workers, NEW v \in Workers, at[w] = "run", at[v] = "run"
  PROVE  MayMeet(Code[model][job], w, pos[w], v, pos[v])
<1>1. w \in Executing /\ v \in Executing /\ w \notin InBarrier /\ v \notin InBarrier
  BY DEF Executing, InBarrier
<1>2. PICK b \in Nat : b = barrier_gen_base(run)
  BY NumberFacts DEF WInv
<1>3. PICK p \in Nat \ {0} : p = pos[w]
  BY NumberFacts DEF WInv
<1>4. PICK q \in Nat \ {0} : q = pos[v]
  BY NumberFacts DEF WInv
<1>5. gen[w] = b + p - 1 /\ gen[v] = b + q - 1
  <2>1. Exec(w) /\ Exec(v)
    BY <1>1 DEF WInv, Execs
  <2>2. gen[w] = b + p - 1 + 0 /\ gen[v] = b + q - 1 + 0
    BY <1>1, <1>2, <1>3, <1>4, <2>1 DEF Exec
  <2> QED
    BY <2>2
<1>6. /\ \A i \in 1 .. p - 1 : NodeOf(v) = NodeOf(w) \/ Code[model][job][w][i].kind = "all" => i < q
      /\ \A i \in 1 .. q - 1 : NodeOf(v) = NodeOf(w) \/ Code[model][job][v][i].kind = "all" => i < p
  <2>1. Reached(w) /\ Reached(v)
    BY <1>1 DEF Met
  <2>2. \A i \in 1 .. p - 1 : NodeOf(v) = NodeOf(w) \/ Code[model][job][w][i].kind = "all" => gen[v] >= b + i
    BY <1>2, <1>3, <2>1 DEF Reached
  <2>3. \A i \in 1 .. q - 1 : NodeOf(v) = NodeOf(w) \/ Code[model][job][v][i].kind = "all" => gen[w] >= b + i
    BY <1>2, <1>4, <2>1 DEF Reached
  <2> QED
    BY <1>5, <2>2, <2>3
<1>7. NodeOf(w) = NodeOf(v) => p = q
  <2> SUFFICES ASSUME NodeOf(w) = NodeOf(v) PROVE p = q
    OBVIOUS
  <2>1. \A i \in 1 .. p - 1 : i < q
    BY <1>6
  <2>2. \A i \in 1 .. q - 1 : i < p
    BY <1>6
  <2>3. p <= q
    <3>1. CASE p = 1
      BY <3>1
    <3>2. CASE p # 1
      <4>1. p - 1 \in 1 .. p - 1
        BY <3>2
      <4> QED
        BY <2>1, <4>1
    <3> QED
      BY <3>1, <3>2
  <2>4. q <= p
    <3>1. CASE q = 1
      BY <3>1
    <3>2. CASE q # 1
      <4>1. q - 1 \in 1 .. q - 1
        BY <3>2
      <4> QED
        BY <2>2, <4>1
    <3> QED
      BY <3>1, <3>2
  <2> QED
    BY <2>3, <2>4
<1>8. \A i \in q .. p - 1 : Code[model][job][w][i].kind # "all"
  BY <1>6
<1>9. \A i \in p .. q - 1 : Code[model][job][v][i].kind # "all"
  BY <1>6
<1> QED
  BY <1>3, <1>4, <1>7, <1>8, <1>9 DEF MayMeet

\* The closure that is being executed is one that Pool::run was lent.
LentApart == at[Caller] # "idle" => Apart(model, job)

LEMMA LentStaysApart ==
  ASSUME WInv, LentApart, [Next]_vars, Separated'
  PROVE  LentApart'
<1>1. at \in [Workers -> Activities] /\ Caller \in Workers
  BY CallerFacts DEF WInv, Typed
<1>2. CASE \E j \in Jobs : Run(j)
  <2>1. at'[Caller] = "publish" /\ published' = 0
    BY <1>1, <1>2 DEF Run
  <2> QED
    BY <2>1 DEF Separated, LentApart
<1>3. ASSUME UNCHANGED <<model, job>>, at[Caller] = "idle" => at'[Caller] = "idle"
      PROVE  LentApart'
  BY <1>3 DEF LentApart, Apart
<1>4. CASE Publish
  BY <1>3, <1>4 DEF Publish
<1>5. CASE Join
  BY <1>1, <1>3, <1>5 DEF Join, runVars
<1>6. CASE \E w \in Workers : Step(w)
  <2>1. PICK w \in Workers : Step(w)
    BY <1>6
  <2>2. CASE WakeUp(w)
    BY <1>1, <1>3, <2>2 DEF WakeUp
  <2>3. CASE Load(w)
    BY <1>1, <1>3, <2>3 DEF Load
  <2>4. CASE Finish(w)
    BY <1>1, <1>3, <2>4 DEF Finish
  <2>5. CASE Arrive(w)
    BY <1>1, <1>3, <2>5 DEF Arrive, runVars
  <2>6. CASE GatherNode(w)
    BY <1>1, <1>3, <2>6 DEF GatherNode, NextPhase, runVars
  <2>7. CASE GatherAll(w)
    BY <1>1, <1>3, <2>7 DEF GatherAll, runVars
  <2>8. CASE Cross(w)
    BY <1>1, <1>3, <2>8 DEF Cross, NextPhase, runVars
  <2>9. CASE Released(w)
    BY <1>1, <1>3, <2>9 DEF Released, NextPhase, runVars
  <2> QED
    BY <2>1, <2>2, <2>3, <2>4, <2>5, <2>6, <2>7, <2>8, <2>9 DEF Step
<1>7. CASE UNCHANGED vars
  BY <1>3, <1>7 DEF vars, runVars
<1> QED
  BY <1>2, <1>4, <1>5, <1>6, <1>7 DEF Next, PoolStep, Rest

\* If every closure is apart when Pool::run is lent it, no two workers ever
\* touch the same memory at the same time, one of them writing: for any number
\* of nodes and cores and any sequence of runs, the barriers keep what may not
\* meet from meeting (WorkerCtx::barrier, ::node_barrier).
THEOREM SeparatedNeverRaces == Spec /\ []Separated => []NoRace
<1>1. Init => WInv /\ Met /\ LentApart
  BY InitStep, CallerFacts DEF Init, Met, Executing, LentApart
<1>2. (WInv /\ Met /\ LentApart) /\ [Next]_vars /\ Separated' => (WInv /\ Met /\ LentApart)'
  BY NextStep, NextMeets, LentStaysApart
<1>3. WInv /\ Met /\ LentApart => NoRace
  <2> SUFFICES ASSUME WInv, Met, LentApart, NEW w \in Workers, NEW v \in Workers,
                      w # v, at[w] = "run", at[v] = "run"
               PROVE  ~Clash(Phase(w), Phase(v))
    BY DEF NoRace
  <2>1. MayMeet(Code[model][job], w, pos[w], v, pos[v])
    BY RunningMayMeet
  <2>2. /\ Phase(w) = Code[model][job][w][pos[w]] /\ pos[w] \in 1 .. Len(Code[model][job][w])
        /\ Phase(v) = Code[model][job][v][pos[v]] /\ pos[v] \in 1 .. Len(Code[model][job][v])
    BY PhaseFacts DEF Executing, WInv
  <2>3. model \in Models /\ job \in Jobs
    BY DEF WInv, Typed
  <2>4. DOMAIN Code[model][job][w] = 1 .. Len(Code[model][job][w])
        /\ DOMAIN Code[model][job][v] = 1 .. Len(Code[model][job][v])
    BY <2>3, ProgramAssumption
  <2>5. at[Caller] # "idle"
    <3>1. ASSUME at[Caller] = "idle" PROVE FALSE
      <4>1. \A u \in Others : done[u] = run
        BY <3>1 DEF WInv, Runs
      <4>2. w \in Others
        BY <3>1 DEF Others
      <4>3. done[w] < seen[w] /\ seen[w] = run
        BY <4>2 DEF WInv, Runs
      <4> QED
        BY <4>1, <4>2, <4>3 DEF WInv, Typed
    <3> QED
      BY <3>1
  <2> QED
    BY <2>1, <2>2, <2>4, <2>5 DEF LentApart, Apart
<1> QED
  BY <1>1, <1>2, <1>3, PTL DEF Spec
=============================================================================

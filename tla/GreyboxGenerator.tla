-------------------------- MODULE GreyboxGenerator --------------------------
(***************************************************************************)
(* The greybox generator: coverage-guided mutation of earlier tests. Each  *)
(* executed test is observed as the sequence of tools the agent called; it *)
(* becomes a seed with as much energy as it showed new things, and each    *)
(* mutation costs its seed one unit. Part 1 is the generator's state and   *)
(* its methods as operators, part 2 how a campaign drives it: one proposal *)
(* at a time, or in batches made durable by two state transitions, with    *)
(* processes that die while they plan.                                     *)
(***************************************************************************)
EXTENDS Integers, SequencesExt

CONSTANTS
  Tools,        \* labels of tool calls at the campaign's granularity
  Runs,         \* what executions are seen as: sequences of labels
  Bootstrap,    \* executions of the bootstrap phase
  EpochSize,    \* reservations of a batch
  MaxCrashes,   \* bound: processes that die
  None

ASSUME RunsAssumption == Runs \subseteq Seq(Tools)
ASSUME BootstrapAssumption == Bootstrap \in Nat \ {0}
ASSUME EpochAssumption == EpochSize \in Nat \ {0}
ASSUME CrashAssumption == MaxCrashes \in Nat

-----------------------------------------------------------------------------
(* Part 1: the generator. corpus holds every retained seed, queue and pending refer to
   it by position. *)

Seed == [seq : Runs, energy : 0 .. 3, base : 0 .. 3]

Snapshot ==
  [tools : SUBSET Tools, trans : SUBSET (Tools \X Tools), seqs : SUBSET Runs,
   corpus : Seq(Seed), queue : Seq(Nat), pending : Nat \cup {None}, failed : BOOLEAN]

Slots == 1 .. EpochSize

\* The two transitions of a batch, with what they hand on.
Reservation == [pre : Snapshot, post : Snapshot, parents : [Slots -> Nat]]
Completion == [pre : Snapshot, post : Snapshot, results : SUBSET Slots]

ASSUME NoneAssumption ==
  None \notin Nat /\ None \notin Snapshot /\ None \notin Reservation /\ None \notin Completion

Empty == [tools |-> {}, trans |-> {}, seqs |-> {}, corpus |-> <<>>, queue |-> <<>>,
          pending |-> None, failed |-> FALSE]

Transitions(run) == {<<run[i], run[i + 1]>> : i \in 1 .. Len(run) - 1}

Unit(novel) == IF novel THEN 1 ELSE 0

\* One unit each for a new tool, a new transition, a new sequence.
Energy(g, run) ==
  Unit(~ ToSet(run) \subseteq g.tools) + Unit(~ Transitions(run) \subseteq g.trans)
    + Unit(run \notin g.seqs)

\* Faulty variant of Observed: transitions are compared and never recorded.
ObservedWithoutTransitions(g, run) ==
  [g EXCEPT !.tools = @ \cup ToSet(run), !.seqs = @ \cup {run}]

Observed(g, run) ==
  [g EXCEPT !.tools = @ \cup ToSet(run),
            !.trans = @ \cup Transitions(run),
            !.seqs = @ \cup {run}]

\* The execution becomes a seed, queued if it has energy.
Retained(g, run, energy) ==
  [g EXCEPT !.corpus = Append(@, [seq |-> run, energy |-> energy, base |-> energy]),
            !.queue = IF energy > 0 THEN Append(@, Len(g.corpus) + 1) ELSE @]

\* Bootstrap executions are all retained, mutants only if they showed something new.
FoldInitial(g, run) == Retained(Observed(g, run), run, Energy(g, run))

FoldMutant(g, run) ==
  IF Energy(g, run) = 0 THEN Observed(g, run)
                        ELSE Retained(Observed(g, run), run, Energy(g, run))

\* The members of S, in the order of s.
OnlyIn(s, S) ==
  LET upto[k \in 0 .. Len(s)] ==
        IF k = 0 THEN <<>>
        ELSE IF s[k] \in S THEN Append(upto[k - 1], s[k]) ELSE upto[k - 1]
  IN  upto[Len(s)]

Position(g) == 1 .. Len(g.corpus)
Earning(g) == {i \in Position(g) : g.corpus[i].base > 0}

Earned(g) == OnlyIn([i \in Position(g) |-> i], Earning(g))

\* Faulty variant of Recycled: all seeds are put back whenever one is chosen.
RecycledAlways(g) ==
  [g EXCEPT !.corpus = [i \in DOMAIN @ |-> [@[i] EXCEPT !.energy = g.corpus[i].base]],
            !.queue = Earned(g)]

\* When the queue has run out, every seed gets back the energy it once earned.
Recycled(g) == IF g.queue = <<>> THEN RecycledAlways(g) ELSE g

\* Highest energy first, otherwise in the order they had.
ByEnergy(g) ==
  LET Of(n) == OnlyIn(g.queue, {i \in Position(g) : g.corpus[i].energy = n})
  IN  Of(3) \o Of(2) \o Of(1)

\* Faulty variant of Spending: a chosen seed is left after one mutation.
SpendingNever(g) == FALSE

\* Faulty variant of Spending: a chosen seed is never left.
SpendingForever(g) == g.pending # None

\* The chosen seed has energy left.
Spending(g) == g.pending # None /\ g.corpus[g.pending].energy > 0

Chosen(g) ==
  IF Spending(g) THEN g
  ELSE LET r == Recycled(g)
           q == ByEnergy(r)
       IN  IF q = <<>> THEN [g EXCEPT !.pending = None]
                       ELSE [r EXCEPT !.pending = Head(q), !.queue = Tail(q)]

\* The seed of the next mutation is chosen and pays for it.
Spent(g) ==
  LET c == Chosen(g)
      paid(i) == [c.corpus[i] EXCEPT !.energy = @ - 1]
  IN  IF c.pending = None THEN c
      ELSE [c EXCEPT !.corpus = [i \in DOMAIN @ |-> IF i = c.pending THEN paid(i) ELSE @[i]]]

\* The scheduler after 0, 1, .. n mutations.
Spendings(g, n) ==
  LET after[k \in 0 .. n] == IF k = 0 THEN g ELSE Spent(after[k - 1])
  IN  after

-----------------------------------------------------------------------------
(* Part 2: the campaign that drives it. *)

VARIABLES
  mode,          \* how proposals are made: "sequential" or "batch"
  gen,           \* the generator in memory
  saved,         \* the campaign's last durable snapshot of it
  reservation,   \* reservation.json of this epoch
  completion,    \* completion.json of this epoch
  pc,            \* "bootstrap", "plan", "reserved", "proposed", "fold"
  parents,       \* the seeds of the mutations under way, one per slot
  results,       \* the slots that yielded a test
  folded,        \* those of them that were executed and folded
  crashes

files == <<reservation, completion>>
vars == <<mode, gen, saved, files, pc, parents, results, folded, crashes>>

Init ==
  /\ mode \in {"sequential", "batch"}
  /\ gen = Empty /\ saved = Empty
  /\ reservation = None /\ completion = None
  /\ pc = "bootstrap"
  /\ parents = <<>> /\ results = {} /\ folded = {}
  /\ crashes = 0

\* A bootstrap execution is folded, and the fold recorded.
FoldBootstrap(run) ==
  /\ pc = "bootstrap"
  /\ gen' = FoldInitial(gen, run)
  /\ saved' = gen'
  /\ pc' = IF Len(gen.corpus) + 1 = Bootstrap THEN "plan" ELSE "bootstrap"
  /\ UNCHANGED <<mode, files, parents, results, folded, crashes>>

\* propose: one mutation, which may fail after its seed has paid; without a seed it fails.
Propose(ok) ==
  /\ pc = "plan" /\ mode = "sequential"
  /\ ok => Spent(gen).pending # None
  /\ gen' = [Spent(gen) EXCEPT !.failed = ~ok]
  /\ parents' = <<gen'.pending>>
  /\ results' = IF ok THEN {1} ELSE {}
  /\ pc' = "proposed"
  /\ UNCHANGED <<mode, saved, files, folded, crashes>>

\* reserve_mutations: a copy of the scheduler pays for the whole batch, and the transition
\* from one state to the other is published before it is applied.
Reserve ==
  LET after == Spendings(gen, EpochSize)
      seeds == [s \in Slots |-> after[s].pending]
  IN
  /\ pc = "plan" /\ mode = "batch" /\ reservation = None
  /\ IF None \in ToSet(seeds)
     THEN pc' = "proposed" /\ results' = {} /\ UNCHANGED <<gen, parents, reservation>>
     ELSE /\ reservation' = [pre |-> gen, post |-> after[EpochSize], parents |-> seeds]
          /\ gen' = after[EpochSize]
          /\ parents' = seeds
          /\ pc' = "reserved" /\ UNCHANGED results
  /\ UNCHANGED <<mode, saved, completion, folded, crashes>>

\* Faulty variant of Applied: the state is not compared.
AppliedNot(g, t) == g

\* apply_state_transition raises in a state of neither side; None stands for that.
Applied(g, t) ==
  IF g = t.post THEN g ELSE IF g = t.pre THEN t.post ELSE None

\* A later process finds the reservation. It uses it instead of making another, and the
\* completion if there is one; the engine turns an error into failed proposals.
Resume ==
  LET reserved == Applied(gen, reservation)
      completed == IF completion = None THEN reserved
                   ELSE IF gen = completion.post THEN gen
                   ELSE IF reserved = None THEN None ELSE Applied(reserved, completion)
  IN
  /\ pc = "plan" /\ reservation # None
  /\ parents' = reservation.parents
  /\ gen' = IF completed = None THEN gen ELSE completed
  /\ pc' = IF completed # None /\ completion = None THEN "reserved" ELSE "proposed"
  /\ results' = IF completed = None \/ completion = None THEN {} ELSE completion.results
  /\ UNCHANGED <<mode, saved, files, folded, crashes>>

\* complete_reserved_batch: all slots have been realized, ok with a test. Nothing but
\* the accounts and failure_state changes.
Complete(ok) ==
  /\ pc = "reserved"
  /\ gen' = [gen EXCEPT !.failed = (ok = {})]
  /\ completion' = [pre |-> gen, post |-> gen', results |-> ok]
  /\ results' = ok
  /\ pc' = "proposed"
  /\ UNCHANGED <<mode, saved, reservation, parents, folded, crashes>>

\* The proposals are on disk, with the generator's snapshot.
Checkpoint ==
  /\ pc = "proposed"
  /\ saved' = gen /\ pc' = "fold" /\ folded' = {}
  /\ UNCHANGED <<mode, gen, files, parents, results, crashes>>

\* A test of the batch was executed; its fold is recorded.
FoldRun(slot, run) ==
  /\ pc = "fold" /\ slot \in results \ folded
  /\ gen' = FoldMutant(gen, run) /\ saved' = gen'
  /\ folded' = folded \cup {slot}
  /\ UNCHANGED <<mode, files, pc, parents, results, crashes>>

\* The next attempt or epoch has its own directory.
NextEpoch ==
  /\ pc = "fold" /\ folded = results
  /\ pc' = "plan" /\ reservation' = None /\ completion' = None
  /\ parents' = <<>> /\ results' = {} /\ folded' = {}
  /\ UNCHANGED <<mode, gen, saved, crashes>>

\* The process dies while it plans; the next one restores the saved snapshot. (What a
\* death between folds does is the subject of ParallelCampaign.)
Crash ==
  /\ pc \in {"plan", "reserved", "proposed"} /\ crashes < MaxCrashes
  /\ crashes' = crashes + 1
  /\ gen' = saved /\ pc' = "plan" /\ parents' = <<>> /\ results' = {}
  /\ UNCHANGED <<mode, saved, files, folded>>

Step ==
  \/ (\E run \in Runs : FoldBootstrap(run))
  \/ (\E ok \in BOOLEAN : Propose(ok))
  \/ Reserve \/ Resume \/ (\E ok \in SUBSET Slots : Complete(ok))
  \/ Checkpoint \/ (\E slot \in Slots, run \in Runs : FoldRun(slot, run)) \/ NextEpoch

Next == Step \/ Crash

Spec == Init /\ [][Next]_vars

\* The campaign goes on. (Some step is always possible, so that this is its weak fairness.)
FairSpec == Spec /\ []<><<Step>>_vars

-----------------------------------------------------------------------------
(* Properties *)

\* The type invariant: a seed never owes energy, nor has more than it earned.
TypeOK ==
  /\ mode \in {"sequential", "batch"}
  /\ \A g \in {gen, saved} :
       /\ g \in Snapshot
       /\ g.queue \in Seq(Position(g)) /\ g.pending \in Position(g) \cup {None}
       /\ \A i \in Position(g) : g.corpus[i].energy <= g.corpus[i].base
  /\ reservation \in Reservation \cup {None} /\ completion \in Completion \cup {None}
  /\ pc \in {"bootstrap", "plan", "reserved", "proposed", "fold"}
  /\ ToSet(parents) \subseteq Position(gen)
  /\ folded \subseteq results /\ results \subseteq Slots
  /\ crashes \in 0 .. MaxCrashes

\* The seeds that can still be mutated are those in the queue and the one being spent,
\* each once: no choice, recycling or restoration loses or doubles a seed.
NoSeedLost ==
  /\ TypeOK
  /\ IsInjective(gen.queue) /\ gen.pending \notin ToSet(gen.queue)
  /\ \A i \in Position(gen) :
       gen.corpus[i].energy > 0 => i \in ToSet(gen.queue) \cup {gen.pending}
  /\ \A i \in ToSet(gen.queue) : gen.corpus[i].energy > 0

\* Each sequence ever observed has exactly one seed that may be mutated, and what these
\* seeds show is all that was observed. The first execution is such a seed, so that after
\* the bootstrap there is always one to mutate. No novelty is rewarded twice: the energy
\* handed out is bounded by what was observed.
CorpusCoversNovelty ==
  LET Sequence(i) == gen.corpus[i].seq
      rewards == {u \in Position(gen) \X (1 .. 3) : u[2] <= gen.corpus[u[1]].base}
  IN  /\ {Sequence(i) : i \in Earning(gen)} = gen.seqs
      /\ \A i, j \in Earning(gen) : Sequence(i) = Sequence(j) => i = j
      /\ gen.tools = UNION {ToSet(Sequence(i)) : i \in Earning(gen)}
      /\ gen.trans = UNION {Transitions(Sequence(i)) : i \in Earning(gen)}
      /\ pc # "bootstrap" => Earning(gen) # {}
      /\ Cardinality(rewards)
           <= Cardinality(gen.tools) + Cardinality(gen.trans) + Cardinality(gen.seqs)

\* What a batch hands on to the campaign comes from the state saved before it by its two
\* transitions, once each, wherever processes died in between.
BatchAppliedOnce ==
  mode = "batch" /\ pc = "proposed" =>
    /\ reservation # None /\ completion # None
    /\ reservation.pre = saved /\ reservation.post = Spendings(saved, EpochSize)[EpochSize]
    /\ completion.pre = reservation.post /\ gen = completion.post
    /\ results = completion.results

\* Every seed that earned energy is mutated again and again, however many newer and
\* richer seeds compete with it.
EverySeedMutated ==
  \A i \in 1 .. Bootstrap + Cardinality(Runs) :
    (i \in Position(gen) /\ gen.corpus[i].base > 0) ~> (i \in ToSet(parents))
=============================================================================

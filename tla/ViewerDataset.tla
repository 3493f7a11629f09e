---------------------------- MODULE ViewerDataset ----------------------------
(***************************************************************************)
(* Publication of a run into the shared FiftyOne dataset of one ground     *)
(* truth (adapters/fiftyone/publisher.py, evaluation.py publish_evaluation, *)
(* storage/publication_data.py).  Every publication is a process of its    *)
(* own that may be killed between any two writes; a file lock of the       *)
(* dataset is freed by the death of its holder.                            *)
(*                                                                         *)
(* The dataset's description (info) is read once, copied, changed and      *)
(* saved whole.  What a publication writes is marked with its name, so     *)
(* "by" tells whose overlays and evaluations are there.                    *)
(***************************************************************************)
EXTENDS Naturals, FiniteSets

CONSTANTS Publications,
          Request,     \* by publication: [run, rows, predictions, evaluations]
          Runs,        \* run keys, digests of the task ids
          MaxKills, None

VARIABLES pc, info,               \* of each publication
          exists, saved,          \* the dataset and its saved description
          samples, overlays, evals,
          lock, kills

own == <<pc, info>>
stored == <<exists, saved, samples, overlays, evals>>
vars == <<own, stored, lock, kills>>

Unstarted == [by |-> None, complete |-> FALSE, keys |-> {}]
Blank == [identity |-> {}, complete |-> FALSE, runs |-> [r \in Runs |-> Unstarted]]
Names == UNION {{row.name : row \in Request[p].rows} : p \in Publications}
Run(p) == Request[p].run

Init ==
  /\ pc = [p \in Publications |-> "request"] /\ info = [p \in Publications |-> Blank]
  /\ exists = FALSE /\ saved = Blank /\ samples = {}
  /\ overlays = [r \in Runs |-> [n \in Names |-> None]]
  /\ evals = {} /\ lock = None /\ kills = 0

Move(p, from, to) == pc[p] = from /\ pc' = [pc EXCEPT ![p] = to]
Save(p, description) == saved' = description /\ info' = [info EXCEPT ![p] = description]

\* read_snapshot: one path and one split for a name, one name for a path.
Snapshot(rows) ==
  \A r, s \in rows : (r.name = s.name <=> r.path = s.path) /\ (r.name = s.name => r.split = s.split)
Images(p) == {row.name : row \in Request[p].rows}
\* read_predictions: every prediction belongs to an image of the snapshot.
Aliased(p) == Request[p].predictions \subseteq Images(p)
\* _load_evaluations: images of the split they claim, each in one payload.
SplitImages(p, s) == {row.name : row \in {r \in Request[p].rows : r.split = s}}
Evaluations(p) == Request[p].evaluations
Loaded(p) == \A e \in Evaluations(p) : e.images \subseteq SplitImages(p, e.split)
Usable(p) == Snapshot(Request[p].rows) /\ Aliased(p) /\ Loaded(p)
Identity(p) == Request[p].rows

Read(p) ==
  /\ \/ Usable(p) /\ Move(p, "request", "lock")
     \/ ~Usable(p) /\ Move(p, "request", "failed")
  /\ UNCHANGED <<info, stored, lock, kills>>

Free == lock = None
Acquire(p) ==
  /\ Move(p, "lock", "open") /\ Free /\ lock' = p
  /\ UNCHANGED <<info, stored, kills>>
LockTimeout(p) ==
  /\ ~Free /\ Move(p, "lock", "failed")
  /\ UNCHANGED <<info, stored, lock, kills>>

\* _dataset: a new persistent dataset is described by a second write.
Create(p) ==
  /\ ~exists /\ Move(p, "open", "describe") /\ exists' = TRUE
  /\ UNCHANGED <<info, saved, samples, overlays, evals, lock, kills>>
Describe(p) ==
  /\ Move(p, "describe", "samples")
  /\ Save(p, [Blank EXCEPT !.identity = Identity(p)])
  /\ UNCHANGED <<exists, samples, overlays, evals, lock, kills>>

Compatible(p) ==
  /\ saved.identity = Identity(p)
  /\ samples \subseteq Images(p)
  /\ saved.complete => samples = Images(p)
Load(p) ==
  /\ exists /\ Compatible(p)
  /\ Move(p, "open", IF saved.complete THEN "start" ELSE "samples")
  /\ info' = [info EXCEPT ![p] = saved]
  /\ UNCHANGED <<stored, lock, kills>>
Incompatible(p) ==
  /\ exists /\ ~Compatible(p)
  /\ Move(p, "open", "failed") /\ lock' = None
  /\ UNCHANGED <<info, stored, kills>>

AddSample(p) ==
  /\ pc[p] = "samples"
  /\ \E n \in Images(p) \ samples : samples' = samples \union {n}
  /\ UNCHANGED <<own, exists, saved, overlays, evals, lock, kills>>
CompleteDataset(p) ==
  /\ Move(p, "samples", "start") /\ Images(p) \subseteq samples
  /\ Save(p, [info[p] EXCEPT !.complete = TRUE])
  /\ UNCHANGED <<exists, samples, overlays, evals, lock, kills>>

\* publish: the run is declared incomplete before anything of it changes.
BegunAsBefore(p) == [info[p].runs[Run(p)] EXCEPT !.by = p]
Begun(p) == [by |-> p, complete |-> FALSE, keys |-> {}]
StartRun(p) ==
  /\ Move(p, "start", "clean")
  /\ Save(p, [info[p] EXCEPT !.runs[Run(p)] = Begun(p)])
  /\ UNCHANGED <<exists, samples, overlays, evals, lock, kills>>

\* _remove_evaluations: only this run's, one after the other.
Mine(p) == {e \in evals : e.run = Run(p)}
RemoveEvaluation(p) ==
  /\ pc[p] = "clean"
  /\ \E e \in Mine(p) : evals' = evals \ {e}
  /\ UNCHANGED <<own, exists, saved, samples, overlays, lock, kills>>
Cleaned(p) ==
  /\ Mine(p) = {} /\ Move(p, "clean", "overlay")
  /\ UNCHANGED <<info, stored, lock, kills>>

\* _write_run: every sample of the dataset gets the fields of this run.
WriteOverlay(p) ==
  /\ pc[p] = "overlay"
  /\ \E n \in {m \in samples : overlays[Run(p)][m] # p} : overlays' = [overlays EXCEPT ![Run(p)][n] = p]
  /\ UNCHANGED <<own, exists, saved, samples, evals, lock, kills>>
Overlaid(p) ==
  /\ \A n \in samples : overlays[Run(p)][n] = p
  /\ Move(p, "overlay", "evaluate")
  /\ UNCHANGED <<info, stored, lock, kills>>

\* publish_evaluation: a key is registered once, its samples and results after.
Key(p, e) == [run |-> Run(p), split |-> e.split, by |-> p]
Register(p) ==
  /\ pc[p] = "evaluate"
  /\ \E e \in Evaluations(p) :
       /\ ~\E k \in evals : k.run = Run(p) /\ k.split = e.split
       /\ evals' = evals \union {Key(p, e)}
  /\ UNCHANGED <<own, exists, saved, samples, overlays, lock, kills>>

FinishRun(p) ==
  /\ Move(p, "evaluate", "release")
  /\ \A e \in Evaluations(p) : Key(p, e) \in evals
  /\ Save(p, [info[p] EXCEPT !.runs[Run(p)].complete = TRUE,
                             !.runs[Run(p)].keys = {Key(p, e) : e \in Evaluations(p)}])
  /\ UNCHANGED <<exists, samples, overlays, evals, lock, kills>>
Release(p) ==
  /\ Move(p, "release", "published")
  /\ lock' = IF lock = p THEN None ELSE lock
  /\ UNCHANGED <<info, stored, kills>>

Over == {"failed", "killed", "published"}
Kill(p) ==
  /\ pc[p] \notin Over \union {"request"} /\ kills < MaxKills /\ kills' = kills + 1
  /\ pc' = [pc EXCEPT ![p] = "killed"]
  /\ lock' = IF lock = p THEN None ELSE lock
  /\ UNCHANGED <<info, stored>>

Done == (\A p \in Publications : pc[p] \in Over) /\ UNCHANGED vars

Step(p) ==
  \/ Read(p) \/ Acquire(p) \/ LockTimeout(p)
  \/ Create(p) \/ Describe(p) \/ Load(p) \/ Incompatible(p) \/ AddSample(p) \/ CompleteDataset(p)
  \/ StartRun(p) \/ RemoveEvaluation(p) \/ Cleaned(p) \/ WriteOverlay(p) \/ Overlaid(p)
  \/ Register(p) \/ FinishRun(p) \/ Release(p) \/ Kill(p)
Next == Done \/ \E p \in Publications : Step(p)
Spec == Init /\ [][Next]_vars

---------------------------------------------------------------------------
\* A run that the dataset calls complete shows one publication and all of it:
\* every image is there with that publication's overlay, and the evaluations
\* of the run are exactly its own, through kills, repeats and other runs.  A
\* publication that returned its receipt is never forgotten: the run is there,
\* and still complete unless a later publication took it over.
Whole(r) ==
  LET by == saved.runs[r].by IN
  /\ by # None /\ samples = Images(by)
  /\ \A n \in samples : overlays[r][n] = by
  /\ {e \in evals : e.run = r} = {Key(by, e) : e \in Evaluations(by)}
RunWhole ==
  /\ \A r \in Runs : saved.runs[r].complete => Whole(r)
  /\ \A p \in Publications : pc[p] = "published" =>
       LET run == saved.runs[Run(p)] IN run.by # None /\ (run.by = p => run.complete)
=============================================================================

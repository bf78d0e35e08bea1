------------------------------ MODULE Planning ------------------------------
(***************************************************************************)
(* From a configuration to independent runs: the grid planner and the      *)
(* checks of plan_runs (study/planning.py), the identity of a run          *)
(* (study/specs.py), the random streams of its components (study/rng.py)   *)
(* and the variant that retains it (prepare_request in                     *)
(* execution/provenance.py; code and environment do not change here).      *)
(* Hashes are taken as injective: an identity is the record it hashes.     *)
(*                                                                         *)
(* A configuration is a record [seed, groups, every, metrics, by,          *)
(* points]; a group a record [name, algorithms, data, protocol, grid,      *)
(* repetitions, budget]; a component a record [type, params, seed], an     *)
(* algorithm also has a name; a grid maps axes <<component, parameter>> to *)
(* sets of values.                                                         *)
(***************************************************************************)
EXTENDS Integers, Functions, TLC

CONSTANTS
  Continuing,   \* the component types that declare supports_extension
  None

Parts == {"algorithm", "data", "protocol"}
Steps == {"online", "rl"}   \* the protocols that run for a budget of steps

-----------------------------------------------------------------------------
(* One run *)

Descriptor(component) == [type |-> component.type, params |-> component.params, seed |-> component.seed]
Horizon(protocol) ==
  IF protocol.type \in Steps /\ "horizon" \in DOMAIN protocol.params
  THEN protocol.params["horizon"] ELSE None

\* A run, or None if it is refused: the older parameter `horizon` is a budget, and
\* the budget is not part of the science.
MakeRunSpec(e, part, settings) ==
  LET protocol == part["protocol"]
      budget == e.group.budget
      given == Horizon(protocol)
      conflict == given # None /\ budget # None /\ budget # given
      lacking == protocol.type \in Steps /\ given = None /\ budget = None
  IN IF conflict \/ lacking THEN None
     ELSE [group |-> e.group.name, repetition |-> e.repetition, name |-> e.algorithm.name,
           algorithm |-> part["algorithm"], data |-> part["data"],
           protocol |-> [protocol EXCEPT !.params = Restrict(@, DOMAIN @ \ {"horizon"})],
           seed |-> settings.seed, budget |-> IF given = None THEN budget ELSE given]

RunId(spec) == [spec EXCEPT !.budget = None]
ScientificIdentity(spec) == [spec EXCEPT !.repetition = None]
\* A label is a pair: <<"run", "group">>, or <<"data", parameter>>
Label(spec, l) == IF l[1] = "run" THEN spec[l[2]] ELSE spec[l[1]].params[l[2]]

-----------------------------------------------------------------------------
(* The runs of a configuration *)

Points(grid) ==
  {f \in [DOMAIN grid -> UNION {grid[a] : a \in DOMAIN grid}] : \A a \in DOMAIN grid : f[a] \in grid[a]}
Entries(settings) ==
  UNION {[group : {g}, point : Points(g.grid), algorithm : g.algorithms, repetition : 0..(g.repetitions - 1)] :
           g \in settings.groups}

SetPath(component, part, point) ==
  LET axes == {a \in DOMAIN point : a[1] = part}
  IN [component EXCEPT !.params = [p \in {a[2] : a \in axes} |-> point[<<part, p>>]] @@ @]
Planned(settings, e) ==
  MakeRunSpec(e,
    [part \in Parts |->
       SetPath(Descriptor(IF part = "algorithm" THEN e.algorithm ELSE e.group[part]), part, e.point)],
    settings)
Plan(settings) == {Planned(settings, e) : e \in Entries(settings)}

\* A configuration is refused if a run of it is, or if two of them are the same run.
Accepted(settings) ==
  /\ None \notin Plan(settings)
  /\ \A d, e \in Entries(settings) : RunId(Planned(settings, d)) = RunId(Planned(settings, e)) => d = e

Extendable(spec) == spec.budget # None /\ \A part \in Parts : spec[part].type \in Continuing
\* What is retained of all budgets of a run that can be extended, or of one budget.
StorageId(settings, spec) ==
  [science |-> RunId(spec), every |-> settings.every, budget |-> IF Extendable(spec) THEN None ELSE spec.budget]

-----------------------------------------------------------------------------
(* Random streams *)

\* The data and the instance know nothing of the algorithm.
OwnData(spec, stream) == \* mutant: every algorithm has its own data
  [root |-> IF spec["data"].seed = None THEN spec.seed ELSE spec["data"].seed,
   stream |-> stream, group |-> spec.group, repetition |-> spec.repetition,
   components |-> [part \in Parts |-> <<spec[part].type, spec[part].params>>]]
Stream(spec, stream) ==
  LET part == IF stream = "instance" THEN "data" ELSE stream
      parts == IF stream \in {"data", "instance"} THEN {"data"} ELSE Parts
  IN [root |-> IF spec[part].seed = None THEN spec.seed ELSE spec[part].seed,
      stream |-> stream, group |-> spec.group, repetition |-> spec.repetition,
      components |-> [p \in parts |-> <<spec[p].type, spec[p].params>>]]
=============================================================================

---------------------------- MODULE Interaction ----------------------------
(***************************************************************************)
(* What one step of a run does to its components: the protocols of         *)
(* builtins/protocols.py with the bandits, the Gymnasium adapter and the   *)
(* distribution of builtins/.  A draw is a function of a stream and of a   *)
(* position in it.                                                         *)
(*                                                                         *)
(* External: the algorithm, which draws once when it is constructed and    *)
(* once when it acts and learns from every reward, and the environment     *)
(* behind the adapter, which has random numbers of its own.                *)
(*                                                                         *)
(* A run is a record [instance, algorithm, data, protocol, rngs, row]: the *)
(* immutable instance, the state of the three components, the positions of *)
(* their generators and the observations of the last step.                 *)
(***************************************************************************)
EXTENDS Planning, Sequences, FiniteSets

\* External: the number a stream yields at a position; any function of both would do.
Weight(stream) ==
  LET parts == DOMAIN stream.components
      kind == [algorithm |-> 0, data |-> 1, protocol |-> 2, instance |-> 3, environment |-> 4]
  IN 5 * stream.root + 7 * stream.repetition + 3 * kind[stream.stream] + Cardinality(parts)
       + Cardinality(UNION {DOMAIN stream.components[p][2] : p \in parts})
Draw(stream, at) ==
  LET w == Weight(stream)
  IN Cardinality({d \in 1..2 : d <= (w + at * ((w % 4) + 1) + (at * at) \div 2) % 3})

Generator(stream) == [stream |-> stream, at |-> 0]
Next1(rng) == Draw(rng.stream, rng.at)
Bandits == {"stationary_bandit", "nonstationary_bandit"}

\* Whether the rewards of a bandit are a mean and a noise, or 0 and 1
Distribution(data) ==
  IF "distribution" \in DOMAIN data.params THEN data.params["distribution"]
  ELSE IF data.type = "stationary_bandit" THEN "bernoulli" ELSE "gaussian"

\* Means are given, or drawn by the instance's stream; a schedule has one row of
\* means for every step.  The mean of a 0 or 1 is counted in thirds, one for each draw.
CreateInstance(spec) ==
  LET params == spec["data"].params
      rng == Generator(Stream(spec, "instance"))
  IN CASE spec["data"].type = "stationary_bandit" ->
            [kind |-> "stationary", distribution |-> Distribution(spec["data"]),
             means |-> IF "means" \in DOMAIN params THEN params["means"]
                       ELSE [arm \in 1..params["n_arms"] |-> Draw(rng.stream, arm - 1)]]
       [] spec["data"].type = "nonstationary_bandit" ->
            [kind |-> "nonstationary", distribution |-> Distribution(spec["data"]),
             means |-> params["schedule"]]
       [] spec["data"].type = "gymnasium" -> [kind |-> "environment", initial_seed |-> Next1(rng)]
       [] OTHER -> [kind |-> "distribution"]

Construct(spec, instance) ==
  LET rngs == [part \in Parts |-> Generator(Stream(spec, part))]
  IN [instance  |-> instance,
      algorithm |-> Next1(rngs["algorithm"]),
      data      |-> CASE spec["data"].type \in Bandits -> [step |-> 0]
                      [] spec["data"].type = "gymnasium" ->
                           [environment |-> None, initialized |-> FALSE, needs_reset |-> TRUE]
                      [] OTHER -> <<>>,
      protocol  |-> IF spec["protocol"].type = "rl"
                    THEN [step |-> 0, observation |-> None, episode |-> 0, needs_reset |-> TRUE]
                    ELSE [step |-> 0],
      rngs      |-> [rngs EXCEPT !["algorithm"].at = 1],
      row       |-> None]

\* The saved seed is applied on the first reset only.
Reset(run) ==
  LET rng == IF run.data.initialized THEN run.data.environment.rng
             ELSE Generator([root |-> run.instance.initial_seed, stream |-> "environment", group |-> None,
                             repetition |-> 0, components |-> <<>>])
  IN [run EXCEPT
       !.data = [environment |-> [x |-> Next1(rng) % 2, rng |-> [rng EXCEPT !.at = @ + 1]],
                 initialized |-> TRUE, needs_reset |-> FALSE],
       !.protocol.observation = Next1(rng) % 2,
       !.protocol.needs_reset = FALSE]
Initialize(spec, run) == IF spec["protocol"].type = "rl" THEN Reset(run) ELSE run

-----------------------------------------------------------------------------
(* One step *)

Finished(spec, run) == run.protocol.step >= IF spec["protocol"].type \in Steps THEN spec.budget ELSE 1

CurrentMeans(spec, run) ==
  IF spec["data"].type = "nonstationary_bandit"
  THEN run.instance.means[run.data.step + 1] ELSE run.instance.means
Exhausted(spec, run) ==
  spec["data"].type = "nonstationary_bandit" /\ run.data.step >= Len(run.instance.means)

\* A reward takes a number from the data's stream, except that numpy knows without one
\* that a 0 or 1 of mean 0 is 0 (binomial(1, 0.0)).
Takes(instance, mean) == instance.distribution = "gaussian" \/ mean # 0
Reward(instance, mean, draw) ==
  IF instance.distribution = "gaussian" THEN mean + draw ELSE IF draw < mean THEN 1 ELSE 0

Online(spec, run) ==
  LET means == CurrentMeans(spec, run)
      action == (run.algorithm + Next1(run.rngs["algorithm"])) % Len(means)
      mean == means[action + 1]
      reward == Reward(run.instance, mean, Next1(run.rngs["data"]))
  IN [run EXCEPT
       !.algorithm = (@ + reward) % 3,
       !.data.step = @ + 1,
       !.protocol.step = @ + 1,
       !.rngs["algorithm"].at = @ + 1,
       !.rngs["data"].at = IF Takes(run.instance, mean) THEN @ + 1 ELSE @,
       !.row = [step |-> run.protocol.step + 1, action |-> action, reward |-> reward]]

\* A terminal transition is complete before the next step resets the environment.
RL(pending) ==
  LET run == IF pending.protocol.needs_reset
             THEN [Reset(pending) EXCEPT !.protocol.episode = @ + 1] ELSE pending
      environment == run.data.environment
      action == (run.algorithm + Next1(run.rngs["algorithm"]) + run.protocol.observation) % 2
      x == environment.x + IF action = Next1(environment.rng) % 2 THEN 1 ELSE 0
      over == x >= 2
  IN [run EXCEPT
       !.algorithm = (@ + action + x) % 3,
       !.data = [environment |-> [x |-> x, rng |-> [environment.rng EXCEPT !.at = @ + 1]],
                 initialized |-> TRUE, needs_reset |-> over],
       !.protocol = [step |-> @.step + 1, observation |-> x, episode |-> @.episode, needs_reset |-> over],
       !.rngs["algorithm"].at = @ + 1,
       !.row = [step |-> run.protocol.step + 1, action |-> action, reward |-> action + x,
                episode |-> run.protocol.episode]]

Offline(run) ==
  [run EXCEPT
    !.protocol.step = @ + 1,
    !.rngs["data"].at = @ + 1,
    !.row = [step |-> 1, output |-> run.algorithm + Next1(run.rngs["data"])]]

Step(spec, run) ==
  CASE spec["protocol"].type = "online" -> Online(spec, run)
    [] spec["protocol"].type = "rl"     -> RL(run)
    [] OTHER                            -> Offline(run)

-----------------------------------------------------------------------------
(* The run nobody interrupts *)

Uninterrupted(spec) ==
  LET run[i \in Nat] ==
        IF i = 0 THEN Initialize(spec, Construct(spec, CreateInstance(spec)))
        ELSE LET before == run[i - 1] IN Step(spec, before)
  IN run
=============================================================================

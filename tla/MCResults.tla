----------------------------- MODULE MCResults -----------------------------
(* Studies of Results for TLC.                                                *)
EXTENDS Results

Component(type, params) == [type |-> type, params |-> params, seed |-> None]
Learner(name) == [name |-> name, type |-> "learner", params |-> <<>>, seed |-> None]
Field(field) == [name |-> field, type |-> "field", field |-> field]
Total(field) == [name |-> "total", type |-> "cumulative_sum", field |-> field]
Regret(comparator) == [name |-> comparator, type |-> "pseudo_regret", comparator |-> comparator]
Group(data, protocol, algorithms, repetitions, budget, grid) ==
  [name |-> "g", data |-> data, protocol |-> protocol, algorithms |-> algorithms,
   repetitions |-> repetitions, budget |-> budget, grid |-> grid]
Config(group, every, metrics, by, points) ==
  [seed |-> 1, groups |-> {group}, every |-> every, metrics |-> metrics, by |-> by, points |-> points]
Usual == {<<"run", "group">>, <<"run", "name">>}

\* Instances drawn for each repetition: algorithms compared on them, repetitions extended
Arms(algorithms, repetitions, budget) ==
  Config(Group(Component("stationary_bandit", "n_arms" :> 2), Component("online", <<>>),
               algorithms, repetitions, budget, <<>>),
         1, {Regret("dynamic")}, Usual, None)
Rival == [Learner("b") EXCEPT !.params = "rate" :> 1]
\* Algorithms compared on given arms: one of mean 0 draws only if it has a noise.
Compared(distribution, means, budget) ==
  Config(Group(Component("stationary_bandit", "means" :> means @@ "distribution" :> distribution),
               Component("online", <<>>), {Learner("a"), Rival}, 1, budget, <<>>),
         1, {Regret("dynamic")}, Usual, None)
\* Budgets within, at the end of and beyond a schedule
Schedule(budget) ==
  Config(Group(Component("nonstationary_bandit", "schedule" :> <<<<0, 2>>, <<3, 0>>, <<3, 1>>>>),
               Component("online", <<>>), {Learner("a")}, 1, budget, <<>>),
         1, {Regret("best_fixed"), Regret("dynamic")}, Usual, 2)
\* Episodes, extended and shortened, with and without the first steps of a checkpoint
Episodes(budget, every) ==
  Config(Group(Component("gymnasium", <<>>), Component("rl", <<>>), {Learner("a")}, 1, budget, <<>>),
         every, {Field("episode"), Total("reward"), Regret("dynamic")}, Usual, 3)
\* A learner that cannot continue: every budget is a run of its own.
Fixed(budget, every) ==
  Config(Group(Component("stationary_bandit", "means" :> <<0, 2>>), Component("online", <<>>),
               {[Learner("a") EXCEPT !.type = "estimator"]}, 1, budget, <<>>),
         every, {Field("reward"), Total("reward")}, Usual, 4)
\* Two distributions, told apart by the labels or not
Fits(by) ==
  Config(Group(Component("normal", "loc" :> 0), Component("offline", <<>>), {Learner("a")}, 2, None,
               <<"data", "loc">> :> {0, 1}), 5, {Field("output")}, by, 5)
Fit == Config(Group(Component("normal", "loc" :> 0), Component("offline", <<>>), {Learner("a")}, 3, None, <<>>),
              5, {Field("output"), Field("reward")}, Usual, None)
\* The older parameter: a grid of it is twice the same run, and it may contradict the budget.
Older(horizons, budget) ==
  Config(Group(Component("stationary_bandit", "means" :> <<0, 2>>), Component("online", <<>>), {Learner("a")},
               1, budget, <<"protocol", "horizon">> :> horizons), 2, {Field("reward")}, Usual, 7)

SomeStudies ==
  {{Arms({Learner("a"), Rival}, 1, 3)},
   {Arms({Learner("a")}, 3, 1), Arms({Learner("a")}, 3, 2)},
   {Compared("gaussian", <<0, 2>>, 3)}, {Compared("bernoulli", <<0, 1>>, 5)},
   {Schedule(2), Schedule(3), Schedule(4)},
   {Episodes(3, 1), Episodes(5, 1), Episodes(5, 2), Episodes(3, 2)},
   {Fixed(2, 1), Fixed(3, 1), Fixed(3, 2)},
   {Fits(Usual), Fits(Usual \union {<<"data", "loc">>})}, {Fit},
   {Older({2, 3}, None), Older({3}, None), Older({3}, 2), Older({2}, None)}}
=============================================================================

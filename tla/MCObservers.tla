---------------------------- MODULE MCObservers ----------------------------
(* Instances of Observers for TLC: the notifier with two runs, the display    *)
(* with a run and a derived task, and both with one run on a pool.            *)
EXTENDS Observers
SomeSettings ==
  [quiet : {TRUE}, notify : {TRUE}, pool : BOOLEAN, plan : {{"r1", "r2"}}]
    \union [quiet : {FALSE}, notify : {FALSE}, pool : {FALSE}, plan : {{"r1", "d"}}]
    \union [quiet : {FALSE}, notify : {TRUE}, pool : {TRUE}, plan : {{"r1"}}]
=============================================================================

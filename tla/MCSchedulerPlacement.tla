----------------------- MODULE MCSchedulerPlacement -----------------------
(* Two tuners and three programs, two of them shown twice.  The inputs 1 and 3 are
   on the first tuner, for different channels; the second can record several
   programs of one multiplex (SchedGroup). *)
EXTENDS SchedulerPlacement, TLC

Guide == 1 .. 5
ProgramOf == <<1, 1, 2, 2, 3>>
ChannelOf == <<1, 2, 1, 3, 2>>
MultiplexOf == <<7, 7, 0>>
Sources == (1 :> {1, 2}) @@ (2 :> {1, 2, 3}) @@ (3 :> {3})
Tuners == (1 :> 1) @@ (2 :> 2) @@ (3 :> 1)
Types == <<"All", "All", "All", "Single">>
Matched == <<{1, 2}, {3, 4}, {5}, {3}>>
Lengths == <<2, 1, 1, 2, 2>>
Ranks == {<<1, 1, 1, 1>>, <<2, 1, 1, 1>>, <<1, 2, 1, 1>>}
\* All the same; one input preferred; one showing better than the others.
EntryRanks ==
  {[e \in Guide \X {1, 2, 3} |-> 0], [e \in Guide \X {1, 2, 3} |-> IF e[2] = 2 THEN 1 ELSE 0],
   [e \in Guide \X {1, 2, 3} |-> IF e[1] = 3 THEN 1 ELSE 0]}
InForce == {{1, 2, 3}, {1, 2, 3, 4}}
Times == {t \in [Guide -> 1 .. 3] : t[1] < t[2] /\ t[3] < t[4] /\ t[5] < 3}
Viewed == {<<2, 1>>, <<3, 2>>}
=============================================================================

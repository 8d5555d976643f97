------------------------------ MODULE TimerPool ------------------------------
(***************************************************************************)
(* The timers of a thread (timer.c).  A pool is a record: its slots, each  *)
(* with a timer and its period, the time left to its trigger time and the  *)
(* 'dead' bit, and the slot each timer believes to be in, 0 when it is not *)
(* started.  Times are relative, so that no clock has to be kept.          *)
(***************************************************************************)
EXTENDS Naturals, SequencesExt

EmptyPool(timers) == [slots |-> <<>>, poolIndex |-> [t \in timers |-> 0]]

\* Mutation: timer_new without start.
Created(p, t, period) == p

\* timer_new with start, through timer_pool_start_timer
Started(p, t, period) ==
  [slots |-> Append(p.slots, [timer |-> t, period |-> period, left |-> period, dead |-> FALSE]),
   poolIndex |-> [p.poolIndex EXCEPT ![t] = Len(p.slots) + 1]]

\* timer_stop: the slot is only marked.
Stopped(p, t) ==
  IF p.poolIndex[t] = 0 THEN p
  ELSE [slots |-> [p.slots EXCEPT ![p.poolIndex[t]].dead = TRUE],
        poolIndex |-> [p.poolIndex EXCEPT ![t] = 0]]

\* timer_pool_swap_and_pop.  A last slot that is dead too belongs to a timer that
\* timer_destroy has freed: the code writes its index into that block all the same.
SwapAndPop(p, i) ==
  LET back == Last(p.slots) IN
  [slots |-> Front([p.slots EXCEPT ![i] = back]),
   poolIndex |-> IF i = Len(p.slots) THEN p.poolIndex
                 ELSE [p.poolIndex EXCEPT ![back.timer] = i]]

\* One iteration of the first loop of timer_pool_execute_callbacks: a dead slot is
\* removed and what is swapped in is looked at next.
ScanSlot(s) ==
  IF s.pool.slots[s.i].dead
  THEN [s EXCEPT !.pool = SwapAndPop(s.pool, s.i)]
  ELSE [s EXCEPT !.i = @ + 1,
                 !.triggered = IF s.pool.slots[s.i].left = 0 THEN Append(@, s.i) ELSE @]

Scanned(p) ==
  LET after[k \in 0 .. Len(p.slots)] ==
        IF k = 0 THEN [pool |-> p, i |-> 1, triggered |-> <<>>] ELSE ScanSlot(after[k - 1])
  IN after[Len(p.slots)]

\* The second loop, up to the callback: the k-th of the triggered timers runs, and
\* slot k, whichever timer is there, is put off by that timer's period.
Rearmed(p, triggered, k) ==
  [p EXCEPT !.slots[k].left = @ + p.slots[triggered[k]].period]

\* The timers that are started.
Running(p) == {p.slots[i].timer : i \in {j \in DOMAIN p.slots : ~p.slots[j].dead}}

\* There is something to do in the next pass.
Pending(p) == \E i \in DOMAIN p.slots : p.slots[i].dead \/ p.slots[i].left = 0

\* A unit of time goes by.
Aged(p) == [p EXCEPT !.slots = [i \in DOMAIN @ |-> [@[i] EXCEPT !.left = @ - 1]]]
=============================================================================

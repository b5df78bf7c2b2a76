------------------------------- MODULE Timers -------------------------------
(***************************************************************************)
(* The list of virtual timers (chibios/os/kernel/src/chvt.c): each timer   *)
(* holds the ticks between its predecessor's deadline and its own.  The    *)
(* list is a sequence of records; the header, whose vt_time is larger than *)
(* any time, ends every search.                                            *)
(***************************************************************************)
EXTENDS Integers, SequencesExt

(* Ticks from now to the deadline of the i-th timer.                       *)
Remaining(list, i) ==
  LET sum[k \in 0 .. Len(list)] == IF k = 0 THEN 0 ELSE sum[k - 1] + list[k].time
  IN  sum[i]

IsArmed(list, who) == \E i \in DOMAIN list : list[i].of = who

IndexOf(list, who) == CHOOSE i \in DOMAIN list : list[i].of = who

(* chVTSetI: in front of the first timer that is not due before it, which  *)
(* gives up what the new one takes.                                        *)
TimerSet(list, who, time) ==
  LET later == {i \in DOMAIN list : Remaining(list, i) >= time}
      at    == IF later = {} THEN Len(list) + 1 ELSE Min(later)
      delta == time - Remaining(list, at - 1)
      rest  == IF later = {} THEN list ELSE [list EXCEPT ![at].time = @ - delta]
  IN  InsertAt(rest, at, [of |-> who, time |-> delta])

(* chVTResetI: the successor takes the ticks over.                         *)
TimerReset(list, who) ==
  LET at == IndexOf(list, who)
  IN  RemoveAt(IF at = Len(list) THEN list
               ELSE [list EXCEPT ![at + 1].time = @ + list[at].time], at)

(* A timer has run out and chVTDoTickI has not taken it off yet.           *)
RunsOut(list) == list # <<>> /\ Head(list).time = 0

(* The start of chVTDoTickI.                                               *)
Ticked(list) == IF list = <<>> THEN list ELSE [list EXCEPT ![1].time = @ - 1]
=============================================================================

--------------------------- MODULE EventLogAbstract ---------------------------
(***************************************************************************)
(* What the event log promises its callers and subscribers (spec.md, P5    *)
(* and P7): every importance level has its own log of events.  An event   *)
(* a caller logs successfully is appended under the next id of its level  *)
(* with the timestamp it was logged with.  Storage pressure may discard   *)
(* the oldest events of any level.  A platform that supplies events of   *)
(* its own reserves a block of the next ids of a level; those ids are     *)
(* never given to a stored event.  Nothing else ever changes a log: ids   *)
(* within a level increase, and a reader sees every kept event under the  *)
(* id its caller was given.                                               *)
(***************************************************************************)
EXTENDS Naturals, Sequences, FiniteSetsExt

CONSTANTS Importance,   \* the importance levels
          Tags,         \* the identity of each LogEvent call
          Times,        \* timestamps a call may log with
          CounterStart, \* [Importance -> Nat], first id of each level
          ExtCounts     \* sizes of the id blocks a platform may reserve

VARIABLES kept,   \* kept[i]: the stored events of level i, oldest first
          next    \* next[i]: the id the next event of level i receives

vars == <<kept, next>>

Entry == [id : Nat, tag : Tags, ts : Times]

TypeOK ==
    /\ kept \in [Importance -> Seq(Entry)]
    /\ next \in [Importance -> Nat]

Init ==
    /\ kept = [i \in Importance |-> <<>>]
    /\ next = CounterStart

\* A successful LogEvent of level i.
Log(i, tag, ts) ==
    /\ next' = [next EXCEPT ![i] = @ + 1]
    /\ kept' = [kept EXCEPT ![i] = Append(@, [id |-> next[i], tag |-> tag, ts |-> ts])]

\* A platform reserves the n next ids of level i for its own events.
Reserve(i, n) ==
    /\ next' = [next EXCEPT ![i] = @ + n]
    /\ UNCHANGED kept

\* How many of its oldest events each level may lose in one step.
Drops(k) == {d \in [Importance -> 0..Max({Len(k[i]) : i \in Importance})] :
                \A i \in Importance : d[i] <= Len(k[i])}

\* Eviction: the d[i] oldest events of every level i are discarded.
Discard ==
    /\ UNCHANGED next
    /\ LET k == kept
       IN  kept' \in {[i \in Importance |-> SubSeq(k[i], d[i] + 1, Len(k[i]))] : d \in Drops(k)}

Next ==
    \/ \E i \in Importance, tag \in Tags, ts \in Times : Log(i, tag, ts)
    \/ \E i \in Importance, n \in ExtCounts : Reserve(i, n)
    \/ Discard

Spec == Init /\ [][Next]_vars

================================================================================

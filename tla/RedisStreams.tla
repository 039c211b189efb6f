----------------------------- MODULE RedisStreams -----------------------------
(***************************************************************************)
(* One Redis stream with the one consumer group that Manifeed reads it     *)
(* through, as far as the services use it: XADD, XGROUP CREATE ... $       *)
(* MKSTREAM, XREADGROUP ... >, XACK.  Redis itself is outside the          *)
(* repository, so these operators are modelled from the calls the three    *)
(* redis_queue_client.py files make.                                       *)
(*                                                                         *)
(* A stream keeps the entries ever added to it (log), so that a position   *)
(* in the log is a message id that is never used twice, as Redis ids are   *)
(* not.  last is the group's last-delivered id, pending its pending-       *)
(* entries list (delivered, not acknowledged), acked what XACK removed     *)
(* from that list.                                                         *)
(***************************************************************************)
EXTENDS Integers, Sequences, FiniteSets

\* The streams of such entries.
Streams(Entries) ==
  [log : Seq(Entries), group : BOOLEAN, last : Nat, pending : SUBSET Nat, acked : SUBSET Nat]

\* The group has delivered nothing beyond the end of the stream.
WellFormed(s) ==
  /\ s.last <= Len(s.log)
  /\ s.pending \cup s.acked \subseteq 1..Len(s.log)

\* A stream nobody has written to and no group reads.
EmptyStream ==
  [log |-> <<>>, group |-> FALSE, last |-> 0, pending |-> {}, acked |-> {}]

\* XADD of the same entry n times: n > 1 when a client repeats a command whose
\* reply it lost.
XAdd(s, entry, n) ==
  [s EXCEPT !.log = @ \o [k \in 1..n |-> entry]]

\* XGROUP CREATE <stream> <group> $ MKSTREAM.  An existing group answers
\* BUSYGROUP and is left alone; a new one starts behind every present entry.
XGroupCreate(s) ==
  IF s.group THEN s ELSE [s EXCEPT !.group = TRUE, !.last = Len(s.log), !.pending = {}]

\* The ids XREADGROUP ... > COUNT n would deliver.
Undelivered(s, n) ==
  {i \in 1..Len(s.log) : s.last < i /\ i <= s.last + n}

\* XREADGROUP GROUP g c COUNT n STREAMS s > : the ids become pending.
XReadGroup(s, n) ==
  [s EXCEPT !.last = IF @ + n < Len(s.log) THEN @ + n ELSE Len(s.log),
            !.pending = @ \cup Undelivered(s, n)]

\* XACK s g i : no effect on an id that is not pending.
XAck(s, i) ==
  [s EXCEPT !.pending = @ \ {i}, !.acked = @ \cup ({i} \cap s.pending)]

\* Redis is recreated without its data set: no entry and no group is left.
\* What was in the log can never be delivered again, since a group created
\* later starts at its end.
XLost(s) ==
  [s EXCEPT !.group = FALSE, !.pending = {}]
===============================================================================

---------------------------- MODULE HistoryStore ----------------------------
(***************************************************************************)
(* core/policy/store: the conversion between process-local instants and    *)
(* the epoch milliseconds a store holds, and the SQLite table as the       *)
(* operator its one transaction is. An instant is a number of ticks, of    *)
(* which a millisecond has TicksPerMilli: what a timestamp loses below the *)
(* millisecond is what the conversion is about.                            *)
(*                                                                         *)
(* Wall clock and monotonic clock advance together and are read in the     *)
(* same tick; a clock that is set is not modelled.                         *)
(*                                                                         *)
(* Definitions whose comment begins with "Faulty" are not part of the      *)
(* specification: each is a mistake that one of the properties excludes.   *)
(***************************************************************************)
EXTENDS Integers, Sequences, FiniteSets

LOCAL INSTANCE FiniteSetsExt

CONSTANT TicksPerMilli

ASSUME TicksAssumption == TicksPerMilli \in Nat \ {0}

\* Anchor::now(): an instant, and the millisecond the wall clock shows then.
AnchorAt(now) == [instant |-> now, epochMillis |-> now \div TicksPerMilli]

\* Faulty: the distance to the anchor is always added.
ToEpochMillisForward(anchor, instant) ==
  IF instant >= anchor.instant
    THEN anchor.epochMillis + (instant - anchor.instant) \div TicksPerMilli
    ELSE anchor.epochMillis + (anchor.instant - instant) \div TicksPerMilli

\* as_millis drops the fraction of a duration, on either side of the anchor.
ToEpochMillis(anchor, instant) ==
  IF instant >= anchor.instant
    THEN anchor.epochMillis + (instant - anchor.instant) \div TicksPerMilli
    ELSE anchor.epochMillis - (anchor.instant - instant) \div TicksPerMilli

\* Faulty: the millisecond of the anchor is taken for zero.
ToInstantFromZero(anchor, millis) == millis * TicksPerMilli - anchor.instant

\* checked_sub fails only for instants no row of the window is near.
ToInstant(anchor, millis) ==
  anchor.instant + (millis - anchor.epochMillis) * TicksPerMilli

\* Faulty: the cutoff is the present.
EpochMillisNow(anchor, window) == anchor.epochMillis

EpochMillisBefore(anchor, window) ==
  anchor.epochMillis - window \div TicksPerMilli

-----------------------------------------------------------------------------
(* The table threshold_history as a set of rows. Rows that agree in both   *)
(* columns are told apart by copy, as SQLite does by their rowid.          *)

EmptyTable == {}

Identities(table) == {r.id : r \in table}

Millis(table, id) == {r.millis : r \in {x \in table : x.id = id}}

\* INSERT of events, a sequence of <<identity, millis>>.
Insert(table, events) ==
  LET copies(e) == Cardinality({r \in table : r.id = e[1] /\ r.millis = e[2]})
      nth(i) == Cardinality({j \in 1..i : events[j] = events[i]})
  IN  table \cup {[id |-> events[i][1], millis |-> events[i][2],
                   copy |-> copies(events[i]) + nth(i)] : i \in 1..Len(events)}

\* DELETE ... WHERE timestamp_millis < cutoff
DeleteBefore(table, cutoff) == {r \in table : r.millis >= cutoff}

\* Faulty: the identities in the table are not bounded.
Uncapped(table, max) == {table}

\* DELETE of every identity ranked past max by its latest row. ROW_NUMBER
\* orders identities with the same latest row as it likes.
CapIdentities(table, max) ==
  LET latest(id) == Max(Millis(table, id))
      first(ids) == \A k \in ids, g \in Identities(table) \ ids : latest(k) >= latest(g)
      room == Min({Cardinality(Identities(table)), max})
  IN  {{r \in table : r.id \in ids} :
         ids \in {k \in kSubset(room, Identities(table)) : first(k)}}

\* The tables a committed blocking_sync may leave. It returns what it leaves.
BlockingSync(table, events, cutoff, max) ==
  CapIdentities(DeleteBefore(Insert(table, events), cutoff), max)
==============================================================================

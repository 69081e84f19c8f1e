------------------------------ MODULE Archive ------------------------------
(***************************************************************************)
(* The entries of a session record as a map from base keys: which of them   *)
(* is in use (current_session_mut of session.rs, currentSessionEntry of     *)
(* session-cipher.js), and what archiveAndMerge and evictOldestArchived     *)
(* make of the map.  An entry has at least the fields closed and used.      *)
(***************************************************************************)
EXTENDS Integers, FiniteSets, Functions

CONSTANT MaxArchived  \* MAX_ARCHIVED_SESSIONS: 40

ASSUME ArchiveAssumption == MaxArchived \in Nat

IsOpen(e) == e.closed = -1
OpenKeys(r) == {b \in DOMAIN r : IsOpen(r[b])}
ArchivedKeys(r) == DOMAIN r \ OpenKeys(r)

\* Mutation: the time of use alone decides.
NotBehindInUse(e, d) == d.used <= e.used

\* Open before archived, then by the time of use.
NotBehind(e, d) == IF IsOpen(e) = IsOpen(d) THEN d.used <= e.used ELSE IsOpen(e)

\* The entries that the native selection may return, the last of them in the
\* order of the keys; JavaScript returns the first.
Foremost(r) == {b \in DOMAIN r : \A c \in DOMAIN r : NotBehind(r[b], r[c])}

\* Mutation: only what is older than the new entry is archived.
ArchivedIfOlder(r, now) ==
  [b \in DOMAIN r |-> IF IsOpen(r[b]) /\ r[b].used < now THEN [r[b] EXCEPT !.closed = r[b].used] ELSE r[b]]

\* Every open entry is closed with the time of its use, or now if it has none.
Archived(r, now) ==
  [b \in DOMAIN r |->
     IF IsOpen(r[b]) THEN [r[b] EXCEPT !.closed = IF r[b].used = 0 THEN now ELSE r[b].used] ELSE r[b]]

Merged(r, base, e) == [b \in DOMAIN r \cup {base} |-> IF b = base THEN e ELSE r[b]]

\* What may stay of the archive: as many as it holds, none closed before one
\* that goes.  Entries closed at one time go in the order of their keys.
MayStay(r) ==
  {S \in SUBSET ArchivedKeys(r) :
     /\ Cardinality(S) = IF Cardinality(ArchivedKeys(r)) < MaxArchived
                         THEN Cardinality(ArchivedKeys(r)) ELSE MaxArchived
     /\ \A b \in S : \A c \in ArchivedKeys(r) \ S : r[c].closed <= r[b].closed}

\* The records that the merge may leave.
ArchiveAndMerge(r, base, e, now) ==
  LET merged == Merged(Archived(r, now), base, e)
  IN  {Restrict(merged, OpenKeys(merged) \cup S) : S \in MayStay(merged)}
=============================================================================

------------------------------- MODULE PqInsert -------------------------------
(***************************************************************************)
(* pq_insert of src/server/pq.c: the rates of each host are written to the *)
(* database as a few INSERT statements.  For each tag entry of a host one  *)
(* text, record_str, holds a row for every positive rate; records are      *)
(* collected in a buffer and the statement is executed when the next       *)
(* record does not fit, and at the end of the host.  An entry whose tags    *)
(* do not parse is skipped: a tag text of 256 bytes or more arrives cut.   *)
(*                                                                         *)
(* A record is its number and its length; a statement, the records it was  *)
(* built from.  Whether a statement is accepted depends on its last bytes: *)
(* query[query_len - 2], meant to be the comma of the last "), ", is       *)
(* replaced by a semicolon, so the last record must be there to its end.   *)
(***************************************************************************)
EXTENDS Naturals, Sequences, FiniteSets

CONSTANTS
  Room,        \* bytes from query + empty_len to qend
  Lengths,     \* lengths of records with a positive rate
  MaxEntries   \* bound: tag entries of all hosts

ASSUME RoomAssumption  == Room \in Nat /\ Lengths \subseteq 1 .. Room
ASSUME BoundAssumption == MaxEntries \in Nat

VARIABLES
  inside,    \* between the first and the last line of the loop over hosts
  query,     \* records of the statement under construction
  used,      \* qcur - (query + empty_len)
  record,    \* what record_str was last filled with
  entries,   \* tag entries so far
  due,       \* history: records with a positive rate, in order
  inserted,  \* history: records of accepted statements, in order
  refused,   \* history: records of statements the database refused
  skipped,   \* history: records of entries whose tags do not parse
  stale      \* history: records written again for an entry without positive rate

pqVars == <<inside, query, used, record, entries, due, inserted, refused, skipped, stale>>

Record(n, len) == [n |-> n, len |-> len, whole |-> TRUE]

\* What record_str may hold before its first record: nothing, or bytes left on
\* the stack that are no SQL.
Leftover == {Record(0, 0)} \cup {[n |-> 0, len |-> l, whole |-> FALSE] : l \in Lengths}

PqInit ==
  /\ inside = FALSE /\ query = <<>> /\ used = 0 /\ record \in Leftover /\ entries = 0
  /\ due = <<>> /\ inserted = <<>> /\ refused = {} /\ skipped = {} /\ stale = {}

Numbers(q) == [i \in DOMAIN q |-> q[i].n]
NumberSet(q) == {q[i].n : i \in DOMAIN q}

\* Faulty variant: the buffer is refilled without executing what it held.
ExecuteNothing(q) == UNCHANGED <<inserted, refused>>

\* PQexec of the statement, if it has a record.  A syntax error fails it whole,
\* and its result is not looked at.
Accepted(q) == \A i \in DOMAIN q : q[i].whole
Execute(q) ==
  /\ inserted' = IF Accepted(q) THEN inserted \o Numbers(q) ELSE inserted
  /\ refused'  = IF Accepted(q) THEN refused ELSE refused \cup NumberSet(q)

\* Faulty variant: the test leaves out the new record.
FullAfter(r) == used >= Room

\* The test of line 108.
Full(r) == used + r.len > Room

\* snprintf keeps one byte for the final NUL: a record that fills the buffer to
\* its last byte loses its last character.
Fitted(r, free) == [r EXCEPT !.whole = @ /\ r.len < free]

Add(r) ==
  IF Full(r)
  THEN /\ Execute(query)
       /\ query' = <<Fitted(r, Room)>> /\ used' = r.len
  ELSE /\ query' = IF r.len = 0 THEN query ELSE Append(query, Fitted(r, Room - used))
       /\ used' = used + r.len
       /\ UNCHANGED <<inserted, refused>>

\* Faulty variant: the buffer is static and keeps the records of the host before.
HostBeginKeeping ==
  /\ ~ inside
  /\ inside' = TRUE
  /\ UNCHANGED <<query, used, record, entries, due, inserted, refused, skipped, stale>>

\* A new host with its own buffer.
HostBegin ==
  /\ ~ inside
  /\ inside' = TRUE /\ query' = <<>> /\ used' = 0
  /\ UNCHANGED <<record, entries, due, inserted, refused, skipped, stale>>

\* A tag entry with positive rates.
Entry(len) ==
  /\ inside /\ entries < MaxEntries
  /\ entries' = entries + 1
  /\ record' = Record(entries + 1, len)
  /\ due' = Append(due, entries + 1)
  /\ Add(record')
  /\ UNCHANGED <<inside, skipped, stale>>

\* A tag entry whose rates are all zero: nothing is written to record_str, which
\* is not initialised and holds what its place on the stack does, the record of
\* an entry before it if there was one.
IdleEntry ==
  /\ inside /\ entries < MaxEntries
  /\ entries' = entries + 1
  /\ Add(record)
  /\ stale' = IF record.n = 0 THEN stale ELSE stale \cup {record.n}
  /\ UNCHANGED <<inside, record, due, skipped>>

\* A tag entry with positive rates whose tags do not parse: the loop goes on with
\* the next one, and record_str is not touched.
SkipEntry ==
  /\ inside /\ entries < MaxEntries
  /\ entries' = entries + 1
  /\ due' = Append(due, entries + 1)
  /\ skipped' = skipped \cup {entries + 1}
  /\ UNCHANGED <<inside, query, used, record, inserted, refused, stale>>

\* The statement that is left at the end of the host.
HostEnd ==
  /\ inside
  /\ Execute(query)
  /\ inside' = FALSE
  /\ UNCHANGED <<query, used, record, entries, due, skipped, stale>>

PqNext == HostBegin \/ HostEnd \/ IdleEntry \/ SkipEntry \/ \E len \in Lengths : Entry(len)

PqSpec == PqInit /\ [][PqNext]_pqVars

-----------------------------------------------------------------------------
\* The variables keep their types: the buffer is never filled beyond qend (pq.c 108).
PqTypeOK ==
  /\ inside \in BOOLEAN
  /\ used \in 0 .. Room
  /\ entries \in 0 .. MaxEntries
  /\ \A i \in DOMAIN query : query[i].n \in 0 .. MaxEntries
  /\ refused \cup skipped \cup stale \subseteq 0 .. MaxEntries

Times(n) == Cardinality({i \in DOMAIN inserted : inserted[i] = n})

\* What holds: every record gets into a statement that is executed.  It is missing
\* only if that statement was refused or its tags do not parse (pq.c 65-70, 108-119),
\* and there twice only if an entry without a positive rate came after it (99-100).
MissingOrTwiceOnlyIf ==
  ~ inside =>
    \A n \in {due[i] : i \in DOMAIN due} :
      /\ Times(n) = 0 => n \in refused \cup skipped
      /\ Times(n) > 1 => n \in stale

\* Records are inserted in the order they were collected: no statement overtakes
\* another and none is executed twice.
InOrder == \A i, k \in DOMAIN inserted : i < k => inserted[i] <= inserted[k]

=============================================================================

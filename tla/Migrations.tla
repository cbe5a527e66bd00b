------------------------------ MODULE Migrations ------------------------------
(***************************************************************************)
(* The migrations a process runs when it boots (db/migrations/index.js,    *)
(* locked.js, server.js), under the lease 'migrate'.  The lease keeps two  *)
(* processes apart only while it lasts: the runner is not fenced, and a    *)
(* process that stalls goes on where it was.  Any process may die anywhere *)
(* and boot again.                                                         *)
(***************************************************************************)
EXTENDS Values

CONSTANTS
  Process,      \* instances of the server
  Count,        \* the number of migrations
  Release       \* of each process, the text of each migration it has

Migration == 1..Count

VARIABLES
  schema,    \* the text of each migration the database has in effect, or Null
  record,    \* _migrations: the checksum recorded for each, or Null
  lease,     \* the holder of 'migrate', or Null
  proc       \* each process: [pc, at], `at' the migration it is about

migVars == <<schema, record, lease, proc>>

Down == [pc |-> "down", at |-> 1]

Init ==
  /\ schema = [m \in Migration |-> Null]
  /\ record = [m \in Migration |-> Null]
  /\ lease = Null
  /\ proc = [p \in Process |-> Down]

-----------------------------------------------------------------------------
Text(p) == Release[p][proc[p].at]

LetGo(p) == lease' = IF lease = p THEN Null ELSE lease

\* The migration at hand is done: the next one, or the server starts.
Advance(p) ==
  IF proc[p].at < Count
  THEN proc' = [proc EXCEPT ![p] = [pc |-> "read", at |-> @.at + 1]] /\ UNCHANGED lease
  ELSE proc' = [proc EXCEPT ![p].pc = "up"] /\ LetGo(p)

Boot(p) ==
  /\ proc[p].pc = "down" /\ lease = Null
  /\ lease' = p
  /\ proc' = [proc EXCEPT ![p] = [pc |-> "read", at |-> 1]]
  /\ UNCHANGED <<schema, record>>

\* The process dies, or stalls until its lease has run out.
Crash(p) ==
  /\ proc[p].pc # "down"
  /\ proc' = [proc EXCEPT ![p] = Down]
  /\ UNCHANGED <<schema, record, lease>>

Expire ==
  /\ lease # Null
  /\ lease' = Null
  /\ UNCHANGED <<schema, record, proc>>

\* Skipped when it is recorded with this text; refused, and the process exits,
\* when it is recorded with another.
Read(p) ==
  /\ proc[p].pc = "read"
  /\ CASE record[proc[p].at] = Null ->
            proc' = [proc EXCEPT ![p].pc = "apply"] /\ UNCHANGED lease
       [] record[proc[p].at] = Text(p) -> Advance(p)
       [] OTHER -> proc' = [proc EXCEPT ![p] = Down] /\ LetGo(p)
  /\ UNCHANGED <<schema, record>>

\* A plausible bug: the migration is recorded first, so that it runs once.
ApplyAfterRecord(p) ==
  /\ proc[p].pc = "apply"
  /\ IF record[proc[p].at] = Null
     THEN record' = [record EXCEPT ![proc[p].at] = Text(p)] /\ UNCHANGED <<schema, proc>>
     ELSE /\ schema' = [schema EXCEPT ![proc[p].at] = Text(p)]
          /\ proc' = [proc EXCEPT ![p].pc = "record"] /\ UNCHANGED record
  /\ UNCHANGED lease

\* up(db): idempotent, and whatever was in effect before is replaced.
Apply(p) ==
  /\ proc[p].pc = "apply"
  /\ schema' = [schema EXCEPT ![proc[p].at] = Text(p)]
  /\ proc' = [proc EXCEPT ![p].pc = "record"]
  /\ UNCHANGED <<record, lease>>

\* The insert; a duplicate key is taken for "applied by another process", and
\* the checksum of that record is not looked at.
Record(p) ==
  /\ proc[p].pc = "record"
  /\ record' = [record EXCEPT ![proc[p].at] = IF @ = Null THEN Text(p) ELSE @]
  /\ Advance(p)
  /\ UNCHANGED schema

Next ==
  \/ \E p \in Process : Boot(p) \/ Crash(p) \/ Read(p) \/ Apply(p) \/ Record(p)
  \/ Expire

Spec == Init /\ [][Next]_migVars

-----------------------------------------------------------------------------
\* Wherever processes die and leases run out: a server that has started finds
\* every migration recorded and in effect; nothing is recorded that is not in
\* effect; and no migration takes effect before the ones it builds on are
\* recorded.
StartedIsMigrated ==
  /\ \A p \in Process : proc[p].pc = "up" => \A m \in Migration : record[m] # Null
  /\ \A m \in Migration :
       /\ record[m] # Null => schema[m] # Null
       /\ schema[m] # Null => \A n \in Migration : n < m => record[n] # Null
=============================================================================

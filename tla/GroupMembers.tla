----------------------------- MODULE GroupMembers -----------------------------
(***************************************************************************)
(* The members of one group (services/groupService.js,                     *)
(* repositories/groupRepo.js and the member jobs of sync/syncService.js).  *)
(* Three kinds of job write the list under the group's lease, after calls  *)
(* to FPL that take a while: the creation, an addition by hand and stage 3 *)
(* of a sync.  The administrator's edits and the archive button take no    *)
(* lease.  A transaction is one step: the edits that race with it retry.   *)
(*                                                                         *)
(* The league's answer is the rows of its standings pages, one page after  *)
(* the other; a page read later may repeat an entry of an earlier one.     *)
(***************************************************************************)
EXTENDS Values

CONSTANTS
  Mine,         \* the entries an administrator marks as "me"
  Job,          \* jobs on this group, of any kind
  MayStall,     \* jobs whose lease may run out without their noticing
  League,       \* the answers FPL may give for the standings
  Chosen,       \* the lists of entries an administrator types in
  MaxMembers    \* the validator's cap on the members array: 50

VARIABLES
  group,      \* Null, or [active, league, me, members]: `league' is whether
              \* memberSource is LEAGUE_STANDINGS
  managers,   \* the entries with a managers document
  holder,     \* the job that holds the group's lease, or Null
  job         \* each job: [pc, kind, ids]

groupVars == <<group, managers, holder, job>>

Idle == [pc |-> "idle", kind |-> "none", ids |-> <<>>]

Init ==
  /\ group = Null
  /\ managers = {}
  /\ holder = Null
  /\ job = [j \in Job |-> Idle]

-----------------------------------------------------------------------------
Ids(members) == [i \in DOMAIN members |-> members[i].entry]
NewMember(e, manual) == [entry |-> e, excluded |-> FALSE, left |-> FALSE, manual |-> manual]
NewMembers(ids, manual) == [i \in DOMAIN ids |-> NewMember(ids[i], manual)]

\* The elements of s at the positions in I, in their order.
At(s, I) == [k \in 1..Cardinality(I) |-> s[CHOOSE i \in I : Cardinality(I \cap 1..i) = k]]

\* Each entry of the rows once, where it came first.
Standings(rows) == At(rows, {i \in DOMAIN rows : \A j \in 1..(i - 1) : rows[j] # rows[i]})

\* A member keeps its settings and its place; who is not in the league any
\* more is marked, unless added by hand; who is new is appended.
MergeLeagueMembers(existing, ids) ==
  LET kept == [i \in DOMAIN existing |->
                 [existing[i] EXCEPT !.left =
                    IF existing[i].entry \in Range(ids) THEN FALSE
                    ELSE IF existing[i].manual THEN @ ELSE TRUE]]
      new == At(ids, {i \in DOMAIN ids : ids[i] \notin Range(Ids(existing))})
  IN kept \o NewMembers(new, FALSE)

\* A plausible bug: the uniqueness of the members is left to the validator.
AcceptedByLength(members) == Len(members) <= MaxMembers

\* What setMembers and the collection's validator accept.
Accepted(members) == IsInjective(Ids(members)) /\ Len(members) <= MaxMembers

-----------------------------------------------------------------------------
\* The lease of a job that stalls runs out.
Expire(j) ==
  /\ j \in MayStall /\ holder = j
  /\ holder' = Null
  /\ UNCHANGED <<group, managers, job>>

End(j) ==
  /\ job' = [job EXCEPT ![j] = Idle]
  /\ holder' = IF holder = j THEN Null ELSE holder

\* A failing fetch, a transaction that aborts, a crash: nothing is written.
Fail(j) ==
  /\ job[j].pc \notin {"idle", "asked"}
  /\ End(j)
  /\ UNCHANGED <<group, managers>>

\* The service's checks, before there is a lease: a list without duplicates
\* for a creation or an addition, and none of the current members; a group
\* that is not archived.
Ask(j, kind, ids) ==
  /\ job[j].pc = "idle"
  /\ CASE kind = "create-league" -> group = Null /\ ids = <<>>
       [] kind = "create-manual" -> group = Null /\ IsInjective(ids)
       [] kind = "add" -> group # Null /\ group.active /\ IsInjective(Ids(group.members) \o ids)
       [] kind = "sync" -> group # Null /\ group.active /\ ids = <<>>
  /\ job' = [job EXCEPT ![j] = [pc |-> "asked", kind |-> kind, ids |-> ids]]
  /\ UNCHANGED <<group, managers, holder>>

Acquire(j) ==
  /\ job[j].pc = "asked" /\ holder = Null
  /\ holder' = j
  /\ job' = [job EXCEPT ![j].pc = CASE job[j].kind = "sync" -> "read"
                                   [] job[j].kind = "create-league" -> "standings"
                                   [] OTHER -> "write"]
  /\ UNCHANGED <<group, managers>>

\* A busy lease is refused at once (409).
Refused(j) ==
  /\ job[j].pc = "asked" /\ holder # Null
  /\ End(j)
  /\ UNCHANGED <<group, managers>>

\* membersStage reads the group: one with members entered by hand is done.
ReadGroup(j) ==
  /\ job[j].pc = "read"
  /\ IF group.league
     THEN job' = [job EXCEPT ![j].pc = "standings"] /\ UNCHANGED holder
     ELSE End(j)
  /\ UNCHANGED <<group, managers>>

\* The standings of the league, all of them.  A league that cannot be read or is
\* empty freezes the members of a sync, and ends a creation.
Fetch(j, rows) ==
  /\ job[j].pc = "standings"
  /\ IF rows = <<>>
     THEN End(j)
     ELSE job' = [job EXCEPT ![j].pc = "write", ![j].ids = Standings(rows)] /\ UNCHANGED holder
  /\ UNCHANGED <<group, managers>>

\* T2 of a creation: the group and its managers, under the lease.
CreateGroup(j, me) ==
  LET ids == job[j].ids
      league == job[j].kind = "create-league"
  IN /\ job[j].pc = "write" /\ job[j].kind \in {"create-league", "create-manual"}
     /\ holder = j /\ group = Null /\ Accepted(NewMembers(ids, ~league))
     /\ me \in Maybe(Range(ids))
     /\ group' = [active |-> TRUE, league |-> league, me |-> me,
                  members |-> NewMembers(ids, ~league)]
     /\ managers' = managers \cup Range(ids)
     /\ End(j)

\* A plausible bug: the list the standings give replaces the members.
T2Replaces(j) ==
  LET members == NewMembers(job[j].ids, FALSE)
  IN /\ job[j].pc = "write" /\ job[j].kind = "sync"
     /\ holder = j
     /\ Accepted(members)
     /\ group' = [group EXCEPT !.members = members]
     /\ managers' = managers \cup Range(job[j].ids)
     /\ End(j)

\* T2 of a sync: merged with the members of now.
T2(j) ==
  LET members == MergeLeagueMembers(group.members, job[j].ids)
  IN /\ job[j].pc = "write" /\ job[j].kind = "sync"
     /\ holder = j
     /\ Accepted(members)
     /\ group' = [group EXCEPT !.members = members]
     /\ managers' = managers \cup Range(job[j].ids)
     /\ End(j)

\* T2 of an addition: the group is read again, and refused if archived.
AddMembers(j) ==
  LET members == group.members \o NewMembers(job[j].ids, TRUE)
  IN /\ job[j].pc = "write" /\ job[j].kind = "add"
     /\ holder = j /\ group.active
     /\ Accepted(members)
     /\ group' = [group EXCEPT !.members = members]
     /\ managers' = managers \cup Range(job[j].ids)
     /\ End(j)

-----------------------------------------------------------------------------
(* The administrator's edits, without a lease.                             *)

Edit(new) ==
  /\ group # Null /\ group' = new
  /\ UNCHANGED <<managers, holder, job>>

UpdateMember(i, excluded) ==
  /\ group # Null /\ group.active /\ i \in DOMAIN group.members
  /\ Edit([group EXCEPT !.members[i].excluded = excluded])

SetMe(me) ==
  /\ group # Null /\ group.active
  /\ me \in Maybe(Range(Ids(group.members)))
  /\ Edit([group EXCEPT !.me = me])

SwitchToManual ==
  /\ group # Null /\ group.active
  /\ Edit([group EXCEPT !.league = FALSE])

Archive(active) == group # Null /\ Edit([group EXCEPT !.active = active])

-----------------------------------------------------------------------------
Next ==
  \/ \E j \in Job :
       \/ Expire(j) \/ Fail(j) \/ Acquire(j) \/ Refused(j)
       \/ ReadGroup(j) \/ T2(j) \/ AddMembers(j)
       \/ \E ids \in Chosen : Ask(j, "create-manual", ids) \/ Ask(j, "add", ids)
       \/ Ask(j, "create-league", <<>>) \/ Ask(j, "sync", <<>>)
       \/ \E rows \in League : Fetch(j, rows)
       \/ \E me \in Maybe(Mine) : CreateGroup(j, me)
  \/ \E i \in 1..MaxMembers, excluded \in BOOLEAN : UpdateMember(i, excluded)
  \/ \E me \in Maybe(Mine) : SetMe(me)
  \/ SwitchToManual
  \/ \E active \in BOOLEAN : Archive(active)

Spec == Init /\ [][Next]_groupVars

-----------------------------------------------------------------------------
\* What db:check asks of a group (I1, I3), with what the merge promises, at
\* every moment of every interleaving of jobs, stalls and edits: no entry is
\* in the list twice, every member has a managers document, "me" is a member,
\* and only a member that came with the league is ever marked as having left.
MembersSound ==
  group # Null =>
    /\ IsInjective(Ids(group.members)) /\ Len(group.members) \in 1..MaxMembers
    /\ Range(Ids(group.members)) \subseteq managers
    /\ group.me \in Maybe(Range(Ids(group.members)))
    /\ \A i \in DOMAIN group.members : group.members[i].left => ~group.members[i].manual

KeepsMembers ==
  group # Null =>
    LET old == group.members
        new == group'.members
        excluded(members) == [i \in DOMAIN old |-> members[i].excluded]
        left(members) == [i \in DOMAIN old |-> members[i].left]
    IN /\ IsPrefix(Ids(old), Ids(new))
       /\ \A i \in DOMAIN old : new[i].manual = old[i].manual
       /\ excluded(new) # excluded(old) => group.active /\ job' = job
       /\ left(new) # left(old) => holder \in Job /\ holder' = Null

\* Members are never removed: a step keeps every member, in its place and with
\* its origin, adds at the end, and never undoes an exclusion the
\* administrator made while a job was between its read and its write; nor does
\* an edit undo what a job marked.
MembersKept == [][KeepsMembers]_groupVars
=============================================================================

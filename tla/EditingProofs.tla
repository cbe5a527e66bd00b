---------------------------- MODULE EditingProofs -----------------------------
(***************************************************************************)
(* Two things that people edit while something else writes them.           *)
(* GroupMembers: the members of a group stay sound, and none of them is    *)
(* ever lost, for any number of jobs, stalls and edits and any answers of  *)
(* the league.  Planner (here Plan): a draft of a squad stays one that the *)
(* editor can finish, for any players, limits and drafts.                  *)
(***************************************************************************)
EXTENDS GroupMembers, SequenceTheorems, FiniteSetTheorems, TLAPS

CONSTANT Entry     \* every entry somebody may name

CONSTANTS Player, PositionOf, ClubOf, Estimate, Position, Shape, XiMin, XiMax,
          XiPlayers, ClubLimit, Price, MySquad, Budget, MaxDrafts
VARIABLES drafts, active, storage

Plan == INSTANCE Planner WITH Mine <- MySquad

-----------------------------------------------------------------------------
(* GroupMembers.                                                           *)

Member == [entry : Entry, excluded : BOOLEAN, left : BOOLEAN, manual : BOOLEAN]
Group == [active : BOOLEAN, league : BOOLEAN, me : Maybe(Entry), members : Seq(Member)]
JobState == [pc : {"idle", "asked", "read", "standings", "write"},
             kind : {"none", "create-league", "create-manual", "add", "sync"},
             ids : Seq(Entry)]

\* What reaches the jobs: lists of entries, and none that an administrator
\* types in is empty (validators/groups.js).
Inputs ==
  /\ Chosen \subseteq Seq(Entry) \ {<<>>}
  /\ League \subseteq Seq(Entry)
  /\ MaxMembers \in Nat
  /\ Null \notin Group

\* The types the argument needs.
TypeOK ==
  /\ group \in Group \cup {Null}
  /\ job \in [Job -> JobState]

\* A job is of some kind; one that changes a group finds it, and one that
\* writes has a list.
Prepared ==
  \A j \in Job :
    /\ job[j].kind \in {"sync", "add"} => group # Null
    /\ job[j].kind \in {"create-manual", "add"} => job[j].ids # <<>>
    /\ job[j].pc = "asked" => job[j].kind # "none"
    /\ job[j].pc = "write" => job[j].ids # <<>>

\* The inductive invariant.
IInv == TypeOK /\ Prepared /\ MembersSound

-----------------------------------------------------------------------------
\* A function from 1..n is a sequence of length n.
LEMMA FunctionIsSeq ==
  ASSUME NEW S, NEW n \in Nat, NEW f \in [1..n -> S]
  PROVE  f \in Seq(S) /\ Len(f) = n /\ DOMAIN f = 1..n
OBVIOUS

\* Among finitely many positions every place is taken: the k-th one exists.
LEMMA Places ==
  ASSUME NEW n \in Nat, NEW I \in SUBSET (1..n)
  PROVE  /\ IsFiniteSet(I) /\ Cardinality(I) \in Nat
         /\ \A k \in 1..Cardinality(I) : \E i \in I : Cardinality(I \cap 1..i) = k
<1> DEFINE upto(i) == I \cap 1..i
           rank == [i \in I |-> Cardinality(upto(i))]
           c == Cardinality(I)
<1>1. IsFiniteSet(I) /\ c \in Nat
  <2>1. IsFiniteSet(1..n)
    BY FS_Interval
  <2>2. IsFiniteSet(I)
    BY <2>1, FS_Subset
  <2> QED BY <2>2, FS_CardinalityType
<1>2. \A i \in I : IsFiniteSet(upto(i)) /\ Cardinality(upto(i)) \in 1..c
  <2> SUFFICES ASSUME NEW i \in I PROVE IsFiniteSet(upto(i)) /\ Cardinality(upto(i)) \in 1..c
    OBVIOUS
  <2>1. IsFiniteSet(upto(i)) /\ Cardinality(upto(i)) <= c
    BY <1>1, FS_Subset
  <2>2. upto(i) # {}
    <3>1. i \in upto(i)
      OBVIOUS
    <3> QED BY <3>1
  <2>3. Cardinality(upto(i)) \in Nat /\ Cardinality(upto(i)) # 0
    BY <2>1, <2>2, FS_CardinalityType, FS_EmptySet
  <2> QED BY <1>1, <2>1, <2>3
<1>3. ASSUME NEW i \in I, NEW j \in I, i < j PROVE Cardinality(upto(i)) # Cardinality(upto(j))
  <2>1. upto(i) \subseteq upto(j) /\ j \in upto(j) /\ j \notin upto(i)
    BY <1>3
  <2>2. upto(i) # upto(j)
    BY <2>1
  <2>3. Cardinality(upto(i)) < Cardinality(upto(j))
    BY <1>2, <2>1, <2>2, FS_Subset
  <2> QED BY <1>2, <2>3
<1>4. \A i, j \in I : rank[i] = rank[j] => i = j
  <2> SUFFICES ASSUME NEW i \in I, NEW j \in I, i # j PROVE rank[i] # rank[j]
    OBVIOUS
  <2>1. i < j \/ j < i
    OBVIOUS
  <2> QED BY <1>3, <2>1
<1>5. rank \in Injection(I, 1..c)
  BY <1>2, <1>4 DEF Injection, IsInjective
<1>6. IsFiniteSet(1..c) /\ Cardinality(1..c) = c
  BY <1>1, FS_Interval
<1>7. rank \in Surjection(I, 1..c)
  BY <1>1, <1>5, <1>6, FS_Injection
<1>8. \A k \in 1..c : \E i \in I : rank[i] = k
  BY <1>7 DEF Surjection
<1> QED BY <1>1, <1>8

\* What is picked from a sequence.
LEMMA AtIs ==
  ASSUME NEW S, NEW s \in Seq(S), NEW I \in SUBSET DOMAIN s
  PROVE  /\ At(s, I) \in Seq(S)
         /\ Range(At(s, I)) \subseteq {s[i] : i \in I}
         /\ I # {} => At(s, I) # <<>>
<1>1. Len(s) \in Nat /\ DOMAIN s = 1..Len(s) /\ \A i \in DOMAIN s : s[i] \in S
  BY LenProperties
<1> DEFINE c == Cardinality(I)
           place(k) == CHOOSE i \in I : Cardinality(I \cap 1..i) = k
<1>2. IsFiniteSet(I) /\ c \in Nat /\ \A k \in 1..c : place(k) \in I
  BY <1>1, Places
<1>3. At(s, I) = [k \in 1..c |-> s[place(k)]]
  BY DEF At
<1> HIDE DEF place
<1>4. At(s, I) \in [1..c -> S]
  BY <1>1, <1>2, <1>3
<1>5. At(s, I) \in Seq(S) /\ Len(At(s, I)) = c /\ DOMAIN At(s, I) = 1..c
  BY <1>2, <1>4, FunctionIsSeq
<1>6. Range(At(s, I)) \subseteq {s[i] : i \in I}
  BY <1>2, <1>3 DEF Range
<1>7. I # {} => c # 0
  BY <1>2, FS_EmptySet
<1> QED BY <1>5, <1>6, <1>7, EmptySeq

\* Each entry of the standings is listed, and only those (readStandings).
LEMMA StandingsList ==
  ASSUME NEW rows \in Seq(Entry), rows # <<>>
  PROVE  Standings(rows) \in Seq(Entry) /\ Standings(rows) # <<>>
<1> DEFINE first == {i \in DOMAIN rows : \A j \in 1..(i - 1) : rows[j] # rows[i]}
<1>1. 1 \in first
  BY EmptySeq, LenProperties
<1>2. first # {} /\ first \in SUBSET DOMAIN rows
  BY <1>1
<1>3. Standings(rows) = At(rows, first)
  BY DEF Standings
<1> HIDE DEF first
<1> QED BY <1>2, <1>3, AtIs

-----------------------------------------------------------------------------
\* Members that are still there, in their places.
Extended(old, new) ==
  /\ new \in Seq(Member) /\ Len(old) <= Len(new)
  /\ \A i \in 1..Len(old) : new[i].entry = old[i].entry /\ new[i].manual = old[i].manual

\* What a job makes of the members: none is lost, moved, or freed of an
\* exclusion, and only entries the job has are appended.
Grown(old, new, ids) ==
  /\ Extended(old, new)
  /\ \A i \in 1..Len(old) : new[i].excluded = old[i].excluded
  /\ \A i \in 1..Len(old) : new[i].left => old[i].left \/ ~old[i].manual
  /\ \A i \in (Len(old) + 1)..Len(new) : new[i].entry \in Range(ids) /\ ~new[i].left

\* New members, of a creation, an addition or a merge.
LEMMA NewMembersAre ==
  ASSUME NEW ids \in Seq(Entry), NEW manual \in BOOLEAN
  PROVE  /\ NewMembers(ids, manual) \in Seq(Member)
         /\ Len(NewMembers(ids, manual)) = Len(ids)
         /\ \A i \in 1..Len(ids) : NewMembers(ids, manual)[i] = NewMember(ids[i], manual)
<1>1. Len(ids) \in Nat /\ DOMAIN ids = 1..Len(ids) /\ \A i \in 1..Len(ids) : ids[i] \in Entry
  BY LenProperties
<1>2. \A e \in Entry : NewMember(e, manual) \in Member
  BY DEF NewMember, Member
<1>3. NewMembers(ids, manual) = [i \in 1..Len(ids) |-> NewMember(ids[i], manual)]
  BY <1>1 DEF NewMembers
<1>4. NewMembers(ids, manual) \in [1..Len(ids) -> Member]
  BY <1>1, <1>2, <1>3
<1> QED BY <1>1, <1>3, <1>4, FunctionIsSeq

\* New members at the end of members that a job may have marked.
LEMMA AppendedGrow ==
  ASSUME NEW old \in Seq(Member), NEW kept \in Seq(Member), Grown(old, kept, <<>>),
         Len(kept) = Len(old),
         NEW ids \in Seq(Entry), NEW new \in Seq(Entry), Range(new) \subseteq Range(ids),
         NEW manual \in BOOLEAN
  PROVE  Grown(old, kept \o NewMembers(new, manual), ids)
<1> DEFINE added == NewMembers(new, manual)
           all == kept \o added
<1>1. /\ added \in Seq(Member) /\ Len(added) = Len(new)
      /\ \A i \in 1..Len(new) : added[i] = NewMember(new[i], manual)
  BY NewMembersAre
<1>2. /\ Len(kept) \in Nat /\ Len(new) \in Nat /\ DOMAIN new = 1..Len(new)
  BY LenProperties
<1> HIDE DEF added
<1>3. /\ all \in Seq(Member) /\ Len(all) = Len(old) + Len(new)
      /\ \A i \in 1..(Len(old) + Len(new)) :
           all[i] = IF i <= Len(old) THEN kept[i] ELSE added[i - Len(old)]
  <2>1. /\ all \in Seq(Member) /\ Len(all) = Len(kept) + Len(added)
        /\ \A i \in 1..(Len(kept) + Len(added)) :
             all[i] = IF i <= Len(kept) THEN kept[i] ELSE added[i - Len(kept)]
    <3>1. kept \in Seq(Member) /\ added \in Seq(Member)
      BY <1>1
    <3> QED BY <3>1, ConcatProperties, Zenon
  <2> HIDE DEF all
  <2> QED BY <1>1, <2>1
<1> HIDE DEF all
<1>4. \A i \in 1..Len(old) : all[i] = kept[i]
  BY <1>2, <1>3
<1>5. ASSUME NEW i \in (Len(old) + 1)..Len(all)
      PROVE  all[i].entry \in Range(ids) /\ ~all[i].left
  <2>1. i - Len(old) \in 1..Len(new)
    BY <1>2, <1>3
  <2>2. all[i] = NewMember(new[i - Len(old)], manual)
    <3>1. i \in 1..(Len(old) + Len(new)) /\ ~(i <= Len(old))
      BY <1>2, <1>3
    <3>2. all[i] = added[i - Len(old)]
      BY <1>3, <3>1
    <3> QED BY <1>1, <2>1, <3>2
  <2>3. new[i - Len(old)] \in Range(ids)
    BY <1>2, <2>1 DEF Range
  <2> QED BY <2>2, <2>3 DEF NewMember
<1>6. Len(old) <= Len(all)
  BY <1>2, <1>3
<1>7. Grown(old, all, ids)
  BY <1>3, <1>4, <1>5, <1>6 DEF Grown, Extended
<1> QED BY <1>7 DEF all, added

\* The merge of stage 3 (normalize.js).
LEMMA MergeGrows ==
  ASSUME NEW old \in Seq(Member), NEW ids \in Seq(Entry)
  PROVE  Grown(old, MergeLeagueMembers(old, ids), ids)
<1> DEFINE mark(i) == IF old[i].entry \in Range(ids) THEN FALSE
                      ELSE IF old[i].manual THEN old[i].left ELSE TRUE
           kept == [i \in DOMAIN old |-> [old[i] EXCEPT !.left = mark(i)]]
           unknown == {i \in DOMAIN ids : ids[i] \notin Range(Ids(old))}
           new == At(ids, unknown)
<1>1. /\ Len(old) \in Nat /\ DOMAIN old = 1..Len(old)
      /\ \A i \in 1..Len(old) : old[i] \in Member
  BY LenProperties
<1>2. \A i \in 1..Len(old) : mark(i) \in BOOLEAN /\ (mark(i) => old[i].left \/ ~old[i].manual)
  BY <1>1 DEF Member
<1>3. MergeLeagueMembers(old, ids) = kept \o NewMembers(new, FALSE)
  BY DEF MergeLeagueMembers
<1> HIDE DEF mark, unknown
<1>4. \A i \in 1..Len(old) :
        /\ kept[i] \in Member /\ kept[i].left = mark(i)
        /\ kept[i].entry = old[i].entry
        /\ kept[i].manual = old[i].manual /\ kept[i].excluded = old[i].excluded
  BY <1>1, <1>2 DEF Member
<1>5. kept \in [1..Len(old) -> Member]
  BY <1>1, <1>4
<1> HIDE DEF kept
<1>6. kept \in Seq(Member) /\ Len(kept) = Len(old)
  BY <1>1, <1>5, FunctionIsSeq
<1>7. Grown(old, kept, <<>>)
  BY <1>1, <1>2, <1>4, <1>6 DEF Grown, Extended
<1>8. unknown \in SUBSET DOMAIN ids
  BY DEF unknown
<1>9. new \in Seq(Entry) /\ Range(new) \subseteq {ids[i] : i \in unknown}
  BY <1>8, AtIs
<1>10. Range(new) \subseteq Range(ids)
  BY <1>8, <1>9 DEF Range
<1> HIDE DEF new
<1> QED BY <1>3, <1>6, <1>7, <1>9, <1>10, AppendedGrow

\* An addition by hand.
LEMMA AdditionGrows ==
  ASSUME NEW old \in Seq(Member), NEW ids \in Seq(Entry)
  PROVE  Grown(old, old \o NewMembers(ids, TRUE), ids)
<1>1. Len(old) \in Nat /\ \A i \in (Len(old) + 1)..Len(old) : FALSE
  BY LenProperties
<1>2. Grown(old, old, <<>>)
  BY <1>1 DEF Grown, Extended
<1> QED BY <1>2, AppendedGrow

-----------------------------------------------------------------------------
\* The entries of the members, one by one.
LEMMA IdsAre ==
  ASSUME NEW members \in Seq(Member)
  PROVE  /\ Ids(members) \in Seq(Entry) /\ Len(Ids(members)) = Len(members)
         /\ DOMAIN Ids(members) = DOMAIN members
         /\ DOMAIN members = 1..Len(members) /\ Len(members) \in Nat
         /\ \A i \in 1..Len(members) : Ids(members)[i] = members[i].entry
         /\ Range(Ids(members)) = {members[i].entry : i \in 1..Len(members)}
<1>1. /\ Len(members) \in Nat /\ DOMAIN members = 1..Len(members)
      /\ \A i \in 1..Len(members) : members[i] \in Member
  BY LenProperties
<1>2. Ids(members) = [i \in 1..Len(members) |-> members[i].entry]
  BY <1>1 DEF Ids
<1>3. Ids(members) \in [1..Len(members) -> Entry]
  BY <1>1, <1>2 DEF Member
<1>4. Range(Ids(members)) = {members[i].entry : i \in 1..Len(members)}
  BY <1>2 DEF Range
<1> QED BY <1>1, <1>2, <1>3, <1>4, FunctionIsSeq

\* The members that were there are a prefix of the members there are now.
LEMMA ExtendedPrefix ==
  ASSUME NEW old \in Seq(Member), NEW new, Extended(old, new)
  PROVE  IsPrefix(Ids(old), Ids(new))
<1> DEFINE n == Len(old)
           s == Ids(old)
           t == Ids(new)
<1>1. /\ n \in Nat /\ Len(new) \in Nat /\ n <= Len(new)
      /\ s \in Seq(Entry) /\ t \in Seq(Entry) /\ Len(s) = n /\ Len(t) = Len(new)
  BY IdsAre DEF Grown, Extended
<1>2. \A i \in 1..n : s[i] = t[i] /\ s[i] \in Entry
  BY <1>1, IdsAre, LenProperties DEF Grown, Extended
<1> HIDE DEF n, s, t
<1>3. \A i \in 1..n : t[i] \in Entry
  BY <1>2
<1>4. /\ SubSeq(t, 1, n) \in Seq(Entry)
      /\ Len(SubSeq(t, 1, n)) = IF 1 <= n THEN n - 1 + 1 ELSE 0
      /\ \A i \in 1..(n - 1 + 1) : SubSeq(t, 1, n)[i] = t[1 + i - 1]
  BY <1>1, <1>3, SubSeqProperties
<1>5. Len(SubSeq(t, 1, n)) = n /\ \A i \in 1..n : SubSeq(t, 1, n)[i] = s[i]
  BY <1>1, <1>2, <1>4
<1>6. SubSeq(t, 1, n) = s
  BY <1>1, <1>4, <1>5, SeqEqual
<1>7. SubSeq(s, 1, n) = s
  BY <1>1, SubSeqFull
<1> QED BY <1>1, <1>6, <1>7 DEF IsPrefix, s, t

-----------------------------------------------------------------------------
\* What a transaction of a job makes of a sound group is sound.
LEMMA GrownIsSound ==
  ASSUME NEW g \in Group, NEW new, NEW ids \in Seq(Entry), Grown(g.members, new, ids),
         Accepted(new), MaxMembers \in Nat,
         Len(g.members) >= 1, Range(Ids(g.members)) \subseteq managers,
         g.me \in Maybe(Range(Ids(g.members))),
         \A i \in DOMAIN g.members : g.members[i].left => ~g.members[i].manual,
         managers' = managers \cup Range(ids),
         group' = [g EXCEPT !.members = new]
  PROVE  group' \in Group /\ MembersSound'
<1> DEFINE old == g.members
<1>1. old \in Seq(Member) /\ new \in Seq(Member)
  BY DEF Group, Grown, Extended
<1>2. group' \in Group /\ group'.members = new /\ group'.me = g.me
  BY <1>1 DEF Group
<1>3. /\ Len(old) \in Nat /\ DOMAIN old = 1..Len(old)
      /\ Range(Ids(old)) = {old[i].entry : i \in 1..Len(old)}
  BY <1>1, IdsAre
<1>4. /\ Len(new) \in Nat /\ DOMAIN new = 1..Len(new) /\ Len(old) <= Len(new)
      /\ Range(Ids(new)) = {new[i].entry : i \in 1..Len(new)}
  BY <1>1, IdsAre DEF Grown, Extended
<1>5. \A i \in 1..Len(new) : i \in 1..Len(old) \/ i \in (Len(old) + 1)..Len(new)
  BY <1>3, <1>4
<1>6. \A i \in 1..Len(old) : i \in 1..Len(new)
  BY <1>3, <1>4
<1>7. Range(Ids(old)) \subseteq Range(Ids(new))
  BY <1>3, <1>4, <1>6 DEF Grown, Extended
<1>8. Range(Ids(new)) \subseteq managers'
  <2> SUFFICES ASSUME NEW i \in 1..Len(new) PROVE new[i].entry \in managers'
    BY <1>4
  <2>1. CASE i \in 1..Len(old)
    <3>1. new[i].entry = old[i].entry /\ old[i].entry \in Range(Ids(old))
      BY <1>3, <2>1 DEF Grown, Extended
    <3> QED BY <3>1
  <2>2. CASE i \in (Len(old) + 1)..Len(new)
    BY <2>2 DEF Grown, Extended
  <2> QED BY <1>5, <2>1, <2>2
<1>9. \A i \in 1..Len(new) : new[i].left => ~new[i].manual
  BY <1>3, <1>5 DEF Grown, Extended
<1>10. IsInjective(Ids(new)) /\ Len(new) \in 1..MaxMembers
  BY <1>3, <1>4 DEF Accepted
<1>11. group'.me \in Maybe(Range(Ids(new)))
  BY <1>2, <1>7 DEF Maybe
<1>12. /\ IsInjective(Ids(group'.members)) /\ Len(group'.members) \in 1..MaxMembers
       /\ Range(Ids(group'.members)) \subseteq managers'
       /\ group'.me \in Maybe(Range(Ids(group'.members)))
       /\ \A i \in DOMAIN group'.members : group'.members[i].left => ~group'.members[i].manual
  BY <1>2, <1>4, <1>8, <1>9, <1>10, <1>11
<1> QED BY <1>2, <1>12 DEF MembersSound, Ids, Maybe, Range

\* The end of a job disturbs nothing else.
LEMMA EndPrepared ==
  ASSUME TypeOK, Prepared, NEW j \in Job, End(j), group # Null => group' # Null
  PROVE  job' \in [Job -> JobState] /\ Prepared'
<1>1. Idle \in JobState
  BY EmptySeq DEF Idle, JobState
<1>2. job' = [job EXCEPT ![j] = Idle] /\ job \in [Job -> JobState]
  BY DEF End, TypeOK
<1>3. \A k \in Job : job'[k] = IF k = j THEN Idle ELSE job[k]
  BY <1>2
<1>4. job' \in [Job -> JobState]
  BY <1>1, <1>2
<1>5. Prepared'
  BY <1>3 DEF Prepared, Idle
<1> QED BY <1>4, <1>5

\* A group that is not there yet is sound.
LEMMA InitIInv == Init => IInv
<1> SUFFICES ASSUME Init PROVE IInv
  OBVIOUS
<1>1. Idle \in JobState
  BY EmptySeq DEF Idle, JobState
<1> QED BY <1>1 DEF Init, IInv, TypeOK, Prepared, MembersSound, Idle

-----------------------------------------------------------------------------
\* A step of a job that has not come to its transaction.
LEMMA JobStepIInv ==
  ASSUME Inputs, IInv, NEW j \in Job,
         \/ Fail(j) \/ Acquire(j) \/ Refused(j) \/ ReadGroup(j)
         \/ \E ids \in Chosen : Ask(j, "create-manual", ids) \/ Ask(j, "add", ids)
         \/ Ask(j, "create-league", <<>>) \/ Ask(j, "sync", <<>>)
         \/ \E rows \in League : Fetch(j, rows)
  PROVE  IInv' /\ UNCHANGED <<group, managers>>
<1>1. /\ UNCHANGED <<group, managers>>
      /\ TypeOK /\ Prepared /\ MembersSound /\ job[j] \in JobState
  BY DEF IInv, TypeOK, Fail, Acquire, Refused, ReadGroup, Ask, Fetch
<1>2. MembersSound' /\ group' \in Group \cup {Null}
  BY <1>1 DEF MembersSound, TypeOK
<1>3. ASSUME NEW state \in JobState, job' = [job EXCEPT ![j] = state],
             state.kind \in {"sync", "add"} => group # Null,
             state.kind \in {"create-manual", "add"} => state.ids # <<>>,
             state.pc = "asked" => state.kind # "none",
             state.pc = "write" => state.ids # <<>>
      PROVE  IInv'
  <2>1. job' \in [Job -> JobState]
    BY <1>1, <1>3 DEF TypeOK
  <2>2. \A k \in Job : job'[k] = IF k = j THEN state ELSE job[k]
    BY <1>1, <1>3 DEF TypeOK
  <2>3. Prepared'
    BY <1>1, <1>3, <2>2 DEF Prepared
  <2> QED BY <1>2, <2>1, <2>3 DEF IInv, TypeOK
<1>4. CASE End(j)
  BY <1>1, <1>2, <1>4, EndPrepared DEF IInv, TypeOK
<1>5. CASE Acquire(j)
  <2> DEFINE pc == CASE job[j].kind = "sync" -> "read"
                     [] job[j].kind = "create-league" -> "standings"
                     [] OTHER -> "write"
             state == [job[j] EXCEPT !.pc = pc]
  <2>1. job[j].pc = "asked" /\ job' = [job EXCEPT ![j] = state]
    BY <1>5 DEF Acquire
  <2>2. pc \in {"read", "standings", "write"}
        /\ (pc = "write" => job[j].kind \in {"none", "create-manual", "add"})
    BY <1>1 DEF JobState
  <2>3. /\ state \in JobState /\ state.pc = pc
        /\ state.kind = job[j].kind /\ state.ids = job[j].ids
    BY <1>1, <2>2 DEF JobState
  <2> HIDE DEF state, pc
  <2> QED BY <1>1, <1>3, <2>1, <2>2, <2>3 DEF Prepared
<1>6. CASE ReadGroup(j) /\ ~End(j)
  <2> DEFINE state == [job[j] EXCEPT !.pc = "standings"]
  <2>1. job' = [job EXCEPT ![j] = state]
    BY <1>6 DEF ReadGroup
  <2>2. /\ state \in JobState /\ state.pc = "standings"
        /\ state.kind = job[j].kind /\ state.ids = job[j].ids
    BY <1>1 DEF JobState
  <2> HIDE DEF state
  <2> QED BY <1>1, <1>3, <2>1, <2>2 DEF Prepared
<1>7. ASSUME NEW rows \in League, Fetch(j, rows), ~End(j) PROVE IInv'
  <2> DEFINE state == [job[j] EXCEPT !.pc = "write", !.ids = Standings(rows)]
  <2>1. job' = [job EXCEPT ![j] = state] /\ rows # <<>>
    BY <1>7 DEF Fetch
  <2>2. Standings(rows) \in Seq(Entry) /\ Standings(rows) # <<>>
    BY <2>1, StandingsList DEF Inputs
  <2>3. /\ state \in JobState /\ state.pc = "write"
        /\ state.kind = job[j].kind /\ state.ids = Standings(rows)
    BY <1>1, <2>2 DEF JobState
  <2> HIDE DEF state
  <2> QED BY <1>1, <1>3, <2>1, <2>2, <2>3 DEF Prepared
<1>8. ASSUME NEW kind \in {"create-league", "create-manual", "add", "sync"},
             NEW ids \in Seq(Entry), Ask(j, kind, ids),
             kind \in {"create-manual", "add"} => ids # <<>>
      PROVE  IInv'
  <2> DEFINE state == [pc |-> "asked", kind |-> kind, ids |-> ids]
  <2>1. job' = [job EXCEPT ![j] = state] /\ (kind \in {"sync", "add"} => group # Null)
    BY <1>8 DEF Ask
  <2>2. state \in JobState
    BY DEF JobState
  <2>3. state.pc = "asked" /\ state.kind = kind /\ state.ids = ids
    OBVIOUS
  <2> HIDE DEF state
  <2> QED BY <1>3, <1>8, <2>1, <2>2, <2>3
<1>9. CASE \E ids \in Chosen : Ask(j, "create-manual", ids) \/ Ask(j, "add", ids)
  <2>1. PICK ids \in Chosen : Ask(j, "create-manual", ids) \/ Ask(j, "add", ids)
    BY <1>9
  <2>2. ids \in Seq(Entry) /\ ids # <<>>
    BY DEF Inputs
  <2>3. CASE Ask(j, "create-manual", ids)
    <3>1. "create-manual" \in {"create-league", "create-manual", "add", "sync"}
      OBVIOUS
    <3> QED BY <1>1, <1>8, <2>2, <2>3, <3>1
  <2>4. CASE Ask(j, "add", ids)
    <3>1. "add" \in {"create-league", "create-manual", "add", "sync"}
      OBVIOUS
    <3> QED BY <1>1, <1>8, <2>2, <2>4, <3>1
  <2> QED BY <2>1, <2>3, <2>4
<1>10. CASE Ask(j, "create-league", <<>>) \/ Ask(j, "sync", <<>>)
  <2>1. <<>> \in Seq(Entry)
    BY EmptySeq
  <2>2. CASE Ask(j, "create-league", <<>>)
    <3>1. /\ "create-league" \in {"create-league", "create-manual", "add", "sync"}
          /\ "create-league" \notin {"create-manual", "add"}
      OBVIOUS
    <3> QED BY <1>1, <1>8, <2>1, <2>2, <3>1
  <2>3. CASE Ask(j, "sync", <<>>)
    <3>1. /\ "sync" \in {"create-league", "create-manual", "add", "sync"}
          /\ "sync" \notin {"create-manual", "add"}
      OBVIOUS
    <3> QED BY <1>1, <1>8, <2>1, <2>3, <3>1
  <2> QED BY <1>10, <2>2, <2>3
<1>11. IInv'
  BY <1>4, <1>5, <1>6, <1>7, <1>9, <1>10 DEF Fail, Refused
<1> QED BY <1>1, <1>11

\* The transaction of a creation.
LEMMA CreateIInv ==
  ASSUME Inputs, IInv, NEW j \in Job, NEW me \in Maybe(Mine), CreateGroup(j, me)
  PROVE  IInv' /\ group = Null
<1> DEFINE ids == job[j].ids
           league == job[j].kind = "create-league"
           members == NewMembers(ids, ~league)
<1>1. /\ group = Null /\ job[j].pc = "write" /\ Accepted(members) /\ me \in Maybe(Range(ids))
      /\ group' = [active |-> TRUE, league |-> league, me |-> me, members |-> members]
      /\ managers' = managers \cup Range(ids) /\ End(j)
  BY DEF CreateGroup
<1>2. ids \in Seq(Entry) /\ ids # <<>>
  BY <1>1 DEF IInv, TypeOK, JobState, Prepared
<1>3. league \in BOOLEAN /\ (~league) \in BOOLEAN
  <2>1. CASE job[j].kind = "create-league"
    BY <2>1
  <2>2. CASE job[j].kind # "create-league"
    BY <2>2
  <2> QED BY <2>1, <2>2
<1>4. /\ members \in Seq(Member) /\ Len(members) = Len(ids)
      /\ \A i \in 1..Len(ids) : members[i] = NewMember(ids[i], ~league)
  BY <1>2, <1>3, NewMembersAre
<1>5. Len(ids) \in Nat \ {0} /\ DOMAIN ids = 1..Len(ids) /\ Range(ids) \subseteq Entry
  BY <1>2, EmptySeq, LenProperties, RangeOfSeq
<1> HIDE DEF members, ids, league
<1>6. /\ DOMAIN members = 1..Len(ids)
      /\ Range(Ids(members)) = {members[i].entry : i \in 1..Len(ids)}
  BY <1>4, IdsAre
<1>7. \A i \in 1..Len(ids) : members[i].entry = ids[i] /\ ~members[i].left
  <2>1. \A e, manual : NewMember(e, manual).entry = e /\ ~NewMember(e, manual).left
    BY DEF NewMember
  <2> QED BY <1>4, <2>1
<1>8. Range(Ids(members)) = Range(ids)
  BY <1>5, <1>6, <1>7 DEF Range
<1>9. group' \in Group
  BY <1>1, <1>3, <1>4, <1>5 DEF Group, Maybe
<1>10. group' # Null
  BY <1>9 DEF Inputs
<1>11. job' \in [Job -> JobState] /\ Prepared'
  BY <1>1, <1>10, EndPrepared DEF IInv
<1>12. /\ group'.members = members /\ group'.me = me
  BY <1>1
<1>13. Len(members) \in 1..MaxMembers /\ IsInjective(Ids(members))
  BY <1>1, <1>4, <1>5 DEF Accepted, Inputs
<1>14. MembersSound'
  <2>1. /\ IsInjective(Ids(group'.members)) /\ Len(group'.members) \in 1..MaxMembers
        /\ Range(Ids(group'.members)) \subseteq managers'
        /\ group'.me \in Maybe(Range(Ids(group'.members)))
        /\ \A i \in DOMAIN group'.members :
             group'.members[i].left => ~group'.members[i].manual
    BY <1>1, <1>6, <1>7, <1>8, <1>12, <1>13
  <2> QED BY <2>1 DEF MembersSound, Ids, Maybe, Range
<1> QED BY <1>1, <1>9, <1>11, <1>14 DEF IInv, TypeOK

\* The transaction of a sync or of an addition.
LEMMA JobWrites ==
  ASSUME Inputs, IInv, NEW j \in Job, group # Null, holder = j, NEW new,
         Grown(group.members, new, job[j].ids), Accepted(new),
         group' = [group EXCEPT !.members = new],
         managers' = managers \cup Range(job[j].ids), End(j)
  PROVE  IInv' /\ KeepsMembers
<1> DEFINE old == group.members
           ids == job[j].ids
<1>1. /\ group \in Group /\ TypeOK /\ Prepared /\ MembersSound /\ ids \in Seq(Entry)
  BY DEF IInv, TypeOK, JobState
<1>2. /\ Len(old) \in 1..MaxMembers /\ MaxMembers \in Nat
      /\ Range(Ids(old)) \subseteq managers /\ group.me \in Maybe(Range(Ids(old)))
      /\ \A i \in DOMAIN old : old[i].left => ~old[i].manual
  BY <1>1 DEF MembersSound, Inputs
<1>3. Len(old) >= 1
  BY <1>2
<1>4. group' \in Group /\ MembersSound'
  BY <1>1, <1>2, <1>3, GrownIsSound
<1>5. group' # Null
  BY <1>4 DEF Inputs
<1>6. job' \in [Job -> JobState] /\ Prepared'
  BY <1>1, <1>5, EndPrepared
<1>7. IInv'
  BY <1>4, <1>6 DEF IInv, TypeOK
<1>8. /\ group'.members = new /\ old \in Seq(Member)
      /\ DOMAIN old = 1..Len(old) /\ holder' = Null
  BY <1>1, LenProperties DEF Group, End
<1>9. IsPrefix(Ids(old), Ids(new))
  BY <1>8, ExtendedPrefix DEF Grown
<1>10. \A i \in DOMAIN old : new[i].manual = old[i].manual /\ new[i].excluded = old[i].excluded
  BY <1>8 DEF Grown, Extended
<1>11. [i \in DOMAIN old |-> new[i].excluded] = [i \in DOMAIN old |-> old[i].excluded]
  BY <1>10
<1>12. KeepsMembers
  BY <1>8, <1>9, <1>10, <1>11 DEF KeepsMembers
<1> QED BY <1>7, <1>12

\* An edit of the administrator, who has no lease.
LEMMA EditIs ==
  ASSUME Inputs, IInv, NEW new \in Group, Edit(new),
         Extended(group.members, new.members), Len(new.members) = Len(group.members),
         \A i \in 1..Len(group.members) : new.members[i].left = group.members[i].left,
         new.me \in Maybe(Range(Ids(group.members))),
         group.active \/ new.members = group.members
  PROVE  IInv' /\ KeepsMembers
<1> DEFINE old == group.members
           now == new.members
<1>1. /\ group \in Group /\ group # Null /\ group' = new
      /\ UNCHANGED <<managers, holder, job>>
      /\ TypeOK /\ Prepared /\ MembersSound
  BY DEF Edit, IInv, TypeOK
<1>2. /\ old \in Seq(Member) /\ now \in Seq(Member)
      /\ Len(old) \in Nat /\ DOMAIN old = 1..Len(old) /\ DOMAIN now = 1..Len(old)
  BY <1>1, LenProperties DEF Group
<1>3. \A i \in 1..Len(old) :
        /\ now[i].entry = old[i].entry /\ now[i].manual = old[i].manual
        /\ now[i].left = old[i].left
  BY DEF Grown, Extended
<1>4. Ids(now) = Ids(old)
  BY <1>2, <1>3 DEF Ids
<1>5. /\ IsInjective(Ids(now)) /\ Len(now) \in 1..MaxMembers
      /\ Range(Ids(now)) \subseteq managers /\ new.me \in Maybe(Range(Ids(now)))
      /\ \A i \in DOMAIN now : now[i].left => ~now[i].manual
  BY <1>1, <1>2, <1>3, <1>4 DEF MembersSound
<1>6. MembersSound'
  <2>1. /\ IsInjective(Ids(group'.members)) /\ Len(group'.members) \in 1..MaxMembers
        /\ Range(Ids(group'.members)) \subseteq managers'
        /\ group'.me \in Maybe(Range(Ids(group'.members)))
        /\ \A i \in DOMAIN group'.members :
             group'.members[i].left => ~group'.members[i].manual
    BY <1>1, <1>5
  <2> QED BY <2>1 DEF MembersSound, Ids, Maybe, Range
<1>7. group' # Null
  BY <1>1 DEF Inputs
<1>8. TypeOK' /\ Prepared'
  BY <1>1, <1>7 DEF TypeOK, Prepared
<1>9. IsPrefix(Ids(old), Ids(now))
  BY <1>2, ExtendedPrefix
<1>10. [i \in DOMAIN old |-> now[i].left] = [i \in DOMAIN old |-> old[i].left]
  BY <1>2, <1>3
<1>11. [i \in DOMAIN old |-> now[i].excluded] # [i \in DOMAIN old |-> old[i].excluded]
         => group.active /\ job' = job
  BY <1>1
<1>12. KeepsMembers
  BY <1>1, <1>2, <1>3, <1>9, <1>10, <1>11 DEF KeepsMembers
<1> QED BY <1>6, <1>8, <1>12 DEF IInv

\* Members that are left as they are.
LEMMA SameGrown ==
  ASSUME NEW old \in Seq(Member)
  PROVE  Grown(old, old, <<>>)
<1>1. Len(old) \in Nat /\ \A i \in (Len(old) + 1)..Len(old) : FALSE
  BY LenProperties
<1> QED BY <1>1 DEF Grown, Extended

\* The administrator's edits (groupService.js).
LEMMA EditsIInv ==
  ASSUME Inputs, IInv,
         \/ \E i \in 1..MaxMembers, excluded \in BOOLEAN : UpdateMember(i, excluded)
         \/ \E me \in Maybe(Mine) : SetMe(me)
         \/ SwitchToManual
         \/ \E open \in BOOLEAN : Archive(open)
  PROVE  IInv' /\ KeepsMembers
<1> DEFINE old == group.members
<1>1. group \in Group /\ group.me \in Maybe(Range(Ids(old))) /\ group # Null
  BY DEF IInv, TypeOK, MembersSound, UpdateMember, SetMe, SwitchToManual, Archive
<1>2. /\ old \in Seq(Member) /\ Len(old) \in Nat /\ DOMAIN old = 1..Len(old)
      /\ \A i \in 1..Len(old) : old[i] \in Member
      /\ Extended(old, old)
  BY <1>1, LenProperties, SameGrown DEF Group, Grown
<1>3. ASSUME NEW new \in Group, Edit(new), new.members = old, new.me \in Maybe(Range(Ids(old)))
      PROVE  IInv' /\ KeepsMembers
  BY <1>2, <1>3, EditIs
<1>4. ASSUME NEW i \in 1..MaxMembers, NEW excluded \in BOOLEAN, UpdateMember(i, excluded)
      PROVE  IInv' /\ KeepsMembers
  <2> DEFINE member == [old[i] EXCEPT !.excluded = excluded]
             now == [old EXCEPT ![i] = member]
             new == [group EXCEPT !.members = now]
  <2>1. group.active /\ i \in 1..Len(old) /\ Edit(new)
    BY <1>2, <1>4 DEF UpdateMember
  <2>2. /\ member \in Member /\ member.entry = old[i].entry
        /\ member.manual = old[i].manual /\ member.left = old[i].left
    BY <1>2, <2>1 DEF Member
  <2> HIDE DEF member
  <2>3. /\ now \in Seq(Member) /\ Len(now) = Len(old)
        /\ \A k \in 1..Len(old) : now[k] = IF k = i THEN member ELSE old[k]
    BY <1>2, <2>1, <2>2, ExceptSeq
  <2> HIDE DEF now
  <2>4. new \in Group /\ new.members = now /\ new.me = group.me
    BY <1>1, <2>3 DEF Group
  <2>5. \A k \in 1..Len(old) : now[k].left = old[k].left
    BY <2>2, <2>3
  <2>6. Extended(old, now)
    BY <1>2, <2>2, <2>3 DEF Extended
  <2> HIDE DEF new
  <2> QED BY <1>1, <2>1, <2>3, <2>4, <2>5, <2>6, EditIs
<1>5. ASSUME NEW me \in Maybe(Mine), SetMe(me) PROVE IInv' /\ KeepsMembers
  <2> DEFINE new == [group EXCEPT !.me = me]
  <2>1. Edit(new) /\ me \in Maybe(Range(Ids(old)))
    BY <1>5 DEF SetMe
  <2>2. Range(Ids(old)) \subseteq Entry
    BY <1>2, IdsAre, RangeOfSeq
  <2>3. new \in Group /\ new.members = old /\ new.me = me
    BY <1>1, <2>1, <2>2 DEF Group, Maybe
  <2> HIDE DEF new
  <2> QED BY <1>3, <2>1, <2>3
<1>6. CASE SwitchToManual
  <2> DEFINE new == [group EXCEPT !.league = FALSE]
  <2>1. Edit(new)
    BY <1>6 DEF SwitchToManual
  <2>2. new \in Group /\ new.members = old /\ new.me = group.me
    BY <1>1 DEF Group
  <2> HIDE DEF new
  <2> QED BY <1>1, <1>3, <2>1, <2>2
<1>7. ASSUME NEW open \in BOOLEAN, Archive(open) PROVE IInv' /\ KeepsMembers
  <2> DEFINE new == [group EXCEPT !.active = open]
  <2>1. Edit(new)
    BY <1>7 DEF Archive
  <2>2. new \in Group /\ new.members = old /\ new.me = group.me
    BY <1>1 DEF Group
  <2> HIDE DEF new
  <2> QED BY <1>1, <1>3, <2>1, <2>2
<1> QED BY <1>4, <1>5, <1>6, <1>7

-----------------------------------------------------------------------------
\* Every step keeps the invariant, and every member.
LEMMA NextIInv ==
  ASSUME Inputs, IInv, [Next]_groupVars
  PROVE  IInv' /\ (UNCHANGED groupVars \/ KeepsMembers)
<1>0. TypeOK /\ Prepared /\ MembersSound
  BY DEF IInv
<1>1. CASE UNCHANGED groupVars
  <2>1. MembersSound'
    BY <1>0, <1>1 DEF groupVars, MembersSound
  <2> QED BY <1>0, <1>1, <2>1 DEF groupVars, IInv, TypeOK, Prepared
<1>2. ASSUME UNCHANGED group PROVE KeepsMembers
  <2> SUFFICES ASSUME group # Null PROVE KeepsMembers
    BY DEF KeepsMembers
  <2>1. group \in Group
    BY <1>0 DEF TypeOK
  <2>2. group.members \in Seq(Member)
    BY <2>1 DEF Group
  <2>3. IsPrefix(Ids(group.members), Ids(group.members))
    BY <2>2, SameGrown, ExtendedPrefix DEF Grown
  <2> QED BY <1>2, <2>3 DEF KeepsMembers
<1>3. ASSUME NEW j \in Job, Expire(j) PROVE IInv' /\ KeepsMembers
  <2>1. UNCHANGED <<group, managers, job>>
    BY <1>3 DEF Expire
  <2>2. MembersSound'
    BY <1>0, <2>1 DEF MembersSound
  <2>3. TypeOK' /\ Prepared'
    BY <1>0, <2>1 DEF TypeOK, Prepared
  <2> QED BY <1>2, <2>1, <2>2, <2>3 DEF IInv
<1>4. ASSUME NEW j \in Job,
             \/ Fail(j) \/ Acquire(j) \/ Refused(j) \/ ReadGroup(j)
             \/ \E ids \in Chosen : Ask(j, "create-manual", ids) \/ Ask(j, "add", ids)
             \/ Ask(j, "create-league", <<>>) \/ Ask(j, "sync", <<>>)
             \/ \E rows \in League : Fetch(j, rows)
      PROVE  IInv' /\ KeepsMembers
  <2>1. IInv' /\ UNCHANGED <<group, managers>>
    BY <1>4, JobStepIInv
  <2> QED BY <1>2, <2>1
<1>5. ASSUME NEW j \in Job, NEW me \in Maybe(Mine), CreateGroup(j, me)
      PROVE  IInv' /\ KeepsMembers
  BY <1>5, CreateIInv DEF KeepsMembers
<1>6. ASSUME NEW j \in Job, T2(j) \/ AddMembers(j) PROVE IInv' /\ KeepsMembers
  <2>1. group # Null /\ holder = j
    BY <1>0, <1>6 DEF Prepared, T2, AddMembers
  <2>2. group \in Group /\ job[j] \in JobState
    BY <1>0, <2>1 DEF TypeOK
  <2>3. group.members \in Seq(Member) /\ job[j].ids \in Seq(Entry)
    BY <2>2 DEF Group, JobState
  <2>4. CASE T2(j)
    <3> DEFINE new == MergeLeagueMembers(group.members, job[j].ids)
    <3>1. /\ Accepted(new) /\ group' = [group EXCEPT !.members = new]
          /\ managers' = managers \cup Range(job[j].ids) /\ End(j)
      BY <2>4 DEF T2
    <3>2. Grown(group.members, new, job[j].ids)
      BY <2>3, MergeGrows
    <3> HIDE DEF new
    <3> QED BY <2>1, <3>1, <3>2, JobWrites
  <2>5. CASE AddMembers(j)
    <3> DEFINE new == group.members \o NewMembers(job[j].ids, TRUE)
    <3>1. /\ Accepted(new) /\ group' = [group EXCEPT !.members = new]
          /\ managers' = managers \cup Range(job[j].ids) /\ End(j)
      BY <2>5 DEF AddMembers
    <3>2. Grown(group.members, new, job[j].ids)
      BY <2>3, AdditionGrows
    <3> HIDE DEF new
    <3> QED BY <2>1, <3>1, <3>2, JobWrites
  <2> QED BY <1>6, <2>4, <2>5
<1>7. CASE \/ \E i \in 1..MaxMembers, excluded \in BOOLEAN : UpdateMember(i, excluded)
           \/ \E me \in Maybe(Mine) : SetMe(me)
           \/ SwitchToManual
           \/ \E open \in BOOLEAN : Archive(open)
  BY <1>7, EditsIInv
<1> QED BY <1>1, <1>3, <1>4, <1>5, <1>6, <1>7 DEF Next

\* What db:check asks of a group (I1, I3), whatever jobs, stalls and edits race.
THEOREM MembersStaySound ==
  ASSUME Inputs PROVE Spec => []MembersSound
<1>1. Init => IInv
  BY InitIInv
<1>2. IInv /\ [Next]_groupVars => IInv'
  BY NextIInv
<1>3. IInv => MembersSound
  BY DEF IInv
<1> QED BY <1>1, <1>2, <1>3, PTL DEF Spec

\* "Members are never removed", and neither jobs nor edits undo the other's.
THEOREM MembersAreKept ==
  ASSUME Inputs PROVE Spec => MembersKept
<1>1. Init => IInv
  BY InitIInv
<1>2. IInv /\ [Next]_groupVars => IInv' /\ [KeepsMembers]_groupVars
  BY NextIInv
<1> QED BY <1>1, <1>2, PTL DEF Spec, MembersKept

-----------------------------------------------------------------------------
(* Planner.                                                                *)

\* The limits are numbers, and every player has a position.
Rules ==
  /\ \A p \in Player : PositionOf[p] \in Position
  /\ \A pos \in Position : Shape[pos] \in Nat
  /\ ClubLimit \in Nat

\* A squad within the limits of positions and clubs.
Lawful(S) ==
  /\ S \in SUBSET Player /\ IsFiniteSet(S)
  /\ \A pos \in Position : Cardinality(Plan!At(pos, S)) <= Shape[pos]
  /\ \A p \in S : Cardinality(Plan!OfClub(p, S)) <= ClubLimit

Draft ==
  {d \in [squad : SUBSET Player, xi : SUBSET Player, budget : Budget] :
     Lawful(d.squad) /\ d.xi \subseteq d.squad}

\* What the browser keeps is what the page shows, or it keeps nothing.
Saved == storage = Null \/ storage = [drafts |-> drafts, active |-> active]

\* The inductive invariant.
PlannerIInv ==
  /\ drafts \in Seq(Draft)
  /\ active \in 0..Len(drafts) /\ (active = 0 => drafts = <<>>)
  /\ Saved

\* The planner counts as everybody does.
LEMMA SameCount == \A S : Plan!Cardinality(S) = Cardinality(S)
BY DEF Plan!Cardinality, Cardinality

\* Who is lined up is of the squad.
LEMMA BestXiOfSquad ==
  ASSUME NEW S
  PROVE  Plan!BestXi(S) \subseteq S
BY DEF Plan!BestXi

\* Nobody is of any position or club in a squad of nobody.
LEMMA NobodyLawful ==
  ASSUME Rules
  PROVE  Lawful({})
<1>1. IsFiniteSet({}) /\ Cardinality({}) = 0
  BY FS_EmptySet
<1>2. \A pos \in Position : Plan!At(pos, {}) = {}
  BY DEF Plan!At
<1> QED BY <1>1, <1>2 DEF Lawful, Rules

\* Fewer players break no limit.
LEMMA FewerLawful ==
  ASSUME Rules, NEW S, Lawful(S), NEW T \in SUBSET S
  PROVE  Lawful(T)
<1>1. IsFiniteSet(S) /\ IsFiniteSet(T)
  BY FS_Subset DEF Lawful
<1>2. ASSUME NEW A, NEW B, A \subseteq B, B \subseteq S
      PROVE  Cardinality(A) <= Cardinality(B) /\ Cardinality(A) \in Nat /\ Cardinality(B) \in Nat
  <2>1. IsFiniteSet(B)
    BY <1>1, <1>2, FS_Subset
  <2>2. IsFiniteSet(A) /\ Cardinality(A) <= Cardinality(B)
    BY <1>2, <2>1, FS_Subset
  <2> QED BY <2>1, <2>2, FS_CardinalityType
<1>3. ASSUME NEW pos \in Position
      PROVE  Cardinality(Plan!At(pos, T)) <= Shape[pos]
  <2>1. Plan!At(pos, T) \subseteq Plan!At(pos, S) /\ Plan!At(pos, S) \subseteq S
    BY DEF Plan!At
  <2>2. Cardinality(Plan!At(pos, S)) <= Shape[pos] /\ Shape[pos] \in Nat
    BY DEF Lawful, Rules
  <2> QED BY <1>2, <2>1, <2>2
<1>4. ASSUME NEW p \in T
      PROVE  Cardinality(Plan!OfClub(p, T)) <= ClubLimit
  <2>1. Plan!OfClub(p, T) \subseteq Plan!OfClub(p, S) /\ Plan!OfClub(p, S) \subseteq S
    BY DEF Plan!OfClub
  <2>2. Cardinality(Plan!OfClub(p, S)) <= ClubLimit /\ ClubLimit \in Nat
    BY DEF Lawful, Rules
  <2> QED BY <1>2, <2>1, <2>2
<1> QED BY <1>1, <1>3, <1>4 DEF Lawful

\* A player that nothing blocks breaks no limit.
LEMMA OneMoreLawful ==
  ASSUME Rules, NEW S, Lawful(S), NEW p \in Player, ~Plan!Blocked(S, p)
  PROVE  Lawful(S \cup {p})
<1>1. S \in SUBSET Player /\ IsFiniteSet(S) /\ p \notin S
  BY DEF Lawful, Plan!Blocked
<1>2. IsFiniteSet(S \cup {p})
  BY <1>1, FS_AddElement
<1>3. ASSUME NEW A \in SUBSET S
      PROVE  Cardinality(A \cup {p}) = Cardinality(A) + 1 /\ Cardinality(A) \in Nat
  <2>1. IsFiniteSet(A) /\ p \notin A
    BY <1>1, FS_Subset
  <2> QED BY <2>1, FS_AddElement, FS_CardinalityType
<1>4. ASSUME NEW pos \in Position
      PROVE  Cardinality(Plan!At(pos, S \cup {p})) <= Shape[pos]
  <2>1. Cardinality(Plan!At(pos, S)) <= Shape[pos] /\ Shape[pos] \in Nat
        /\ Plan!At(pos, S) \in SUBSET S
    BY DEF Lawful, Rules, Plan!At
  <2>2. CASE PositionOf[p] = pos
    <3>1. Plan!At(pos, S \cup {p}) = Plan!At(pos, S) \cup {p}
      BY <2>2 DEF Plan!At
    <3>2. ~(Cardinality(Plan!At(pos, S)) >= Shape[pos])
      BY <2>2, SameCount DEF Plan!Blocked
    <3> QED BY <1>3, <2>1, <3>1, <3>2
  <2>3. CASE PositionOf[p] # pos
    <3>1. Plan!At(pos, S \cup {p}) = Plan!At(pos, S)
      BY <2>3 DEF Plan!At
    <3> QED BY <2>1, <3>1
  <2> QED BY <2>2, <2>3
<1>5. ASSUME NEW q \in S \cup {p}
      PROVE  Cardinality(Plan!OfClub(q, S \cup {p})) <= ClubLimit
  <2>1. CASE ClubOf[p] = ClubOf[q]
    <3>1. Plan!OfClub(q, S \cup {p}) = Plan!OfClub(p, S) \cup {p} /\ Plan!OfClub(p, S) \in SUBSET S
      BY <2>1 DEF Plan!OfClub
    <3>2. ~(Cardinality(Plan!OfClub(p, S)) >= ClubLimit) /\ ClubLimit \in Nat
      BY SameCount DEF Plan!Blocked, Rules
    <3> QED BY <1>3, <3>1, <3>2
  <2>2. CASE ClubOf[p] # ClubOf[q]
    <3>1. Plan!OfClub(q, S \cup {p}) = Plan!OfClub(q, S) /\ q \in S
      BY <2>2 DEF Plan!OfClub
    <3> QED BY <3>1 DEF Lawful
  <2> QED BY <2>1, <2>2
<1> QED BY <1>1, <1>2, <1>4, <1>5 DEF Lawful

\* A change of a draft that leaves it lawful keeps the invariant.
LEMMA UpdateKeeps ==
  ASSUME PlannerIInv, active # 0, NEW d \in Draft, Plan!Update(d)
  PROVE  PlannerIInv'
<1>1. drafts' = [drafts EXCEPT ![active] = d] /\ active' = active
  BY DEF Plan!Update, Plan!Keep
<1>2. drafts' \in Seq(Draft) /\ Len(drafts') = Len(drafts)
  BY <1>1 DEF PlannerIInv
<1>3. Saved'
  BY <1>1 DEF Plan!Update, Plan!Keep, Saved
<1>4. active' \in 0..Len(drafts') /\ active' # 0
  BY <1>1, <1>2 DEF PlannerIInv
<1> QED BY <1>2, <1>3, <1>4 DEF PlannerIInv

\* What is saved is what is shown.
LEMMA KeepIs ==
  ASSUME NEW newDrafts, NEW newActive, Plan!Keep(newDrafts, newActive)
  PROVE  drafts' = newDrafts /\ active' = newActive /\ Saved'
BY DEF Plan!Keep, Saved

\* Every step keeps the invariant.
LEMMA NextPlanner ==
  ASSUME Rules, Lawful(MySquad), PlannerIInv, [Plan!Next]_(Plan!plannerVars)
  PROVE  PlannerIInv'
<1> DEFINE Cur == drafts[active]
<1>1. active # 0 => Cur \in Draft
  BY DEF PlannerIInv
<1>2. ASSUME active # 0
      PROVE  /\ Cur \in [squad : SUBSET Player, xi : SUBSET Player, budget : Budget]
             /\ Lawful(Cur.squad) /\ Cur.xi \subseteq Cur.squad
             /\ IsFiniteSet(Cur.squad)
  BY <1>1, <1>2 DEF Draft, Lawful
<1>3. ASSUME NEW squad \in {MySquad, {}}, NEW budget \in Budget, Plan!Create(squad, budget)
      PROVE  PlannerIInv'
  <2> DEFINE d == [squad |-> squad, xi |-> Plan!BestXi(squad), budget |-> budget]
  <2>1. Lawful(squad)
    BY <1>3, NobodyLawful
  <2>2. squad \in SUBSET Player /\ Plan!BestXi(squad) \subseteq squad
    BY <2>1, BestXiOfSquad DEF Lawful
  <2>3. d \in Draft
    BY <1>3, <2>1, <2>2 DEF Draft
  <2>4. Plan!Keep(Append(drafts, d), Len(drafts) + 1)
    BY <1>3 DEF Plan!Create
  <2> HIDE DEF d
  <2>5. drafts' = Append(drafts, d) /\ active' = Len(drafts) + 1 /\ Saved'
    BY <2>4, KeepIs
  <2>6. drafts' \in Seq(Draft) /\ Len(drafts') = Len(drafts) + 1 /\ Len(drafts) \in Nat
    BY <2>3, <2>5 DEF PlannerIInv
  <2> QED BY <2>5, <2>6 DEF PlannerIInv
<1>4. CASE Plan!RemoveDraft
  <2> DEFINE rest == SubSeq(drafts, 1, active - 1) \o SubSeq(drafts, active + 1, Len(drafts))
  <2>1. active # 0 /\ Plan!Keep(rest, IF rest = <<>> THEN 0 ELSE 1)
    BY <1>4 DEF Plan!RemoveDraft, Plan!RemoveAt
  <2>2. drafts' = rest /\ active' = (IF rest = <<>> THEN 0 ELSE 1) /\ Saved'
    <3> DEFINE first == IF rest = <<>> THEN 0 ELSE 1
    <3>1. Plan!Keep(rest, first)
      BY <2>1
    <3> HIDE DEF rest, first
    <3>2. drafts' = rest /\ active' = first /\ Saved'
      BY <3>1, KeepIs
    <3> QED BY <3>2 DEF first
  <2>3. active \in 1..Len(drafts) /\ drafts \in Seq(Draft)
    BY <2>1 DEF PlannerIInv
  <2>4. SubSeq(drafts, 1, active - 1) \in Seq(Draft) /\ SubSeq(drafts, active + 1, Len(drafts)) \in Seq(Draft)
    BY <2>3
  <2>5. rest \in Seq(Draft)
    BY <2>4
  <2> HIDE DEF rest
  <2>6. rest # <<>> => Len(rest) >= 1
    BY <2>5
  <2>7. rest = <<>> => Len(rest) = 0
    BY <2>5
  <2>8. Len(rest) \in Nat
    BY <2>5
  <2> QED BY <2>2, <2>5, <2>6, <2>7, <2>8 DEF PlannerIInv
<1>5. ASSUME NEW p \in Player, Plan!Add(p)
      PROVE  PlannerIInv'
  <2> DEFINE squad == Cur.squad \cup {p}
             xi == IF Cardinality(squad) = Plan!SquadPlayers /\ Cur.xi = {} THEN Plan!BestXi(squad) ELSE Cur.xi
             d == [Cur EXCEPT !.squad = squad, !.xi = xi]
  <2>1. active # 0 /\ ~Plan!Blocked(Cur.squad, p) /\ Plan!Update(d)
    <3> DEFINE full == Plan!Cardinality(squad) = Plan!SquadPlayers /\ Cur.xi = {}
    <3>1. Plan!Cardinality(squad) = Cardinality(squad)
      BY SameCount
    <3>2. xi = IF full THEN Plan!BestXi(squad) ELSE Cur.xi
      BY <3>1
    <3>3. active # 0 /\ ~Plan!Blocked(Cur.squad, p)
          /\ Plan!Update([Cur EXCEPT !.squad = squad, !.xi = IF full THEN Plan!BestXi(squad) ELSE Cur.xi])
      BY <1>5 DEF Plan!Add, Plan!Current
    <3> HIDE DEF full, squad, xi
    <3> QED BY <3>2, <3>3
  <2>2. Lawful(squad)
    BY <1>2, <2>1, OneMoreLawful
  <2>3. xi \subseteq squad
    BY <1>2, <2>1, BestXiOfSquad
  <2>4. squad \in SUBSET Player
    BY <2>2 DEF Lawful
  <2> HIDE DEF squad, xi
  <2>5. d \in [squad : SUBSET Player, xi : SUBSET Player, budget : Budget] /\ d.squad = squad /\ d.xi = xi
    BY <1>2, <2>1, <2>3, <2>4
  <2>6. d \in Draft
    BY <2>2, <2>3, <2>5 DEF Draft
  <2> HIDE DEF d
  <2> QED BY <2>1, <2>6, UpdateKeeps
<1>6. ASSUME NEW p \in Player, Plan!Drop(p)
      PROVE  PlannerIInv'
  <2> DEFINE d == [Cur EXCEPT !.squad = @ \ {p}, !.xi = @ \ {p}]
  <2>1. active # 0 /\ Plan!Update(d)
    BY <1>6 DEF Plan!Drop, Plan!Current
  <2>2. d \in [squad : SUBSET Player, xi : SUBSET Player, budget : Budget]
        /\ d.squad = Cur.squad \ {p} /\ d.xi = Cur.xi \ {p}
    BY <1>2, <2>1
  <2>3. Lawful(d.squad)
    BY <1>2, <2>1, <2>2, FewerLawful
  <2>4. d \in Draft
    BY <1>2, <2>1, <2>2, <2>3 DEF Draft
  <2> HIDE DEF d
  <2> QED BY <2>1, <2>4, UpdateKeeps
<1>7. ASSUME active # 0, NEW xi \in SUBSET Cur.squad, Plan!Update([Cur EXCEPT !.xi = xi])
      PROVE  PlannerIInv'
  <2> DEFINE d == [Cur EXCEPT !.xi = xi]
  <2>1. d \in [squad : SUBSET Player, xi : SUBSET Player, budget : Budget]
        /\ d.squad = Cur.squad /\ d.xi = xi
    BY <1>2, <1>7
  <2>2. d \in Draft
    BY <1>2, <1>7, <2>1 DEF Draft
  <2> QED BY <1>7, <2>2, UpdateKeeps
<1>8. ASSUME NEW p \in Player, Plan!ToggleXi(p)
      PROVE  PlannerIInv'
  <2> DEFINE xi == IF p \in Cur.xi THEN Cur.xi \ {p} ELSE Cur.xi \cup {p}
  <2>1. active # 0 /\ p \in Cur.squad /\ Plan!Update([Cur EXCEPT !.xi = xi])
    BY <1>8 DEF Plan!ToggleXi, Plan!Current
  <2>2. xi \in SUBSET Cur.squad
    BY <1>2, <2>1
  <2> HIDE DEF xi
  <2> QED BY <1>7, <2>1, <2>2
<1>9. CASE Plan!LineUp
  <2>1. active # 0 /\ Plan!Update([Cur EXCEPT !.xi = Plan!BestXi(Cur.squad)])
    BY <1>9 DEF Plan!LineUp, Plan!Current
  <2>2. Plan!BestXi(Cur.squad) \in SUBSET Cur.squad
    BY BestXiOfSquad
  <2> QED BY <1>7, <2>1, <2>2
<1>10. ASSUME NEW budget \in Budget, Plan!SetBudget(budget)
       PROVE  PlannerIInv'
  <2> DEFINE d == [Cur EXCEPT !.budget = budget]
  <2>1. active # 0 /\ Plan!Update(d)
    BY <1>10 DEF Plan!SetBudget, Plan!Current
  <2>2. d \in [squad : SUBSET Player, xi : SUBSET Player, budget : Budget]
        /\ d.squad = Cur.squad /\ d.xi = Cur.xi
    BY <1>2, <2>1
  <2>3. d \in Draft
    BY <1>2, <2>1, <2>2 DEF Draft
  <2> HIDE DEF d
  <2> QED BY <2>1, <2>3, UpdateKeeps
<1>11. ASSUME NEW i \in DOMAIN drafts, Plan!Show(i)
       PROVE  PlannerIInv'
  <2>1. drafts' = drafts /\ active' = i /\ Saved'
    BY <1>11, KeepIs DEF Plan!Show
  <2>2. i \in 1..Len(drafts)
    BY DEF PlannerIInv
  <2> QED BY <2>1, <2>2 DEF PlannerIInv
<1>12. CASE Plan!Reload
  <2> DEFINE kept == IF storage = Null THEN Plan!Nothing ELSE storage
  <2>1. drafts' = kept.drafts /\ active' = kept.active /\ Saved'
    BY <1>12, KeepIs DEF Plan!Reload
  <2>2. \/ kept.drafts = drafts /\ kept.active = active
        \/ kept.drafts = <<>> /\ kept.active = 0
    BY DEF PlannerIInv, Saved, Plan!Nothing
  <2>3. <<>> \in Seq(Draft) /\ Len(<<>>) = 0
    OBVIOUS
  <2>4. CASE kept.drafts = drafts /\ kept.active = active
    BY <2>1, <2>4 DEF PlannerIInv
  <2>5. CASE kept.drafts = <<>> /\ kept.active = 0
    <3>1. drafts' = <<>> /\ active' = 0
      BY <2>1, <2>5
    <3>2. drafts' \in Seq(Draft) /\ Len(drafts') = 0
      BY <2>3, <3>1
    <3> QED BY <2>1, <3>1, <3>2 DEF PlannerIInv
  <2> QED BY <2>2, <2>4, <2>5
<1>13. CASE UNCHANGED Plan!plannerVars
  BY <1>13 DEF Plan!plannerVars, PlannerIInv, Saved
<1> QED
  BY <1>3, <1>4, <1>5, <1>6, <1>8, <1>9, <1>10, <1>11, <1>12, <1>13 DEF Plan!Next

\* The invariant says what the promise does: an eleven that the judge finds
\* nothing wrong with is one of the elevens allowed.
LEMMA DraftIsSound ==
  ASSUME Rules, NEW d \in Draft
  PROVE  /\ d.xi \subseteq d.squad
         /\ Plan!Problems(d) \cap {"too many", "club"} = {}
         /\ Plan!Valid(d) => d.xi \in Plan!Elevens(d.squad)
<1>1. Lawful(d.squad) /\ d.xi \subseteq d.squad /\ d.xi \cap d.squad = d.xi
  BY DEF Draft
<1>2. IsFiniteSet(d.squad)
  BY <1>1 DEF Lawful
<1>3. ASSUME NEW A \in SUBSET d.squad
      PROVE  Cardinality(A) \in Nat
  BY <1>2, <1>3, FS_Subset, FS_CardinalityType
<1>4. \A pos \in Position : ~(Cardinality(Plan!At(pos, d.squad)) > Shape[pos])
  <2> SUFFICES ASSUME NEW pos \in Position
               PROVE  ~(Cardinality(Plan!At(pos, d.squad)) > Shape[pos])
    OBVIOUS
  <2>1. Cardinality(Plan!At(pos, d.squad)) \in Nat
    BY <1>3 DEF Plan!At
  <2> QED BY <1>1, <2>1 DEF Lawful, Rules
<1>5. \A p \in d.squad : ~(Cardinality(Plan!OfClub(p, d.squad)) > ClubLimit)
  <2> SUFFICES ASSUME NEW p \in d.squad
               PROVE  ~(Cardinality(Plan!OfClub(p, d.squad)) > ClubLimit)
    OBVIOUS
  <2>1. Cardinality(Plan!OfClub(p, d.squad)) \in Nat
    BY <1>3 DEF Plan!OfClub
  <2> QED BY <1>1, <2>1 DEF Lawful, Rules
<1>6. "too many" \notin Plan!Problems(d)
  BY <1>4, SameCount DEF Plan!Problems
<1>7. "club" \notin Plan!Problems(d)
  BY <1>5, SameCount DEF Plan!Problems
<1>8. ASSUME Plan!Valid(d)
      PROVE  d.xi \in Plan!Elevens(d.squad)
  <2>1. Cardinality(d.squad) = Plan!SquadPlayers /\ "eleven" \notin Plan!Problems(d)
        /\ "formation" \notin Plan!Problems(d)
    BY <1>8, SameCount DEF Plan!Valid
  <2>2. Cardinality(d.xi) = XiPlayers
    BY <1>1, <2>1, SameCount DEF Plan!Problems
  <2>3. \A pos \in Position : Cardinality(Plan!At(pos, d.xi)) \in XiMin[pos]..XiMax[pos]
    BY <1>1, <2>1, SameCount DEF Plan!Problems
  <2> QED BY <1>1, <2>2, <2>3, SameCount DEF Plan!Elevens
<1> QED BY <1>1, <1>6, <1>7, <1>8

\* Whatever is added, dropped, lined up, removed, saved and loaded again, every
\* draft stays one the editor can finish, and the draft shown exists
\* (pages/Planner.jsx, lib/planner.js).
THEOREM DraftsStaySound ==
  ASSUME Rules, Lawful(MySquad)
  PROVE  Plan!Spec => []Plan!DraftsSound
<1>1. Plan!Init => PlannerIInv
  <2>1. <<>> \in Seq(Draft) /\ Len(<<>>) = 0
    OBVIOUS
  <2> QED BY <2>1 DEF Plan!Init, Plan!Nothing, PlannerIInv, Saved
<1>2. PlannerIInv /\ [Plan!Next]_(Plan!plannerVars) => PlannerIInv'
  BY NextPlanner
<1>3. PlannerIInv => Plan!DraftsSound
  <2> SUFFICES ASSUME PlannerIInv
               PROVE  Plan!DraftsSound
    OBVIOUS
  <2>1. \A i \in DOMAIN drafts : drafts[i] \in Draft
    BY DEF PlannerIInv
  <2> QED BY <2>1, DraftIsSound DEF PlannerIInv, Plan!DraftsSound
<1> QED BY <1>1, <1>2, <1>3, PTL DEF Plan!Spec
=============================================================================

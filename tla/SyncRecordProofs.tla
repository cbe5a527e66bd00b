--------------------------- MODULE SyncRecordProofs ---------------------------
(***************************************************************************)
(* What a sync run leaves behind besides its rows, for every number of     *)
(* calls, managers and runs: a request log that tells of its gaps          *)
(* (RequestLog), and a season that follows the stored rows (Semantics,     *)
(* instantiated here as Season).                                           *)
(***************************************************************************)
EXTENDS RequestLog, SequenceTheorems, FiniteSetTheorems, TLAPS

TypeOK ==
  /\ body \in {"fetching", "flushing", "finished"}
  /\ failed \in BOOLEAN
  /\ call \in [Call -> {"none", "open", "done"}]
  /\ chain \in Seq(Call)
  /\ owed \in Nat
  /\ full \in BOOLEAN
  /\ status \in {"RUNNING", "SUCCESS", "FAILED", "ABANDONED"}
  /\ requests \in Seq(Call)
  /\ warnings \in Seq({"TRUNCATED", "WRITE_FAILED"})
  /\ writeErrors \in Nat

\* A call that completed is in the log, waits for its write, or was lost in a
\* way the run knows of; nobody looks after the log of a run that failed or
\* was abandoned.
Placed ==
  status \in {"RUNNING", "SUCCESS"} =>
    \A c \in Call : call[c] = "done" =>
      \/ c \in Range(requests) \cup Range(chain)
      \/ writeErrors > 0
      \/ "TRUNCATED" \in Range(warnings)

\* What is logged or waits to be is so once, and has completed.
Once ==
  /\ IsInjective(requests) /\ IsInjective(chain)
  /\ Range(requests) \cap Range(chain) = {}
  /\ \A c \in Range(requests) \cup Range(chain) : call[c] = "done"
  /\ Len(requests) <= MaxRequests

\* A push that was refused by a RUNNING run found a full log.
Refused == full => chain # <<>> /\ (status = "RUNNING" => Len(requests) >= MaxRequests)

\* A body that returned waits for every write, and nothing is added to them.
Flushed ==
  /\ body # "fetching" /\ ~failed => owed = Len(chain) /\ \A c \in Call : call[c] # "open"
  /\ status = "SUCCESS" =>
       /\ body = "finished" /\ ~failed /\ owed = 0
       /\ writeErrors > 0 => "WRITE_FAILED" \in Range(warnings)

WarnedOnce ==
  \A i, j \in DOMAIN warnings : warnings[i] = "TRUNCATED" /\ warnings[j] = "TRUNCATED" => i = j

IInv == TypeOK /\ Placed /\ Once /\ Refused /\ Flushed /\ WarnedOnce
-----------------------------------------------------------------------------
\* What a sequence holds when an element is appended.
LEMMA Appended ==
  ASSUME NEW S, NEW s \in Seq(S), NEW e \in S
  PROVE  /\ Append(s, e) \in Seq(S) /\ Len(Append(s, e)) = Len(s) + 1
         /\ \A i \in 1..Len(s) : Append(s, e)[i] = s[i]
         /\ Append(s, e)[Len(s) + 1] = e
         /\ Range(Append(s, e)) = Range(s) \cup {e}
         /\ IsInjective(s) /\ e \notin Range(s) => IsInjective(Append(s, e))
<1> DEFINE t == Append(s, e)
<1>1. /\ t \in Seq(S) /\ Len(t) = Len(s) + 1
      /\ \A i \in 1..Len(s) : t[i] = s[i]
      /\ t[Len(s) + 1] = e
  OBVIOUS
<1>2. Len(s) \in Nat /\ DOMAIN s = 1..Len(s) /\ DOMAIN t = 1..(Len(s) + 1)
  BY <1>1, LenProperties
<1> HIDE DEF t
<1>3. Range(t) = Range(s) \cup {e}
  BY <1>1, <1>2 DEF Range
<1>4. IsInjective(s) /\ e \notin Range(s) => IsInjective(t)
  <2> SUFFICES ASSUME IsInjective(s), e \notin Range(s), NEW i \in DOMAIN t, NEW j \in DOMAIN t,
                      t[i] = t[j]
               PROVE  i = j
    BY DEF IsInjective
  <2>1. CASE i \in DOMAIN s /\ j \in DOMAIN s
    BY <1>1, <1>2, <2>1 DEF IsInjective
  <2>2. CASE i \notin DOMAIN s \/ j \notin DOMAIN s
    BY <1>1, <1>2, <2>2 DEF Range
  <2>3. QED
    BY <2>1, <2>2
<1>5. QED
  BY <1>1, <1>3, <1>4 DEF t

\* What is left of a sequence without its head.
LEMMA Tailed ==
  ASSUME NEW S, NEW s \in Seq(S), s # <<>>
  PROVE  /\ Head(s) \in S /\ Tail(s) \in Seq(S)
         /\ Len(s) > 0 /\ Len(Tail(s)) = Len(s) - 1
         /\ Range(s) = {Head(s)} \cup Range(Tail(s))
         /\ IsInjective(s) => IsInjective(Tail(s)) /\ Head(s) \notin Range(Tail(s))
<1> DEFINE t == Tail(s)
<1>1. /\ Head(s) = s[1] /\ Head(s) \in S /\ t \in Seq(S) /\ Len(t) = Len(s) - 1
      /\ \A i \in 1..Len(t) : t[i] = s[i + 1]
  BY HeadTailProperties
<1>2. /\ Len(s) \in Nat /\ Len(s) > 0 /\ DOMAIN s = 1..Len(s) /\ DOMAIN t = 1..(Len(s) - 1)
  BY <1>1, LenProperties, EmptySeq
<1> HIDE DEF t
<1>3. Range(s) = {Head(s)} \cup Range(t)
  <2>1. ASSUME NEW i \in DOMAIN s
        PROVE  s[i] \in {Head(s)} \cup Range(t)
    <3>1. CASE i = 1
      BY <1>1, <3>1
    <3>2. CASE i # 1
      <4>1. i - 1 \in DOMAIN t /\ t[i - 1] = s[i]
        BY <1>1, <1>2, <3>2
      <4>2. QED
        BY <4>1 DEF Range
    <3>3. QED
      BY <3>1, <3>2
  <2>2. ASSUME NEW i \in DOMAIN t
        PROVE  t[i] \in Range(s)
    <3>1. i + 1 \in DOMAIN s /\ t[i] = s[i + 1]
      BY <1>1, <1>2
    <3>2. QED
      BY <3>1 DEF Range
  <2>3. Head(s) \in Range(s)
    BY <1>1, <1>2 DEF Range
  <2>4. QED
    BY <2>1, <2>2, <2>3 DEF Range
<1>4. IsInjective(s) => IsInjective(t) /\ Head(s) \notin Range(t)
  <2> SUFFICES ASSUME IsInjective(s)
               PROVE  IsInjective(t) /\ Head(s) \notin Range(t)
    OBVIOUS
  <2>1. ASSUME NEW i \in DOMAIN t
        PROVE  i + 1 \in DOMAIN s /\ t[i] = s[i + 1] /\ i + 1 # 1
    BY <1>1, <1>2
  <2>2. IsInjective(t)
    BY <1>2, <2>1 DEF IsInjective
  <2>3. Head(s) \notin Range(t)
    BY <1>1, <1>2, <2>1 DEF IsInjective, Range
  <2>4. QED
    BY <2>2, <2>3
<1>5. QED
  BY <1>1, <1>2, <1>3, <1>4 DEF t

\* What is owed after a write.
LEMMA MaxZero == ASSUME NEW n \in Int PROVE Max({0, n}) = IF n > 0 THEN n ELSE 0
<1>1. \E x \in {0, n} : \A y \in {0, n} : x >= y
  OBVIOUS
<1>2. /\ Max({0, n}) \in {0, n}
      /\ \A y \in {0, n} : Max({0, n}) >= y
  BY <1>1 DEF Max
<1>3. QED
  BY <1>2

\* A write that ends keeps what the flush relies on.
LEMMA WrittenStep ==
  ASSUME TypeOK, chain # <<>>, Written
  PROVE  /\ chain' \in Seq(Call) /\ Len(chain') = Len(chain) - 1
         /\ Range(chain) = {Head(chain)} \cup Range(chain')
         /\ Head(chain) \in Call
         /\ IsInjective(chain) => IsInjective(chain') /\ Head(chain) \notin Range(chain')
         /\ owed' \in Nat
         /\ owed = Len(chain) => owed' = Len(chain')
         /\ Len(chain) > 0
         /\ full' = FALSE
<1>1. owed' = IF owed - 1 > 0 THEN owed - 1 ELSE 0
  BY MaxZero DEF TypeOK, Written
<1>2. Len(chain) \in Nat
  BY LenProperties DEF TypeOK
<1>3. QED
  BY <1>1, <1>2, Tailed DEF TypeOK, Written

\* The initial state satisfies the invariant.
LEMMA InitIInv == MaxRequests \in Nat /\ Init => IInv
<1> SUFFICES ASSUME MaxRequests \in Nat, Init
             PROVE  IInv
  OBVIOUS
<1>1. <<>> \in Seq(Call) /\ <<>> \in Seq({"TRUNCATED", "WRITE_FAILED"}) /\ Len(<<>>) = 0 /\ DOMAIN <<>> = {}
  OBVIOUS
<1>2. TypeOK
  BY <1>1 DEF Init, TypeOK
<1>3. Placed /\ Refused /\ Flushed /\ WarnedOnce
  BY <1>1 DEF Init, Placed, Refused, Flushed, WarnedOnce
<1>4. Once
  BY <1>1 DEF Init, Once, IsInjective, Range
<1>5. QED
  BY <1>2, <1>3, <1>4 DEF IInv

\* Every step keeps the invariant.
LEMMA StepKeepsIInv == ASSUME MaxRequests \in Nat PROVE IInv /\ [Next]_logVars => IInv'
<1> SUFFICES ASSUME IInv, [Next]_logVars
             PROVE  IInv'
  OBVIOUS
<1> USE DEF IInv
<1>a. Len(requests) \in Nat /\ Len(chain) \in Nat
  BY LenProperties DEF TypeOK
<1>1. ASSUME NEW c \in Call, Fetch(c)
      PROVE  IInv'
  BY <1>1 DEF Fetch, TypeOK, Placed, Once, Refused, Flushed, WarnedOnce
<1>2. ASSUME NEW c \in Call, Complete(c)
      PROVE  IInv'
  <2>1. /\ chain' \in Seq(Call) /\ chain' # <<>> /\ Range(chain') = Range(chain) \cup {c}
        /\ IsInjective(chain')
    <3>1. c \notin Range(chain)
      BY <1>2 DEF Complete, Once, TypeOK
    <3>2. chain' = Append(chain, c) /\ chain \in Seq(Call)
      BY <1>2 DEF Complete, TypeOK
    <3>3. Len(chain') # 0
      BY <1>a, <3>2, Appended
    <3>4. QED
      BY <3>1, <3>2, <3>3, Appended DEF Once
  <2>2. TypeOK' /\ WarnedOnce' /\ Refused'
    BY <1>2, <2>1 DEF Complete, TypeOK, WarnedOnce, Refused
  <2>3. Placed'
    BY <1>2, <2>1 DEF Complete, Placed, TypeOK
  <2>4. Once'
    BY <1>2, <2>1 DEF Complete, Once, TypeOK
  <2>5. Flushed'
    BY <1>2 DEF Complete, Flushed, TypeOK
  <2>6. QED
    BY <2>2, <2>3, <2>4, <2>5
<1>3. ASSUME Push
      PROVE  IInv'
  <2>1. CASE status = "RUNNING" /\ Len(requests) < MaxRequests
    <3>1. /\ chain # <<>> /\ requests' = Append(requests, Head(chain)) /\ Written
          /\ UNCHANGED <<body, failed, call, status, warnings, writeErrors>>
      BY <1>3, <2>1 DEF Push
    <3>2. Head(chain) \in Call /\ Head(chain) \notin Range(requests)
      BY <3>1, WrittenStep DEF Once
    <3>3. /\ requests' \in Seq(Call) /\ Len(requests') = Len(requests) + 1
          /\ Range(requests') = Range(requests) \cup {Head(chain)} /\ IsInjective(requests')
      BY <3>1, <3>2, Appended DEF Once, TypeOK
    <3>4. TypeOK' /\ WarnedOnce' /\ Refused'
      BY <3>1, <3>3, WrittenStep DEF TypeOK, WarnedOnce, Refused
    <3>5. Placed'
      BY <3>1, <3>3, WrittenStep DEF Placed
    <3>6. Once'
      <4>1. /\ IsInjective(chain') /\ Range(chain) = {Head(chain)} \cup Range(chain')
            /\ Head(chain) \notin Range(chain')
        BY <3>1, WrittenStep DEF Once
      <4>2. Len(requests') <= MaxRequests
        BY <1>a, <2>1, <3>3
      <4>3. QED
        BY <3>1, <3>3, <4>1, <4>2 DEF Once
    <3>7. Flushed'
      BY <2>1, <3>1, WrittenStep DEF Flushed, TypeOK
    <3>8. QED
      BY <3>4, <3>5, <3>6, <3>7
  <2>2. CASE ~(status = "RUNNING" /\ Len(requests) < MaxRequests)
    <3>1. /\ chain # <<>> /\ full' = TRUE
          /\ UNCHANGED <<requests, chain, owed, body, failed, call, status, warnings, writeErrors>>
      BY <1>3, <2>2 DEF Push
    <3>2. status = "RUNNING" => Len(requests) >= MaxRequests
      BY <1>a, <2>2
    <3>3. QED
      BY <3>1, <3>2 DEF TypeOK, Placed, Once, Refused, Flushed, WarnedOnce
  <2>3. QED
    BY <2>1, <2>2
<1>4. ASSUME Truncate
      PROVE  IInv'
  <2>1. /\ chain # <<>> /\ full /\ Written
        /\ UNCHANGED <<body, failed, call, status, requests, writeErrors>>
        /\ warnings' = IF WarnsNow THEN Append(warnings, "TRUNCATED") ELSE warnings
    BY <1>4 DEF Truncate
  <2>2. /\ warnings' \in Seq({"TRUNCATED", "WRITE_FAILED"}) /\ WarnedOnce'
        /\ Range(warnings) \subseteq Range(warnings')
        /\ status = "RUNNING" => "TRUNCATED" \in Range(warnings')
    <3>1. CASE WarnsNow
      <4>1. /\ warnings' \in Seq({"TRUNCATED", "WRITE_FAILED"}) /\ Len(warnings') = Len(warnings) + 1
            /\ \A i \in 1..Len(warnings) : warnings'[i] = warnings[i]
            /\ Range(warnings') = Range(warnings) \cup {"TRUNCATED"}
        BY <2>1, <3>1, Appended DEF TypeOK
      <4>2. /\ Len(warnings) \in Nat /\ DOMAIN warnings = 1..Len(warnings)
            /\ DOMAIN warnings' = 1..(Len(warnings) + 1)
        BY <4>1, LenProperties DEF TypeOK
      <4>3. \A i \in DOMAIN warnings : warnings[i] # "TRUNCATED"
        BY <3>1 DEF WarnsNow, Range
      <4>4. WarnedOnce'
        BY <4>1, <4>2, <4>3 DEF WarnedOnce
      <4>5. QED
        BY <4>1, <4>4
    <3>2. CASE ~WarnsNow
      BY <2>1, <3>2 DEF WarnsNow, Refused, TypeOK, WarnedOnce
    <3>3. QED
      BY <3>1, <3>2
  <2>3. TypeOK' /\ Refused'
    BY <2>1, <2>2, WrittenStep DEF TypeOK, Refused
  <2>a. status # "SUCCESS"
    BY <2>1, WrittenStep DEF Flushed, TypeOK
  <2>4. Flushed'
    <3>1. owed = Len(chain) => owed' = Len(chain')
      BY <2>1, WrittenStep
    <3>2. QED
      BY <2>1, <2>a, <3>1 DEF Flushed
  <2>5. Placed'
    BY <2>1, <2>2, <2>a DEF Placed, TypeOK
  <2>6. Once'
    BY <2>1, WrittenStep DEF Once
  <2>7. QED
    BY <2>2, <2>3, <2>4, <2>5, <2>6
<1>5. ASSUME WriteFails
      PROVE  IInv'
  <2>1. /\ chain # <<>> /\ Written /\ writeErrors' = writeErrors + 1
        /\ UNCHANGED <<body, failed, call, status, requests, warnings>>
    BY <1>5 DEF WriteFails
  <2>a. status # "SUCCESS"
    BY <2>1, WrittenStep DEF Flushed, TypeOK
  <2>b. /\ chain' \in Seq(Call) /\ owed' \in Nat /\ full' = FALSE
        /\ owed = Len(chain) => owed' = Len(chain')
    BY <2>1, WrittenStep
  <2>2. TypeOK' /\ WarnedOnce' /\ Refused'
    <3>1. full' \in BOOLEAN /\ ~full'
      BY <2>b
    <3>2. writeErrors' \in Nat
      BY <2>1 DEF TypeOK
    <3>3. TypeOK'
      BY <2>1, <2>b, <3>1, <3>2 DEF TypeOK
    <3>4. WarnedOnce' /\ Refused'
      BY <2>1, <3>1 DEF WarnedOnce, Refused
    <3>5. QED
      BY <3>3, <3>4
  <2>3. Flushed'
    BY <2>1, <2>a, <2>b DEF Flushed
  <2>4. Placed'
    BY <2>1 DEF Placed, TypeOK
  <2>5. Once'
    BY <2>1, WrittenStep DEF Once
  <2>6. QED
    BY <2>2, <2>3, <2>4, <2>5
<1>6. ASSUME Return
      PROVE  IInv'
  BY <1>6, <1>a DEF Return, TypeOK, Placed, Once, Refused, Flushed, WarnedOnce
<1>7. ASSUME Throw
      PROVE  IInv'
  BY <1>7, <1>a DEF Throw, TypeOK, Placed, Once, Refused, Flushed, WarnedOnce
<1>8. ASSUME Finish
      PROVE  IInv'
  <2>1. /\ body = "flushing" /\ owed = 0 /\ body' = "finished"
        /\ UNCHANGED <<failed, call, chain, owed, full, requests, writeErrors>>
    BY <1>8 DEF Finish
  <2>2. CASE status = "RUNNING"
    <3>1. /\ status' = IF failed THEN "FAILED" ELSE "SUCCESS"
          /\ warnings' = IF writeErrors = 0 THEN warnings ELSE Append(warnings, "WRITE_FAILED")
      BY <1>8, <2>2 DEF Finish
    <3>2. /\ warnings' \in Seq({"TRUNCATED", "WRITE_FAILED"}) /\ WarnedOnce'
          /\ Range(warnings) \subseteq Range(warnings')
          /\ writeErrors > 0 => "WRITE_FAILED" \in Range(warnings')
      <4>1. CASE writeErrors = 0
        BY <3>1, <4>1 DEF TypeOK, WarnedOnce
      <4>2. CASE writeErrors # 0
        <5>1. /\ warnings' \in Seq({"TRUNCATED", "WRITE_FAILED"}) /\ Len(warnings') = Len(warnings) + 1
              /\ \A i \in 1..Len(warnings) : warnings'[i] = warnings[i]
              /\ warnings'[Len(warnings) + 1] = "WRITE_FAILED"
              /\ Range(warnings') = Range(warnings) \cup {"WRITE_FAILED"}
          BY <3>1, <4>2, Appended DEF TypeOK
        <5>2. /\ Len(warnings) \in Nat /\ DOMAIN warnings = 1..Len(warnings)
              /\ DOMAIN warnings' = 1..(Len(warnings) + 1)
          BY <5>1, LenProperties DEF TypeOK
        <5>3. WarnedOnce'
          BY <5>1, <5>2 DEF WarnedOnce
        <5>4. QED
          BY <5>1, <5>3
      <4>3. QED
        BY <4>1, <4>2
    <3>3. TypeOK' /\ Refused' /\ Placed' /\ Once'
      BY <2>1, <2>2, <3>1, <3>2 DEF TypeOK, Refused, Placed, Once
    <3>4. Flushed'
      BY <2>1, <2>2, <3>1, <3>2 DEF Flushed, TypeOK
    <3>5. QED
      BY <3>2, <3>3, <3>4
  <2>3. CASE status # "RUNNING"
    <3>1. UNCHANGED <<status, warnings>>
      BY <1>8, <2>3 DEF Finish
    <3>2. QED
      BY <2>1, <2>3, <3>1 DEF TypeOK, Placed, Once, Refused, Flushed, WarnedOnce
  <2>4. QED
    BY <2>2, <2>3
<1>9. ASSUME MarkAbandoned
      PROVE  IInv'
  BY <1>9 DEF MarkAbandoned, TypeOK, Placed, Once, Refused, Flushed, WarnedOnce
<1>10. CASE UNCHANGED logVars
  BY <1>10 DEF logVars, TypeOK, Placed, Once, Refused, Flushed, WarnedOnce
<1>11. QED
  BY <1>1, <1>2, <1>3, <1>4, <1>5, <1>6, <1>7, <1>8, <1>9, <1>10 DEF Next

\* The log of a run that ended SUCCESS holds every call the run made, once, or
\* says that entries are missing; it is never over its limit and says so once
\* (runRecorder.record and flush, syncRunRepo.pushRequest).
THEOREM LogTellsAll == ASSUME MaxRequests \in Nat PROVE Spec => []GapsAreAnnounced
<1>1. IInv => GapsAreAnnounced
  <2> SUFFICES ASSUME IInv
               PROVE  GapsAreAnnounced
    OBVIOUS
  <2> USE DEF IInv
  <2>1. status = "SUCCESS" => \/ Range(requests) = {c \in Call : call[c] = "done"}
                              \/ {"TRUNCATED", "WRITE_FAILED"} \cap Range(warnings) # {}
    <3> SUFFICES ASSUME status = "SUCCESS",
                        "TRUNCATED" \notin Range(warnings), "WRITE_FAILED" \notin Range(warnings)
                 PROVE  Range(requests) = {c \in Call : call[c] = "done"}
      OBVIOUS
    <3>1. chain = <<>> /\ ~(writeErrors > 0)
      <4>1. Len(chain) = 0
        BY DEF Flushed
      <4>2. QED
        BY <4>1, EmptySeq DEF Flushed, TypeOK
    <3>2. Range(chain) = {}
      BY <3>1 DEF Range
    <3>3. Range(requests) \subseteq Call
      BY LenProperties DEF TypeOK, Range
    <3>4. QED
      BY <3>1, <3>2, <3>3 DEF Placed, Once
  <2>2. Cardinality({i \in DOMAIN warnings : warnings[i] = "TRUNCATED"}) <= 1
    <3> DEFINE W == {i \in DOMAIN warnings : warnings[i] = "TRUNCATED"}
    <3>1. CASE W = {}
      BY <3>1, FS_EmptySet
    <3>2. CASE W # {}
      <4>1. PICK i \in W : TRUE
        BY <3>2
      <4>2. W = {i}
        BY <4>1 DEF WarnedOnce
      <4>3. QED
        BY <4>2, FS_Singleton
    <3>3. QED
      BY <3>1, <3>2
  <2>3. QED
    BY <2>1, <2>2 DEF GapsAreAnnounced, Once
<1>2. QED
  BY InitIInv, StepKeepsIInv, <1>1, PTL DEF Spec
-----------------------------------------------------------------------------
(***************************************************************************)
(* The season, over the constants and variables of module Semantics.       *)
(***************************************************************************)
CONSTANTS Entry, Run, Reading, MayStop, MaxRevisions

VARIABLES served, stored, value, evidence, conflicts, run, revisions, interrupted

Season == INSTANCE Semantics

Proof == {"GROSS", "NET"}
Seasons == {"UNVERIFIED", "GROSS", "NET", "CONFLICTED"}
Rows == [proves : Proof \cup {"NOTHING"}, version : Nat]
Syncs == [pc : {"idle", "fetch", "write"}, fetched : [Entry -> Rows], left : SUBSET Entry,
          tally : [GROSS : Nat, NET : Nat]]

SeasonTypeOK ==
  /\ served \in [Entry -> Rows]
  /\ stored \in [Entry -> Rows]
  /\ value \in Seasons
  /\ evidence \in Nat
  /\ conflicts \in Nat
  /\ run \in [Run -> Syncs]
  /\ revisions \in Nat
  /\ interrupted \in BOOLEAN

\* Proof that a stored row gives is in the season, on its way in the tally of a
\* sync, or was lost with one.
ProofKnown ==
  \A m \in Entry : stored[m].proves \in Proof =>
    \/ value \in {stored[m].proves, "CONFLICTED"}
    \/ \E r \in Run : run[r].tally[stored[m].proves] > 0
    \/ interrupted

\* A sync that rests has nothing to apply.
RestEmpty == \A r \in Run : run[r].pc = "idle" => run[r].tally = Season!NoTally

\* The season's value and its counters.
Counted ==
  /\ value # "UNVERIFIED" => evidence + conflicts > 0
  /\ value = "CONFLICTED" <=> conflicts > 0

SeasonIInv == SeasonTypeOK /\ ProofKnown /\ RestEmpty /\ Counted
-----------------------------------------------------------------------------
\* The initial states satisfy the invariant.
LEMMA SeasonInit == Season!Init => SeasonIInv
<1> SUFFICES ASSUME Season!Init
             PROVE  SeasonIInv
  OBVIOUS
<1>1. Season!Idle \in Syncs
  BY DEF Season!Idle, Syncs, Season!NoTally, Season!NoRow, Rows, Proof
<1>2. SeasonTypeOK
  BY <1>1 DEF Season!Init, SeasonTypeOK, Season!NoRow, Rows, Proof, Seasons
<1>3. ProofKnown /\ RestEmpty /\ Counted
  BY DEF Season!Init, ProofKnown, RestEmpty, Counted, Season!NoRow, Season!Idle, Proof
<1>4. QED
  BY <1>2, <1>3 DEF SeasonIInv

\* A sync whose fields change keeps the invariant if its tally does not shrink,
\* is empty when it rests, and counts the proof of every row that is stored.
LEMMA RunStep ==
  ASSUME SeasonIInv, NEW r \in Run, NEW new \in Syncs, run' = [run EXCEPT ![r] = new],
         \A p \in Proof : run[r].tally[p] > 0 => new.tally[p] > 0,
         new.pc # "idle" \/ new.tally = Season!NoTally,
         stored' \in [Entry -> Rows],
         \A m \in Entry : stored'[m] = stored[m]
           \/ (stored'[m].proves \in Proof => new.tally[stored'[m].proves] > 0),
         UNCHANGED <<served, value, evidence, conflicts, revisions, interrupted>>
  PROVE  SeasonIInv'
<1> USE DEF SeasonIInv
<1>1. SeasonTypeOK'
  BY DEF SeasonTypeOK
<1>2. RestEmpty' /\ Counted'
  BY DEF RestEmpty, Counted, SeasonTypeOK
<1>3. ProofKnown'
  BY DEF ProofKnown, SeasonTypeOK
<1>4. QED
  BY <1>1, <1>2, <1>3

\* What a tally makes of the season.
LEMMA AppliedKnows ==
  ASSUME SeasonTypeOK, Counted, NEW tally \in [GROSS : Nat, NET : Nat]
  PROVE  LET season == Season!Applied(value, tally) IN
         /\ season.value \in Seasons /\ season.evidence \in Nat /\ season.conflicts \in Nat
         /\ \A p \in Proof : tally[p] > 0 \/ value \in {p, "CONFLICTED"} => season.value \in {p, "CONFLICTED"}
         /\ season.value # "UNVERIFIED" => season.evidence + season.conflicts > 0
         /\ season.value = "CONFLICTED" <=> season.conflicts > 0
<1> DEFINE gross == tally["GROSS"]
           net == tally["NET"]
<1>0. gross \in Nat /\ net \in Nat
  OBVIOUS
<1>1. CASE value = "UNVERIFIED"
  BY <1>0, <1>1 DEF Season!Applied, Counted, SeasonTypeOK, Seasons, Proof
<1>2. CASE value = "GROSS"
  BY <1>0, <1>2 DEF Season!Applied, Counted, SeasonTypeOK, Seasons, Proof
<1>3. CASE value = "NET"
  BY <1>0, <1>3 DEF Season!Applied, Counted, SeasonTypeOK, Seasons, Proof
<1>4. CASE value = "CONFLICTED"
  BY <1>0, <1>4 DEF Season!Applied, Counted, SeasonTypeOK, Seasons, Proof
<1>5. QED
  BY <1>1, <1>2, <1>3, <1>4 DEF SeasonTypeOK, Seasons

\* Every step keeps the invariant, whatever readings FPL's rows prove.
LEMMA SeasonStep == ASSUME Reading \subseteq Proof PROVE SeasonIInv /\ [Season!Next]_(Season!semVars) => SeasonIInv'
<1> SUFFICES ASSUME Reading \subseteq Proof, SeasonIInv, [Season!Next]_(Season!semVars)
             PROVE  SeasonIInv'
  OBVIOUS
<1> USE DEF SeasonIInv, SeasonTypeOK
<1>1. ASSUME NEW m \in Entry, NEW proves \in Reading \cup {"NOTHING"}, Season!Revise(m, proves)
      PROVE  SeasonIInv'
  <2>1. [proves |-> proves, version |-> revisions + 2] \in Rows
    BY <1>1 DEF Rows, Proof
  <2>2. SeasonTypeOK'
    BY <1>1, <2>1 DEF Season!Revise
  <2>3. ProofKnown' /\ RestEmpty' /\ Counted'
    BY <1>1 DEF Season!Revise, ProofKnown, RestEmpty, Counted
  <2>4. QED
    BY <2>2, <2>3
<1>2. ASSUME NEW r \in Run, Season!Start(r)
      PROVE  SeasonIInv'
  <2> DEFINE new == [run[r] EXCEPT !.pc = "fetch", !.left = Entry]
  <2>1. run' = [run EXCEPT ![r] = new]
    BY <1>2 DEF Season!Start, Syncs
  <2>2. new \in Syncs /\ new.tally = run[r].tally /\ new.pc # "idle"
    BY DEF Syncs
  <2> HIDE DEF new
  <2>3. QED
    BY <1>2, <2>1, <2>2, RunStep DEF Season!Start
<1>3. ASSUME NEW r \in Run, NEW m \in Entry, Season!FetchMember(r, m)
      PROVE  SeasonIInv'
  <2> DEFINE left == run[r].left \ {m}
             new == [run[r] EXCEPT !.fetched[m] = served[m],
                                   !.pc = IF left = {} THEN "write" ELSE "fetch",
                                   !.left = IF left = {} THEN Entry ELSE left]
  <2>1. run' = [run EXCEPT ![r] = new]
    BY <1>3 DEF Season!FetchMember, Syncs
  <2>2. new \in Syncs /\ new.tally = run[r].tally /\ new.pc # "idle"
    BY DEF Syncs
  <2> HIDE DEF new
  <2>3. QED
    BY <1>3, <2>1, <2>2, RunStep DEF Season!FetchMember
<1>4. ASSUME NEW r \in Run, NEW m \in Entry, Season!WriteMember(r, m)
      PROVE  SeasonIInv'
  <2> DEFINE row == run[r].fetched[m]
             counts == row.proves \in {"GROSS", "NET"} /\ stored[m] # row
             tally == IF counts THEN Season!OneMore(run[r].tally, row.proves) ELSE run[r].tally
             new == [run[r] EXCEPT !.left = @ \ {m}, !.tally = tally]
  <2>1. row \in Rows /\ run[r].tally \in [GROSS : Nat, NET : Nat] /\ run[r].pc = "write"
    BY <1>4 DEF Season!WriteMember, Syncs
  <2>2. run' = [run EXCEPT ![r] = new]
    <3>1. CASE counts
      BY <1>4, <2>1, <3>1 DEF Season!WriteMember, Syncs
    <3>2. CASE ~counts
      BY <1>4, <2>1, <3>2 DEF Season!WriteMember, Syncs
    <3>3. QED
      BY <3>1, <3>2
  <2>3. /\ tally \in [GROSS : Nat, NET : Nat]
        /\ \A p \in Proof : run[r].tally[p] > 0 => tally[p] > 0
        /\ counts => tally[row.proves] > 0
    BY <2>1 DEF Proof, Season!OneMore
  <2>4. new \in Syncs /\ new.tally = tally /\ new.pc = "write"
    BY <2>1, <2>3 DEF Syncs
  <2>5. stored' = [stored EXCEPT ![m] = row]
    BY <1>4 DEF Season!WriteMember
  <2>6. row.proves \in Proof => counts \/ stored[m] = row
    BY DEF Proof
  <2> HIDE DEF new, tally, counts, row
  <2>7. QED
    <3>1. \A n \in Entry : stored'[n] = stored[n]
            \/ (stored'[n].proves \in Proof => new.tally[stored'[n].proves] > 0)
      BY <2>3, <2>4, <2>5, <2>6
    <3>2. stored' \in [Entry -> Rows]
      BY <2>1, <2>5
    <3>3. UNCHANGED <<served, value, evidence, conflicts, revisions, interrupted>>
      BY <1>4 DEF Season!WriteMember
    <3>4. \A p \in Proof : run[r].tally[p] > 0 => new.tally[p] > 0
      BY <2>3, <2>4
    <3>5. QED
      BY <2>2, <2>4, <3>1, <3>2, <3>3, <3>4, RunStep
<1>5. ASSUME NEW r \in Run, NEW m \in Entry, Season!SkipMember(r, m)
      PROVE  SeasonIInv'
  <2> DEFINE new == [run[r] EXCEPT !.left = @ \ {m}]
  <2>1. run' = [run EXCEPT ![r] = new]
    BY <1>5 DEF Season!SkipMember, Syncs
  <2>2. new \in Syncs /\ new.tally = run[r].tally /\ new.pc # "idle"
    BY <1>5 DEF Season!SkipMember, Syncs
  <2> HIDE DEF new
  <2>3. QED
    BY <1>5, <2>1, <2>2, RunStep DEF Season!SkipMember
<1>6. ASSUME NEW r \in Run, Season!ApplySemanticsEvidence(r)
      PROVE  SeasonIInv'
  <2> DEFINE season == Season!Applied(value, run[r].tally)
  <2>1. run[r].tally \in [GROSS : Nat, NET : Nat] /\ Season!Idle \in Syncs /\ Season!Idle.tally = Season!NoTally
    BY DEF Syncs, Season!Idle, Season!NoTally, Season!NoRow, Rows, Proof
  <2>2. /\ season.value \in Seasons /\ season.evidence \in Nat /\ season.conflicts \in Nat
        /\ \A p \in Proof : run[r].tally[p] > 0 \/ value \in {p, "CONFLICTED"} => season.value \in {p, "CONFLICTED"}
        /\ season.value # "UNVERIFIED" => season.evidence + season.conflicts > 0
        /\ season.value = "CONFLICTED" <=> season.conflicts > 0
    BY <2>1, AppliedKnows
  <2> HIDE DEF season
  <2>3. /\ value' = season.value /\ evidence' = season.evidence /\ conflicts' = season.conflicts
        /\ run' = [run EXCEPT ![r] = Season!Idle]
        /\ UNCHANGED <<served, stored, revisions, interrupted>>
    BY <1>6 DEF Season!ApplySemanticsEvidence, season
  <2>4. SeasonTypeOK' /\ RestEmpty' /\ Counted'
    BY <2>1, <2>2, <2>3 DEF RestEmpty, Counted
  <2>5. ProofKnown'
    BY <2>2, <2>3 DEF ProofKnown
  <2>6. QED
    BY <2>4, <2>5
<1>7. ASSUME NEW r \in Run, Season!Stop(r)
      PROVE  SeasonIInv'
  <2>1. Season!Idle \in Syncs /\ Season!Idle.tally = Season!NoTally
    BY DEF Syncs, Season!Idle, Season!NoTally, Season!NoRow, Rows, Proof
  <2>2. /\ run' = [run EXCEPT ![r] = Season!Idle]
        /\ interrupted' = (interrupted \/ run[r].tally # Season!NoTally)
        /\ UNCHANGED <<served, stored, value, evidence, conflicts, revisions>>
    BY <1>7 DEF Season!Stop
  <2>3. \A p \in Proof : Season!NoTally[p] = 0
    BY DEF Season!NoTally, Proof
  <2>4. SeasonTypeOK' /\ RestEmpty' /\ Counted'
    BY <2>1, <2>2 DEF RestEmpty, Counted
  <2>5. /\ interrupted => interrupted'
        /\ \A p \in Proof : run[r].tally[p] > 0 => interrupted'
    <3>1. interrupted => interrupted'
      BY <2>2, Zenon
    <3>2. ASSUME NEW p \in Proof, run[r].tally[p] > 0
          PROVE  interrupted'
      <4>1. run[r].tally # Season!NoTally
        BY <2>3, <3>2
      <4>2. QED
        BY <2>2, <4>1, Zenon
    <3>3. QED
      BY <3>1, <3>2
  <2>6. \A q \in Run \ {r} : run'[q] = run[q]
    BY <2>2
  <2>7. ProofKnown'
    BY <2>2, <2>5, <2>6 DEF ProofKnown
  <2>8. QED
    BY <2>4, <2>7
<1>8. CASE UNCHANGED Season!semVars
  BY <1>8 DEF Season!semVars, ProofKnown, RestEmpty, Counted
<1>9. QED
  BY <1>1, <1>2, <1>3, <1>4, <1>5, <1>6, <1>7, <1>8 DEF Season!Next

-----------------------------------------------------------------------------
\* While no sync is under way and none was cut short after storing proof, the
\* season's value is what the stored rows prove, and CONFLICTED exactly when a
\* row has spoken against it (seasonRepo.applySemanticsEvidence at the end
\* of syncService.syncGroup).
THEOREM SeasonFollowsRows ==
  ASSUME Reading \subseteq {"GROSS", "NET"} PROVE Season!Spec => []Season!SemanticsFollowRows
<1>1. SeasonIInv => Season!SemanticsFollowRows
  <2> SUFFICES ASSUME SeasonIInv, Season!Quiet, ~interrupted
               PROVE  /\ Season!Proofs # {} => value # "UNVERIFIED"
                      /\ value \in {"GROSS", "NET"} => Season!Proofs \subseteq {value}
                      /\ Cardinality(Season!Proofs) = 2 => value = "CONFLICTED"
                      /\ value # "UNVERIFIED" => evidence + conflicts > 0
                      /\ value = "CONFLICTED" <=> conflicts > 0
    <3>1. Season!Cardinality(Season!Proofs) = Cardinality(Season!Proofs)
      BY DEF Season!Cardinality, Cardinality
    <3>2. QED
      BY <3>1 DEF Season!SemanticsFollowRows
  <2>1. \A p \in Season!Proofs : p \in Proof /\ value \in {p, "CONFLICTED"}
    BY DEF SeasonIInv, ProofKnown, RestEmpty, Season!Quiet, Season!NoTally, Season!Proofs, SeasonTypeOK, Rows, Proof
  <2>2. Cardinality(Season!Proofs) = 2 => value = "CONFLICTED"
    <3>1. ASSUME NEW p, Season!Proofs \subseteq {p}
          PROVE  Cardinality(Season!Proofs) # 2
      <4>1. Season!Proofs = {} \/ Season!Proofs = {p}
        BY <3>1
      <4>2. Cardinality({}) = 0 /\ Cardinality({p}) = 1
        BY FS_Singleton, FS_EmptySet
      <4>3. QED
        BY <4>1, <4>2
    <3>2. QED
      BY <2>1, <3>1 DEF Proof
  <2>3. Season!Proofs # {} => value # "UNVERIFIED"
    BY <2>1 DEF Proof, Season!OneMore
  <2>4. value \in {"GROSS", "NET"} => Season!Proofs \subseteq {value}
    BY <2>1
  <2>5. /\ value # "UNVERIFIED" => evidence + conflicts > 0
        /\ value = "CONFLICTED" <=> conflicts > 0
    BY DEF SeasonIInv, Counted
  <2>6. QED
    BY <2>2, <2>3, <2>4, <2>5
<1>2. QED
  BY SeasonInit, SeasonStep, <1>1, PTL DEF Season!Spec, Proof
=============================================================================

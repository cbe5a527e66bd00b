------------------------------ MODULE RequestLog ------------------------------
(***************************************************************************)
(* The request log of one sync run (sync/runRecorder.js, repositories/     *)
(* syncRunRepo.js and the end of runJob).  The members of a group are      *)
(* fetched a few at a time; every call that completes appends to a chain   *)
(* of writes, so that the log is written one entry after the other while   *)
(* the fetches go on.  The log holds a bounded number of entries.  The run *)
(* may be marked ABANDONED under the recorder's feet, and a write may      *)
(* fail; neither stops the run.                                            *)
(***************************************************************************)
EXTENDS Values

CONSTANTS
  Call,          \* the FPL calls of the run
  Wait,          \* those of them the body waits for even if another failed
  MaxRequests,   \* MAX_REQUESTS_PER_RUN: 300
  MaxFailures    \* bound: writes that fail

VARIABLES
  body,       \* "fetching", "flushing", "finished" or "closed"
  failed,     \* the body has thrown
  call,       \* each call: "none", "open", "done"
  chain,      \* completed calls whose write has not ended, in their order
  owed,       \* how many writes at the head of the chain the flush waits for
  full,       \* the write at the head of the chain found the log full
  status,     \* the run document's status
  requests,   \* the run document's requests
  warnings,   \* the run document's warnings, a sequence
  writeErrors \* writes the recorder has swallowed

logVars == <<body, failed, call, chain, owed, full, status, requests, warnings, writeErrors>>

Init ==
  /\ body = "fetching" /\ failed = FALSE
  /\ call = [c \in Call |-> "none"]
  /\ chain = <<>> /\ owed = 0 /\ full = FALSE
  /\ status = "RUNNING" /\ requests = <<>> /\ warnings = <<>>
  /\ writeErrors = 0

-----------------------------------------------------------------------------
\* The write at the head of the chain has ended.
Written == chain' = Tail(chain) /\ owed' = Max({0, owed - 1}) /\ full' = FALSE

Fetch(c) ==
  /\ body = "fetching" /\ call[c] = "none"
  /\ call' = [call EXCEPT ![c] = "open"]
  /\ UNCHANGED <<body, failed, chain, owed, full, status, requests, warnings, writeErrors>>

\* A call that reached FPL or the cache completes and is recorded: also
\* when the body is long over.
Complete(c) ==
  /\ call[c] = "open"
  /\ call' = [call EXCEPT ![c] = "done"]
  /\ chain' = Append(chain, c)
  /\ UNCHANGED <<body, failed, owed, full, status, requests, warnings, writeErrors>>

\* pushRequest, first update: pushed if the run is RUNNING and has room.
Push ==
  /\ chain # <<>> /\ ~full
  /\ IF status = "RUNNING" /\ Len(requests) < MaxRequests
     THEN requests' = Append(requests, Head(chain)) /\ Written
     ELSE full' = TRUE /\ UNCHANGED <<requests, chain, owed>>
  /\ UNCHANGED <<body, failed, call, status, warnings, writeErrors>>

\* A plausible bug: a log that is not quite full yet, by one.
WarnsNowLate ==
  /\ status = "RUNNING" /\ Len(requests) > MaxRequests
  /\ "TRUNCATED" \notin Range(warnings)

\* Whether the second update warns: a full log of a RUNNING run, once.
WarnsNow ==
  /\ status = "RUNNING" /\ Len(requests) >= MaxRequests
  /\ "TRUNCATED" \notin Range(warnings)

Truncate ==
  /\ chain # <<>> /\ full
  /\ warnings' = IF WarnsNow THEN Append(warnings, "TRUNCATED") ELSE warnings
  /\ Written
  /\ UNCHANGED <<body, failed, call, status, requests, writeErrors>>

\* A write fails; the chain goes on with the next.
WriteFails ==
  /\ chain # <<>> /\ writeErrors < MaxFailures
  /\ writeErrors' = writeErrors + 1
  /\ Written
  /\ UNCHANGED <<body, failed, call, status, requests, warnings>>

-----------------------------------------------------------------------------
\* The body returns: it has waited for the calls it started.
Return ==
  /\ body = "fetching" /\ \A c \in Call : call[c] # "open"
  /\ body' = "flushing" /\ owed' = Len(chain)
  /\ UNCHANGED <<failed, call, chain, full, status, requests, warnings, writeErrors>>

\* The body throws, with calls under way that nobody waits for any more.
Throw ==
  /\ body = "fetching" /\ \A c \in Wait : call[c] # "open"
  /\ body' = "flushing" /\ failed' = TRUE /\ owed' = Len(chain)
  /\ UNCHANGED <<call, chain, full, status, requests, warnings, writeErrors>>

\* A plausible bug: the run is finished while entries wait to be written.
FinishWithoutFlush ==
  /\ body = "flushing"
  /\ body' = "finished"
  /\ IF status = "RUNNING"
     THEN /\ status' = IF failed THEN "FAILED" ELSE "SUCCESS"
          /\ warnings' = IF writeErrors = 0 THEN warnings ELSE Append(warnings, "WRITE_FAILED")
     ELSE UNCHANGED <<status, warnings>>
  /\ UNCHANGED <<failed, call, chain, owed, full, requests, writeErrors>>

\* flush() waits for the writes appended before it; finish() moves a RUNNING
\* run, with a warning if a write was lost.
Finish ==
  /\ body = "flushing" /\ owed = 0
  /\ body' = "finished"
  /\ IF status = "RUNNING"
     THEN /\ status' = IF failed THEN "FAILED" ELSE "SUCCESS"
          /\ warnings' = IF writeErrors = 0 THEN warnings ELSE Append(warnings, "WRITE_FAILED")
     ELSE UNCHANGED <<status, warnings>>
  /\ UNCHANGED <<failed, call, chain, owed, full, requests, writeErrors>>

\* The next acquirer of the lock, or the shutdown.
MarkAbandoned ==
  /\ status = "RUNNING"
  /\ status' = "ABANDONED"
  /\ UNCHANGED <<body, failed, call, chain, owed, full, requests, warnings, writeErrors>>

Next ==
  \/ \E c \in Call : Fetch(c) \/ Complete(c)
  \/ Push \/ Truncate \/ WriteFails \/ Return \/ Throw \/ Finish \/ MarkAbandoned

Spec == Init /\ [][Next]_logVars

-----------------------------------------------------------------------------
\* The log of a run never lies by omission: a run that ended SUCCESS or
\* PARTIAL has every call it made in its log, once, or says that entries are
\* missing; the log is never over its limit, and says so once.
GapsAreAnnounced ==
  /\ status = "SUCCESS" =>
       \/ Range(requests) = {c \in Call : call[c] = "done"}
       \/ {"TRUNCATED", "WRITE_FAILED"} \cap Range(warnings) # {}
  /\ IsInjective(requests) /\ Len(requests) <= MaxRequests
  /\ Cardinality({i \in DOMAIN warnings : warnings[i] = "TRUNCATED"}) <= 1
=============================================================================

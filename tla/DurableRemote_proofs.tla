------------------------ MODULE DurableRemote_proofs ------------------------
(***************************************************************************)
(* Theorems about the remote attempts, submissions and gates of             *)
(* DurableState.  An upload and a submission keep their attempts in the     *)
(* same way, so what a step may do to a row and its history is stated once  *)
(* (RowMoves), proved harmless once, and then found in every transition.    *)
(***************************************************************************)
EXTENDS DurableState_proofs

-----------------------------------------------------------------------------
(* One row with its history of attempts and its resolutions, before a step  *)
(* and after it.                                                            *)

(* A row that may send again rests on a last attempt that allows it.        *)
Resumable(row, history, resolutions) ==
    /\ row.state = "Absent" => history = <<>>
    /\ row.state \in {"Pending", "RetryScheduled", "RetryAuthorized"} /\ history # <<>> =>
          MayFollow(history, resolutions, Len(history))

RowInv(row, history, resolutions) ==
    /\ HistoryMatches(row, history, resolutions)
    /\ \A n \in 1..(Len(history) - 1) : MayFollow(history, resolutions, n)
    /\ Resumable(row, history, resolutions)

RowBegins(row, h, res, row2, h2, res2) ==
    /\ row.state \in {"Absent", "Pending", "RetryScheduled", "RetryAuthorized"}
    /\ row2.state = "Attempting" /\ row2.attempt = Len(h) + 1
    /\ h2 = Append(h, "Unfinished") /\ res2 = res

RowFinishes(row, h, res, row2, h2, res2) ==
    /\ row.state = "Attempting" /\ res2 = res
    /\ \E outcome \in Outcome \ {"Unfinished"} :
          /\ h2 = [h EXCEPT ![row.attempt] = outcome]
          /\ \/ outcome = "Confirmed" /\ row2.state \in {"Uploaded", "Submitted"}
             \/ outcome = "RetryScheduled" /\ row2.state \in {"Pending", "RetryScheduled"}
             \/ /\ outcome \in {"Blocked", "Ambiguous"}
                /\ row2.state = outcome /\ row2.attempt = row.attempt

RowResolved(row, h, res, row2, h2, res2) ==
    /\ row.state \in {"Attempting", "Ambiguous", "Blocked"}
    /\ h2 = FinishAsAmbiguous(h, row.attempt)
    /\ \E happened \in BOOLEAN :
          /\ res2 = res \cup {[attempt |-> row.attempt, happened |-> happened]}
          /\ row2.state \in IF happened THEN {"Uploaded", "Submitted"}
                            ELSE {"Pending", "Cancelled", "RetryAuthorized"}

RowAbandoned(row, h, res, row2, h2, res2) ==
    /\ row.state = "Attempting" /\ res2 = res
    /\ row2.state = "Ambiguous" /\ row2.attempt = row.attempt
    /\ h2 = FinishAsAmbiguous(h, row.attempt)

(* The history stays: the row waits on, is given up, or is a new one.       *)
RowRests(row, h, res, row2, h2, res2) ==
    /\ h2 = h /\ res2 = res
    /\ \/ row2 = row
       \/ row.state # "Attempting" /\ row2.state \in {"NotPlanned", "Cancelled"}
       \/ row.state # "Attempting" /\ row2.state = "Pending" /\ h = <<>>
       \/ row.state \in {"Pending", "RetryScheduled"} /\ row2.state = row.state

RowMoves(row, h, res, row2, h2, res2) ==
    \/ RowBegins(row, h, res, row2, h2, res2)
    \/ RowFinishes(row, h, res, row2, h2, res2)
    \/ RowResolved(row, h, res, row2, h2, res2)
    \/ RowAbandoned(row, h, res, row2, h2, res2)
    \/ RowRests(row, h, res, row2, h2, res2)

(* An unknown outcome is written down as such, in the last attempt only.    *)
LEMMA FinishAsAmbiguousValue ==
    ASSUME NEW h \in Seq(Outcome), NEW n \in 1..Len(h)
    PROVE  /\ FinishAsAmbiguous(h, n) \in Seq(Outcome)
           /\ Len(FinishAsAmbiguous(h, n)) = Len(h)
           /\ FinishAsAmbiguous(h, n)[n] = IF h[n] = "Unfinished" THEN "Ambiguous" ELSE h[n]
           /\ \A m \in 1..Len(h) : m # n => FinishAsAmbiguous(h, n)[m] = h[m]
BY DEF FinishAsAmbiguous, Outcome

LEMMA ExceptValue ==
    ASSUME NEW h \in Seq(Outcome), NEW n \in 1..Len(h), NEW o \in Outcome
    PROVE  /\ [h EXCEPT ![n] = o] \in Seq(Outcome)
           /\ Len([h EXCEPT ![n] = o]) = Len(h)
           /\ [h EXCEPT ![n] = o][n] = o
           /\ \A m \in 1..Len(h) : m # n => [h EXCEPT ![n] = o][m] = h[m]
OBVIOUS

(* A row in flight names the last attempt, which is unfinished; no other    *)
(* row has an unfinished one.                                               *)
LEMMA RowInFlight ==
    ASSUME NEW row, NEW h \in Seq(Outcome), NEW res, RowInv(row, h, res)
    PROVE  /\ row.state \in {"Attempting", "Blocked", "Ambiguous"} =>
                row.attempt = Len(h) /\ Len(h) \in 1..Len(h)
           /\ row.state = "Attempting" => h[Len(h)] = "Unfinished"
           /\ row.state \in {"Blocked", "Ambiguous"} => h[Len(h)] = row.state
           /\ row.state # "Attempting" => \A n \in 1..Len(h) : h[n] # "Unfinished"
BY DEF RowInv, HistoryMatches, NamesLast

(* Whether an attempt may be followed by another depends on it alone.       *)
LEMMA MayFollowStays ==
    ASSUME NEW h, NEW h2, NEW res, NEW res2, NEW n,
           res \subseteq res2, h2[n] = h[n], MayFollow(h, res, n)
    PROVE  MayFollow(h2, res2, n)
BY DEF MayFollow

LEMMA RowBeginsKeeps ==
    ASSUME NEW row, NEW h \in Seq(Outcome), NEW res, NEW row2, NEW h2, NEW res2,
           RowInv(row, h, res), RowBegins(row, h, res, row2, h2, res2)
    PROVE  RowInv(row2, h2, res2) /\ Extends(h2, h) /\ res \subseteq res2
<1>1. /\ Len(h2) = Len(h) + 1 /\ h2[Len(h) + 1] = "Unfinished" /\ h2 # <<>>
      /\ \A n \in 1..Len(h) : h2[n] = h[n]
      /\ Len(h) \in Nat
  BY DEF RowBegins, Outcome
<1>2. \A n \in 1..Len(h) : h[n] # "Unfinished"
  BY RowInFlight DEF RowBegins
<1>3. \A n \in 1..Len(h) : MayFollow(h, res, n)
  <2>1. Len(h) # 0 => h # <<>>
    OBVIOUS
  <2>2. Len(h) # 0 => MayFollow(h, res, Len(h))
    BY <2>1 DEF RowInv, Resumable, RowBegins
  <2> QED BY <2>2, <1>1 DEF RowInv
<1>4. HistoryMatches(row2, h2, res2)
  BY <1>1, <1>2 DEF RowBegins, HistoryMatches, NamesLast
<1>5. \A n \in 1..(Len(h2) - 1) : MayFollow(h2, res2, n)
  <2> TAKE n \in 1..(Len(h2) - 1)
  <2>1. n \in 1..Len(h) /\ res \subseteq res2
    BY <1>1 DEF RowBegins
  <2>2. MayFollow(h, res, n) /\ h2[n] = h[n]
    BY <1>1, <1>3, <2>1
  <2> QED BY <2>1, <2>2, MayFollowStays
<1>6. Resumable(row2, h2, res2)
  BY DEF Resumable, RowBegins
<1> QED
  BY <1>1, <1>4, <1>5, <1>6 DEF RowInv, Extends, RowBegins

(* The last attempt gets an outcome; those before it stay.                  *)
LEMMA RowFinishesKeeps ==
    ASSUME NEW row, NEW h \in Seq(Outcome), NEW res, NEW row2, NEW h2, NEW res2,
           RowInv(row, h, res), RowFinishes(row, h, res, row2, h2, res2)
    PROVE  RowInv(row2, h2, res2) /\ Extends(h2, h) /\ res \subseteq res2
<1>0. PICK outcome \in Outcome \ {"Unfinished"} :
        /\ h2 = [h EXCEPT ![row.attempt] = outcome]
        /\ \/ outcome = "Confirmed" /\ row2.state \in {"Uploaded", "Submitted"}
           \/ outcome = "RetryScheduled" /\ row2.state \in {"Pending", "RetryScheduled"}
           \/ /\ outcome \in {"Blocked", "Ambiguous"}
              /\ row2.state = outcome /\ row2.attempt = row.attempt
  BY DEF RowFinishes
<1>1. /\ row.attempt = Len(h) /\ Len(h) \in 1..Len(h)
      /\ h[Len(h)] = "Unfinished" /\ res2 = res
  BY RowInFlight DEF RowFinishes
<1>2. /\ h2 \in Seq(Outcome) /\ Len(h2) = Len(h) /\ h2[Len(h)] = outcome
      /\ \A n \in 1..Len(h) : n # Len(h) => h2[n] = h[n]
  BY <1>0, <1>1, ExceptValue
<1>3. \A n \in 1..Len(h) : n # Len(h) => h[n] # "Unfinished"
  BY DEF RowInv, HistoryMatches
<1>4. h2 # <<>> /\ Len(h2) > 0
  BY <1>1, <1>2
<1>5. HistoryMatches(row2, h2, res2)
  BY <1>0, <1>1, <1>2, <1>3, <1>4 DEF HistoryMatches, NamesLast, Outcome
<1>6. \A n \in 1..(Len(h2) - 1) : MayFollow(h2, res2, n)
  <2> TAKE n \in 1..(Len(h2) - 1)
  <2>1. n \in 1..(Len(h) - 1) /\ n \in 1..Len(h) /\ n # Len(h)
    BY <1>1, <1>2
  <2>2. MayFollow(h, res, n) /\ h2[n] = h[n] /\ res \subseteq res2
    BY <1>1, <1>2, <2>1 DEF RowInv
  <2> QED BY <2>2, MayFollowStays
<1>7. Resumable(row2, h2, res2)
  BY <1>0, <1>1, <1>2, <1>4 DEF Resumable, MayFollow
<1>8. Extends(h2, h)
  BY <1>1, <1>2 DEF Extends
<1> QED
  BY <1>1, <1>5, <1>6, <1>7, <1>8 DEF RowInv

LEMMA RowResolvedKeeps ==
    ASSUME NEW row, NEW h \in Seq(Outcome), NEW res, NEW row2, NEW h2, NEW res2,
           RowInv(row, h, res), RowResolved(row, h, res, row2, h2, res2)
    PROVE  RowInv(row2, h2, res2) /\ Extends(h2, h) /\ res \subseteq res2
<1>0. PICK happened \in BOOLEAN :
        /\ res2 = res \cup {[attempt |-> row.attempt, happened |-> happened]}
        /\ row2.state \in IF happened THEN {"Uploaded", "Submitted"}
                          ELSE {"Pending", "Cancelled", "RetryAuthorized"}
  BY DEF RowResolved
<1>1. /\ row.attempt = Len(h) /\ Len(h) \in 1..Len(h)
      /\ h[Len(h)] \in {"Unfinished", "Blocked", "Ambiguous"}
      /\ h2 = FinishAsAmbiguous(h, Len(h))
  BY RowInFlight DEF RowResolved
<1>2. /\ h2 \in Seq(Outcome) /\ Len(h2) = Len(h) /\ h2[Len(h)] \in {"Blocked", "Ambiguous"}
      /\ h[Len(h)] # "Unfinished" => h2[Len(h)] = h[Len(h)]
      /\ \A n \in 1..Len(h) : n # Len(h) => h2[n] = h[n]
  BY <1>1, FinishAsAmbiguousValue
<1>3. \A n \in 1..Len(h) : n # Len(h) => h[n] # "Unfinished"
  BY DEF RowInv, HistoryMatches
<1>4. [attempt |-> Len(h), happened |-> happened] \in res2 /\ res \subseteq res2
  BY <1>0, <1>1
<1>5. HistoryMatches(row2, h2, res2)
  <2>1. row2.state \in {"Uploaded", "Submitted"} =>
           [attempt |-> Len(h2), happened |-> TRUE] \in res2
    <3>1. CASE happened = TRUE
      BY <3>1, <1>2, <1>4
    <3>2. CASE happened = FALSE
      BY <3>2, <1>0
    <3> QED BY <3>1, <3>2
  <2>2. row2.state \notin {"Attempting", "Blocked", "Ambiguous"}
    BY <1>0
  <2> QED BY <1>1, <1>2, <1>3, <2>1, <2>2 DEF HistoryMatches
<1>6. \A n \in 1..(Len(h2) - 1) : MayFollow(h2, res2, n)
  <2> TAKE n \in 1..(Len(h2) - 1)
  <2>1. n \in 1..(Len(h) - 1) /\ n \in 1..Len(h) /\ n # Len(h)
    BY <1>1, <1>2
  <2>2. MayFollow(h, res, n) /\ h2[n] = h[n] /\ res \subseteq res2
    BY <1>4, <1>2, <2>1 DEF RowInv
  <2> QED BY <2>2, MayFollowStays
<1>7. Resumable(row2, h2, res2)
  BY <1>0, <1>1, <1>2, <1>4 DEF Resumable, MayFollow
<1>8. Extends(h2, h)
  BY <1>1, <1>2 DEF Extends
<1> QED
  BY <1>4, <1>5, <1>6, <1>7, <1>8 DEF RowInv

LEMMA RowAbandonedKeeps ==
    ASSUME NEW row, NEW h \in Seq(Outcome), NEW res, NEW row2, NEW h2, NEW res2,
           RowInv(row, h, res), RowAbandoned(row, h, res, row2, h2, res2)
    PROVE  RowInv(row2, h2, res2) /\ Extends(h2, h) /\ res \subseteq res2
<1>1. /\ row.attempt = Len(h) /\ Len(h) \in 1..Len(h)
      /\ h[Len(h)] = "Unfinished" /\ res2 = res
      /\ h2 = FinishAsAmbiguous(h, Len(h))
      /\ row2.state = "Ambiguous" /\ row2.attempt = Len(h)
  BY RowInFlight DEF RowAbandoned
<1>2. /\ h2 \in Seq(Outcome) /\ Len(h2) = Len(h) /\ h2[Len(h)] = "Ambiguous"
      /\ \A n \in 1..Len(h) : n # Len(h) => h2[n] = h[n]
  BY <1>1, FinishAsAmbiguousValue
<1>3. \A n \in 1..Len(h) : n # Len(h) => h[n] # "Unfinished"
  BY DEF RowInv, HistoryMatches
<1>4. h2 # <<>>
  BY <1>1, <1>2
<1>5. HistoryMatches(row2, h2, res2)
  BY <1>1, <1>2, <1>3, <1>4 DEF HistoryMatches, NamesLast
<1>6. \A n \in 1..(Len(h2) - 1) : MayFollow(h2, res2, n)
  <2> TAKE n \in 1..(Len(h2) - 1)
  <2>1. n \in 1..(Len(h) - 1) /\ n \in 1..Len(h) /\ n # Len(h)
    BY <1>1, <1>2
  <2>2. MayFollow(h, res, n) /\ h2[n] = h[n] /\ res \subseteq res2
    BY <1>1, <1>2, <2>1 DEF RowInv
  <2> QED BY <2>2, MayFollowStays
<1>7. Extends(h2, h) /\ Resumable(row2, h2, res2)
  BY <1>1, <1>2 DEF Extends, Resumable
<1> QED
  BY <1>1, <1>5, <1>6, <1>7 DEF RowInv

LEMMA RowRestsKeeps ==
    ASSUME NEW row, NEW h \in Seq(Outcome), NEW res, NEW row2, NEW h2, NEW res2,
           RowInv(row, h, res), RowRests(row, h, res, row2, h2, res2)
    PROVE  RowInv(row2, h2, res2) /\ Extends(h2, h) /\ res \subseteq res2
<1>1. h2 = h /\ res2 = res
  BY DEF RowRests
<1>2. CASE row2 = row
  BY <1>1, <1>2 DEF Extends
<1>3. CASE row2 # row
  <2>1. row.state # "Attempting" /\ row2.state \in {"NotPlanned", "Cancelled", "Pending", "RetryScheduled"}
    BY <1>3 DEF RowRests
  <2>2. \A n \in 1..Len(h) : h[n] # "Unfinished"
    BY <2>1, RowInFlight
  <2>3. HistoryMatches(row2, h2, res2)
    BY <1>1, <2>1, <2>2 DEF HistoryMatches
  <2>4. Resumable(row2, h2, res2)
    BY <1>1, <1>3, <2>1 DEF RowRests, Resumable, RowInv
  <2> QED BY <1>1, <2>3, <2>4 DEF RowInv, Extends
<1> QED
  BY <1>2, <1>3

(* No move of a row breaks its invariant or rewrites its history.           *)
LEMMA RowMovesKeep ==
    ASSUME NEW row, NEW h \in Seq(Outcome), NEW res, NEW row2, NEW h2, NEW res2,
           RowInv(row, h, res), RowMoves(row, h, res, row2, h2, res2)
    PROVE  RowInv(row2, h2, res2) /\ Extends(h2, h) /\ res \subseteq res2
BY RowBeginsKeeps, RowFinishesKeeps, RowResolvedKeeps, RowAbandonedKeeps, RowRestsKeeps
   DEF RowMoves

-----------------------------------------------------------------------------
(* The moves of every row *)

UploadMoves(x) ==
    RowMoves(upload[x], uploadAttempts[x], uploadResolutions[x],
             upload'[x], uploadAttempts'[x], uploadResolutions'[x])

SubmissionMoves(s) ==
    RowMoves(submission[s], submissionAttempts[s], submissionResolutions[s],
             submission'[s], submissionAttempts'[s], submissionResolutions'[s])

RowsInv ==
    /\ \A x \in Slot : RowInv(upload[x], uploadAttempts[x], uploadResolutions[x])
    /\ \A s \in Session :
          RowInv(submission[s], submissionAttempts[s], submissionResolutions[s])

(* What was ever sent is a recording that is kept, or was until it had been *)
(* published.                                                               *)
SentIsUsable == \A x \in Slot : uploadAttempts[x] # <<>> => IsUsable(artifact[x])

LEMMA RestingRowMoves ==
    ASSUME NEW row, NEW h, NEW res
    PROVE  RowMoves(row, h, res, row, h, res)
BY DEF RowMoves, RowRests

LEMMA RecordingMovesUploads ==
    ASSUME StoreTypeOK, RowsInv, SentIsUsable, RecordingNext, NEW y \in Slot
    PROVE  UploadMoves(y)
<1> USE DEF StoreTypeOK, SetUpload, SetArtifact, uploadVars
<1>a. UNCHANGED <<upload[y], uploadAttempts[y], uploadResolutions[y]>> => UploadMoves(y)
  BY RestingRowMoves DEF UploadMoves
(* A row is thrown away only with a file that was never sent.               *)
<1>b. ~IsUsable(artifact[y]) => uploadAttempts[y] = <<>> /\ upload[y].state # "Attempting"
  <2>1. ~IsUsable(artifact[y]) => uploadAttempts[y] = <<>>
    BY DEF SentIsUsable
  <2>2. upload[y].state = "Attempting" => uploadAttempts[y] # <<>>
    BY DEF RowsInv, RowInv, HistoryMatches, NamesLast
  <2> QED BY <2>1, <2>2
<1>c. ASSUME ~IsUsable(artifact[y]), uploadAttempts' = uploadAttempts,
             uploadResolutions' = uploadResolutions,
             upload'[y].state \in {"NotPlanned", "Pending"}
      PROVE  UploadMoves(y)
  BY <1>b, <1>c DEF UploadMoves, RowMoves, RowRests
<1>1. ASSUME NEW s \in Session, CreateSession(s) \/ RequireRecovery(s) \/ CloseNatural(s)
      PROVE  UploadMoves(y)
  BY <1>1, <1>a DEF CreateSession, RequireRecovery, CloseNatural
<1>2. ASSUME NEW s \in Session, CloseAbandon(s)
      PROVE  UploadMoves(y)
  <2>1. /\ upload'[y] = IF y[1] = s THEN AbandonUpload(upload[y]) ELSE upload[y]
        /\ uploadAttempts'[y] = IF y[1] = s /\ upload[y].state = "Attempting"
                                THEN FinishAsAmbiguous(uploadAttempts[y], upload[y].attempt)
                                ELSE uploadAttempts[y]
        /\ uploadResolutions' = uploadResolutions
    BY <1>2 DEF CloseAbandon
  <2> QED BY <2>1, <1>a DEF AbandonUpload, UploadOf, UploadIs, UploadMoves, RowMoves,
          RowRests, RowAbandoned
<1>3. ASSUME NEW s \in Session, NEW b \in BOOLEAN, CloseRecover(s, b)
      PROVE  UploadMoves(y)
  <2>1. /\ uploadAttempts' = uploadAttempts /\ uploadResolutions' = uploadResolutions
        /\ \/ upload'[y] = upload[y]
           \/ artifact[y] = "Failed" /\ upload'[y] = UploadIs("NotPlanned")
    BY <1>3 DEF CloseRecover
  <2> QED BY <2>1, <1>a, <1>c DEF UploadIs, IsUsable
<1>4. ASSUME NEW x \in Slot, OpenSegment(x)
      PROVE  UploadMoves(y)
  <2>1. /\ uploadAttempts' = uploadAttempts /\ uploadResolutions' = uploadResolutions
        /\ \/ upload'[y] = upload[y]
           \/ /\ artifact[y] = "Absent"
              /\ upload'[y].state \in {"NotPlanned", "Pending"}
    BY <1>4 DEF OpenSegment, HasSegment, Pending, UploadIs
  <2> QED BY <2>1, <1>a, <1>c DEF IsUsable
<1>5. ASSUME NEW x \in Slot,
             \/ BeginArtifactFinalization(x) \/ BeginArtifactDiscard(x)
             \/ CompleteArtifactFinalization(x) \/ CompleteArtifactConflictResolution(x)
             \/ \E d \in Decision : BeginArtifactConflictResolution(x, d)
             \/ FailArtifact(x) \/ BeginArtifactDelete(x) \/ CompleteArtifactDelete(x)
      PROVE  UploadMoves(y)
  BY <1>5, <1>a DEF BeginArtifactFinalization, BeginArtifactDiscard, BeginArtifact,
     CompleteArtifactFinalization, CompleteArtifactConflictResolution, CompleteArtifact,
     BeginArtifactConflictResolution, FailArtifact, BeginArtifactDelete,
     CompleteArtifactDelete
<1>6. ASSUME NEW x \in Slot, CompleteArtifactDiscard(x) \/ ExcludeArtifactConflict(x)
      PROVE  UploadMoves(y)
  <2>1. /\ uploadAttempts' = uploadAttempts /\ uploadResolutions' = uploadResolutions
        /\ \/ upload'[y] = upload[y]
           \/ /\ artifact[y] \in {"Discarding", "ResolvingExclude"}
              /\ upload'[y] = UploadIs("NotPlanned")
    BY <1>6 DEF CompleteArtifactDiscard, ExcludeArtifactConflict, CompleteArtifact, Resolving
  <2> QED BY <2>1, <1>a, <1>c DEF UploadIs, IsUsable
<1> QED
  BY <1>1, <1>2, <1>3, <1>4, <1>5, <1>6 DEF RecordingNext

LEMMA RecordingKeepsSubmissions ==
    ASSUME RecordingNext
    PROVE  UNCHANGED <<submissionVars, gate>>
BY DEF RecordingNext, CreateSession, RequireRecovery, CloseNatural, CloseAbandon,
   CloseRecover, OpenSegment, BeginArtifactFinalization, BeginArtifactDiscard,
   BeginArtifact, CompleteArtifactFinalization, CompleteArtifactDiscard,
   CompleteArtifactConflictResolution, ExcludeArtifactConflict, CompleteArtifact,
   BeginArtifactConflictResolution, FailArtifact, BeginArtifactDelete,
   CompleteArtifactDelete

(* An upload step moves one upload, and no submission.                      *)
UploadNext(x) ==
    \/ NoAttemptInFlight /\ BeginUpload(x)
    \/ CompleteUpload(x)
    \/ \E sc \in Scope : ScheduleUploadRetry(x, sc) \/ BlockUpload(x, sc)
    \/ MarkUploadAmbiguous(x)
    \/ \E h \in BOOLEAN : ResolveUpload(x, h)
    \/ UploadRetryDue(x)

SubmissionNext(s) ==
    \/ NoAttemptInFlight /\ BeginSubmission(s)
    \/ CompleteSubmission(s)
    \/ \E sc \in Scope : ScheduleSubmissionRetry(s, sc) \/ BlockSubmission(s, sc)
    \/ MarkSubmissionAmbiguous(s)
    \/ \E h \in BOOLEAN : ResolveSubmission(s, h)
    \/ SubmissionRetryDue(s)

LEMMA RemoteSteps ==
    ASSUME RemoteNext
    PROVE  \/ \E x \in Slot : UploadNext(x)
           \/ \E s \in Session : SubmissionNext(s)
           \/ \E t \in Target : BackoffDue(t)
BY DEF RemoteNext, UploadNext, SubmissionNext

LEMMA UploadStepMoves ==
    ASSUME StoreTypeOK, RowsInv, NEW x \in Slot, UploadNext(x)
    PROVE  /\ \A y \in Slot : UploadMoves(y)
           /\ \A y \in Slot : y # x =>
                 UNCHANGED <<upload[y], uploadAttempts[y], uploadResolutions[y]>>
           /\ UNCHANGED submissionVars
<1> USE DEF StoreTypeOK
<1>1. /\ UNCHANGED submissionVars
      /\ \A y \in Slot : y # x =>
            UNCHANGED <<upload[y], uploadAttempts[y], uploadResolutions[y]>>
  BY DEF UploadNext, BeginUpload, CompleteUpload, ScheduleUploadRetry, BlockUpload,
     MarkUploadAmbiguous, FinishUpload, ResolveUpload, UploadRetryDue, SetUpload
<1>2. UploadMoves(x)
  <2>1. CASE BeginUpload(x)
    <3>1. RowBegins(upload[x], uploadAttempts[x], uploadResolutions[x],
                    upload'[x], uploadAttempts'[x], uploadResolutions'[x])
      BY <2>1 DEF BeginUpload, MayUpload, SetUpload, UploadOf, RowBegins
    <3> QED BY <3>1 DEF UploadMoves, RowMoves
  <2>2. ASSUME NEW outcome \in Outcome \ {"Unfinished"}, NEW up,
               FinishUpload(x, outcome, up),
               \/ outcome = "Confirmed" /\ up.state \in {"Uploaded", "Submitted"}
               \/ outcome = "RetryScheduled" /\ up.state \in {"Pending", "RetryScheduled"}
               \/ /\ outcome \in {"Blocked", "Ambiguous"}
                  /\ up.state = outcome /\ up.attempt = upload[x].attempt
        PROVE  UploadMoves(x)
    <3>1. /\ upload[x].state = "Attempting" /\ uploadResolutions'[x] = uploadResolutions[x]
          /\ uploadAttempts'[x] = [uploadAttempts[x] EXCEPT ![upload[x].attempt] = outcome]
          /\ upload'[x] = up
      BY <2>2 DEF FinishUpload, SetUpload
    <3>2. RowFinishes(upload[x], uploadAttempts[x], uploadResolutions[x],
                      upload'[x], uploadAttempts'[x], uploadResolutions'[x])
      BY <2>2, <3>1 DEF RowFinishes
    <3> QED BY <3>2 DEF UploadMoves, RowMoves
  <2>3. CASE CompleteUpload(x)
    BY <2>2, <2>3 DEF CompleteUpload, UploadIs, Outcome
  <2>4. ASSUME NEW sc \in Scope, ScheduleUploadRetry(x, sc) \/ BlockUpload(x, sc)
        PROVE  UploadMoves(x)
    BY <2>2, <2>4 DEF ScheduleUploadRetry, BlockUpload, Pending, UploadOf, Outcome
  <2>5. CASE MarkUploadAmbiguous(x)
    BY <2>2, <2>5 DEF MarkUploadAmbiguous, UploadOf, Outcome
  <2>6. ASSUME NEW h \in BOOLEAN, ResolveUpload(x, h)
        PROVE  UploadMoves(x)
    <3>1. /\ upload'[x].state \in IF h THEN {"Uploaded", "Submitted"}
                                 ELSE {"Pending", "Cancelled", "RetryAuthorized"}
          /\ upload[x].state \in {"Attempting", "Ambiguous", "Blocked"}
      BY <2>6 DEF ResolveUpload, Recoverable, SetUpload, UploadIs, NotUploadedState, Pending
    <3>2. /\ uploadAttempts'[x] = FinishAsAmbiguous(uploadAttempts[x], upload[x].attempt)
          /\ uploadResolutions'[x] = uploadResolutions[x] \cup
                                        {[attempt |-> upload[x].attempt, happened |-> h]}
      BY <2>6 DEF ResolveUpload
    <3>3. RowResolved(upload[x], uploadAttempts[x], uploadResolutions[x],
                      upload'[x], uploadAttempts'[x], uploadResolutions'[x])
      BY <3>1, <3>2 DEF RowResolved
    <3> QED BY <3>3 DEF UploadMoves, RowMoves
  <2>7. CASE UploadRetryDue(x)
    <3>1. RowRests(upload[x], uploadAttempts[x], uploadResolutions[x],
                   upload'[x], uploadAttempts'[x], uploadResolutions'[x])
      BY <2>7 DEF UploadRetryDue, SetUpload, Pending, RowRests
    <3> QED BY <3>1 DEF UploadMoves, RowMoves
  <2> QED BY <2>1, <2>3, <2>4, <2>5, <2>6, <2>7 DEF UploadNext
<1> QED
  BY <1>1, <1>2, RestingRowMoves DEF UploadMoves

LEMMA SubmissionStepMoves ==
    ASSUME StoreTypeOK, RowsInv, NEW s \in Session, SubmissionNext(s)
    PROVE  /\ \A r \in Session : SubmissionMoves(r)
           /\ \A r \in Session : r # s =>
                 UNCHANGED <<submission[r], submissionAttempts[r], submissionResolutions[r]>>
           /\ UNCHANGED uploadVars
<1> USE DEF StoreTypeOK
<1>1. /\ UNCHANGED uploadVars
      /\ \A r \in Session : r # s =>
            UNCHANGED <<submission[r], submissionAttempts[r], submissionResolutions[r]>>
  BY DEF SubmissionNext, BeginSubmission, CompleteSubmission, ScheduleSubmissionRetry,
     BlockSubmission, MarkSubmissionAmbiguous, FinishSubmission, ResolveSubmission,
     SubmissionRetryDue, SetSubmission
<1>2. SubmissionMoves(s)
  <2>1. CASE BeginSubmission(s)
    <3>1. RowBegins(submission[s], submissionAttempts[s], submissionResolutions[s],
                    submission'[s], submissionAttempts'[s], submissionResolutions'[s])
      BY <2>1 DEF BeginSubmission, MaySubmit, SetSubmission, SubmissionOf, RowBegins
    <3> QED BY <3>1 DEF SubmissionMoves, RowMoves
  <2>2. ASSUME NEW outcome \in Outcome \ {"Unfinished"}, NEW row,
               FinishSubmission(s, outcome, row),
               \/ outcome = "Confirmed" /\ row.state \in {"Uploaded", "Submitted"}
               \/ outcome = "RetryScheduled" /\ row.state \in {"Pending", "RetryScheduled"}
               \/ /\ outcome \in {"Blocked", "Ambiguous"}
                  /\ row.state = outcome /\ row.attempt = submission[s].attempt
        PROVE  SubmissionMoves(s)
    <3>1. /\ submission[s].state = "Attempting"
          /\ submissionResolutions'[s] = submissionResolutions[s]
          /\ submissionAttempts'[s] =
                [submissionAttempts[s] EXCEPT ![submission[s].attempt] = outcome]
          /\ submission'[s] = row
      BY <2>2 DEF FinishSubmission, SetSubmission
    <3>2. RowFinishes(submission[s], submissionAttempts[s], submissionResolutions[s],
                      submission'[s], submissionAttempts'[s], submissionResolutions'[s])
      BY <2>2, <3>1 DEF RowFinishes
    <3> QED BY <3>2 DEF SubmissionMoves, RowMoves
  <2>3. CASE CompleteSubmission(s)
    BY <2>2, <2>3 DEF CompleteSubmission, SubmissionIs, Outcome
  <2>4. ASSUME NEW sc \in Scope, ScheduleSubmissionRetry(s, sc) \/ BlockSubmission(s, sc)
        PROVE  SubmissionMoves(s)
    BY <2>2, <2>4 DEF ScheduleSubmissionRetry, BlockSubmission, RetryScheduled,
       SubmissionOf, Outcome
  <2>5. CASE MarkSubmissionAmbiguous(s)
    BY <2>2, <2>5 DEF MarkSubmissionAmbiguous, SubmissionOf, Outcome
  <2>6. ASSUME NEW h \in BOOLEAN, ResolveSubmission(s, h)
        PROVE  SubmissionMoves(s)
    <3>1. /\ submission'[s].state \in IF h THEN {"Uploaded", "Submitted"}
                                     ELSE {"Pending", "Cancelled", "RetryAuthorized"}
          /\ submission[s].state \in {"Attempting", "Ambiguous", "Blocked"}
      BY <2>6 DEF ResolveSubmission, Recoverable, SetSubmission, SubmissionIs
    <3>2. /\ submissionAttempts'[s] =
                FinishAsAmbiguous(submissionAttempts[s], submission[s].attempt)
          /\ submissionResolutions'[s] = submissionResolutions[s] \cup
                                           {[attempt |-> submission[s].attempt, happened |-> h]}
      BY <2>6 DEF ResolveSubmission
    <3>3. RowResolved(submission[s], submissionAttempts[s], submissionResolutions[s],
                      submission'[s], submissionAttempts'[s], submissionResolutions'[s])
      BY <3>1, <3>2 DEF RowResolved
    <3> QED BY <3>3 DEF SubmissionMoves, RowMoves
  <2>7. CASE SubmissionRetryDue(s)
    <3>1. RowRests(submission[s], submissionAttempts[s], submissionResolutions[s],
                   submission'[s], submissionAttempts'[s], submissionResolutions'[s])
      BY <2>7 DEF SubmissionRetryDue, SetSubmission, RetryScheduled, RowRests
    <3> QED BY <3>1 DEF SubmissionMoves, RowMoves
  <2> QED BY <2>1, <2>3, <2>4, <2>5, <2>6, <2>7 DEF SubmissionNext
<1> QED
  BY <1>1, <1>2, RestingRowMoves DEF SubmissionMoves

(* Every step moves every row by the rules.                                 *)
LEMMA AllRowsMove ==
    ASSUME StoreTypeOK, RowsInv, SentIsUsable, [Next]_vars
    PROVE  /\ \A x \in Slot : UploadMoves(x)
           /\ \A s \in Session : SubmissionMoves(s)
<1>a. ASSUME UNCHANGED uploadVars
      PROVE  \A x \in Slot : UploadMoves(x)
  BY <1>a, RestingRowMoves DEF UploadMoves, uploadVars
<1>b. ASSUME UNCHANGED submissionVars
      PROVE  \A s \in Session : SubmissionMoves(s)
  BY <1>b, RestingRowMoves DEF SubmissionMoves, submissionVars
<1>1. CASE RecordingNext
  BY <1>1, <1>b, RecordingMovesUploads, RecordingKeepsSubmissions
<1>2. CASE \E x \in Slot : UploadNext(x)
  BY <1>2, <1>b, UploadStepMoves
<1>3. CASE \E s \in Session : SubmissionNext(s)
  BY <1>3, <1>a, SubmissionStepMoves
<1>4. CASE (\E t \in Target : BackoffDue(t)) \/ UNCHANGED storeVars
  BY <1>4, <1>a, <1>b DEF BackoffDue, storeVars
<1> QED
  BY <1>1, <1>2, <1>3, <1>4, StoreSteps, RemoteSteps

LEMMA RowsStep ==
    ASSUME StoreTypeOK, RowsInv, SentIsUsable, [Next]_vars
    PROVE  /\ RowsInv'
           /\ \A x \in Slot : /\ Extends(uploadAttempts'[x], uploadAttempts[x])
                              /\ uploadResolutions[x] \subseteq uploadResolutions'[x]
           /\ \A s \in Session :
                 /\ Extends(submissionAttempts'[s], submissionAttempts[s])
                 /\ submissionResolutions[s] \subseteq submissionResolutions'[s]
<1>1. ASSUME NEW x \in Slot
      PROVE  /\ RowInv(upload'[x], uploadAttempts'[x], uploadResolutions'[x])
             /\ Extends(uploadAttempts'[x], uploadAttempts[x])
             /\ uploadResolutions[x] \subseteq uploadResolutions'[x]
  <2>1. uploadAttempts[x] \in Seq(Outcome)
    BY DEF StoreTypeOK
  <2>2. RowInv(upload[x], uploadAttempts[x], uploadResolutions[x])
    BY DEF RowsInv
  <2>3. RowMoves(upload[x], uploadAttempts[x], uploadResolutions[x],
                 upload'[x], uploadAttempts'[x], uploadResolutions'[x])
    BY AllRowsMove DEF UploadMoves
  <2> QED BY <2>1, <2>2, <2>3, RowMovesKeep
<1>2. ASSUME NEW s \in Session
      PROVE  /\ RowInv(submission'[s], submissionAttempts'[s], submissionResolutions'[s])
             /\ Extends(submissionAttempts'[s], submissionAttempts[s])
             /\ submissionResolutions[s] \subseteq submissionResolutions'[s]
  <2>1. submissionAttempts[s] \in Seq(Outcome)
    BY DEF StoreTypeOK
  <2>2. RowInv(submission[s], submissionAttempts[s], submissionResolutions[s])
    BY DEF RowsInv
  <2>3. RowMoves(submission[s], submissionAttempts[s], submissionResolutions[s],
                 submission'[s], submissionAttempts'[s], submissionResolutions'[s])
    BY AllRowsMove DEF SubmissionMoves
  <2> QED BY <2>1, <2>2, <2>3, RowMovesKeep
<1> QED
  BY <1>1, <1>2 DEF RowsInv

(* A recording stays usable, even when its file is given up.                *)
LEMMA UsableStays ==
    ASSUME StoreTypeOK, RecordingNext, NEW y \in Slot, IsUsable(artifact[y])
    PROVE  IsUsable(artifact'[y]) /\ artifact'[y] \in {artifact[y], "Deleting", "Deleted"}
<1> USE DEF StoreTypeOK, SetArtifact, IsUsable
<1>1. ASSUME NEW s \in Session,
             \/ CreateSession(s) \/ RequireRecovery(s) \/ CloseNatural(s)
             \/ CloseAbandon(s) \/ \E b \in BOOLEAN : CloseRecover(s, b)
      PROVE  artifact'[y] = artifact[y]
  BY <1>1 DEF CreateSession, RequireRecovery, CloseNatural, CloseAbandon, CloseRecover
<1>2. ASSUME NEW x \in Slot,
             \/ OpenSegment(x) \/ BeginArtifactFinalization(x) \/ BeginArtifactDiscard(x)
             \/ \E d \in Decision : BeginArtifactConflictResolution(x, d)
             \/ FailArtifact(x)
      PROVE  artifact'[y] = artifact[y]
  <2>1. CASE OpenSegment(x)
    BY <2>1 DEF OpenSegment, HasSegment
  <2>2. CASE BeginArtifactFinalization(x) \/ BeginArtifactDiscard(x)
    BY <2>2 DEF BeginArtifactFinalization, BeginArtifactDiscard, BeginArtifact
  <2>3. CASE \E d \in Decision : BeginArtifactConflictResolution(x, d)
    BY <2>3 DEF BeginArtifactConflictResolution
  <2>4. CASE FailArtifact(x)
    BY <2>4 DEF FailArtifact, ResolvingConflict, Resolving, Decision
  <2> QED BY <1>2, <2>1, <2>2, <2>3, <2>4
<1>3. ASSUME NEW x \in Slot,
             \/ CompleteArtifactFinalization(x) \/ CompleteArtifactDiscard(x)
             \/ CompleteArtifactConflictResolution(x) \/ ExcludeArtifactConflict(x)
      PROVE  artifact'[y] = artifact[y]
  BY <1>3 DEF CompleteArtifactFinalization, CompleteArtifactDiscard, CompleteArtifact,
     CompleteArtifactConflictResolution, ExcludeArtifactConflict, Resolving
<1>4. ASSUME NEW x \in Slot, BeginArtifactDelete(x) \/ CompleteArtifactDelete(x)
      PROVE  artifact'[y] \in {artifact[y], "Deleting", "Deleted"}
  BY <1>4 DEF BeginArtifactDelete, CompleteArtifactDelete
<1> QED
  BY <1>1, <1>2, <1>3, <1>4 DEF RecordingNext

LEMMA SentStep ==
    ASSUME StoreTypeOK, SentIsUsable, [Next]_vars
    PROVE  SentIsUsable'
<1> SUFFICES ASSUME NEW y \in Slot, uploadAttempts'[y] # <<>>
             PROVE  IsUsable(artifact'[y])
  BY DEF SentIsUsable
<1>a. uploadAttempts[y] \in Seq(Outcome)
  BY DEF StoreTypeOK
<1>b. \A n : uploadAttempts[y] = <<>> => FinishAsAmbiguous(uploadAttempts[y], n) = <<>>
  BY DEF FinishAsAmbiguous
<1>1. CASE RecordingNext
  <2>1. uploadAttempts[y] # <<>>
    <3>1. \/ uploadAttempts' = uploadAttempts
          \/ \E s \in Session : CloseAbandon(s)
      BY <1>1 DEF RecordingNext, CreateSession, RequireRecovery, CloseNatural, CloseRecover,
         OpenSegment, BeginArtifactFinalization, BeginArtifactDiscard, BeginArtifact,
         CompleteArtifactFinalization, CompleteArtifactDiscard,
         CompleteArtifactConflictResolution, ExcludeArtifactConflict, CompleteArtifact,
         BeginArtifactConflictResolution, FailArtifact, BeginArtifactDelete,
         CompleteArtifactDelete, uploadVars
    <3>2. ASSUME NEW s \in Session, CloseAbandon(s)
          PROVE  uploadAttempts[y] # <<>>
      BY <3>2, <1>b DEF CloseAbandon
    <3> QED BY <3>1, <3>2
  <2> QED BY <1>1, <2>1, UsableStays DEF SentIsUsable
<1>2. ASSUME NEW x \in Slot, UploadNext(x)
      PROVE  uploadAttempts[y] # <<>> \/ artifact[y] = "Ready"
  <2> USE DEF StoreTypeOK
  <2>1. CASE BeginUpload(x)
    BY <2>1 DEF BeginUpload, MayUpload
  <2>2. ASSUME NEW outcome, NEW up, FinishUpload(x, outcome, up)
        PROVE  uploadAttempts[y] # <<>>
    BY <2>2, <1>a DEF FinishUpload
  <2>3. CASE \E h \in BOOLEAN : ResolveUpload(x, h)
    BY <2>3, <1>b DEF ResolveUpload
  <2>4. CASE UploadRetryDue(x)
    BY <2>4 DEF UploadRetryDue
  <2> QED BY <1>2, <2>1, <2>2, <2>3, <2>4 DEF UploadNext, CompleteUpload,
          ScheduleUploadRetry, BlockUpload, MarkUploadAmbiguous
<1>3. ASSUME NEW s \in Session, SubmissionNext(s)
      PROVE  uploadAttempts' = uploadAttempts
  BY <1>3 DEF SubmissionNext, BeginSubmission, CompleteSubmission, ScheduleSubmissionRetry,
     BlockSubmission, MarkSubmissionAmbiguous, FinishSubmission, ResolveSubmission,
     SubmissionRetryDue, uploadVars
<1>4. CASE RemoteNext \/ UNCHANGED storeVars
  <2>1. artifact' = artifact
    BY <1>4, RemoteKeepsRecording DEF storeVars, recordingVars
  <2>2. uploadAttempts[y] # <<>> \/ artifact[y] = "Ready"
    BY <1>2, <1>3, <1>4, RemoteSteps DEF BackoffDue, storeVars, uploadVars
  <2> QED BY <2>1, <2>2 DEF SentIsUsable, IsUsable
<1> QED
  BY <1>1, <1>4, StoreSteps

LEMMA InitRows == Init => RowsInv /\ SentIsUsable
<1> SUFFICES ASSUME Init PROVE RowsInv /\ SentIsUsable
  OBVIOUS
<1>1. \A x \in Slot : upload[x].state = "NotPlanned" /\ uploadAttempts[x] = <<>>
  BY DEF Init, StoreInit, UploadIs
<1>2. \A s \in Session : submission[s].state = "Absent" /\ submissionAttempts[s] = <<>>
  BY DEF Init, StoreInit, SubmissionIs
<1> QED BY <1>1, <1>2
        DEF RowsInv, RowInv, HistoryMatches, Resumable, SentIsUsable

LEMMA RowsAlwaysHold == Spec => [](RowTypes /\ RowsInv /\ SentIsUsable)
<1>1. RowTypes /\ RowsInv /\ SentIsUsable /\ [Next]_vars => RowsInv' /\ SentIsUsable'
  BY RowsStep, SentStep DEF RowTypes, StoreTypeOK
<1> QED
  BY <1>1, InitRows, TypesHold, PTL DEF Spec

(* A decision is about the attempt its row named, and attempts are kept.    *)
LEMMA DecisionsStayKnown ==
    ASSUME NEW row, NEW h \in Seq(Outcome), NEW res, NEW row2, NEW h2 \in Seq(Outcome),
           NEW res2,
           RowInv(row, h, res), RowMoves(row, h, res, row2, h2, res2),
           \A d \in res : d.attempt \in DOMAIN h
    PROVE  \A d \in res2 : d.attempt \in DOMAIN h2
<1>1. DOMAIN h \subseteq DOMAIN h2
  <2>1. Extends(h2, h)
    BY RowMovesKeep
  <2> QED
    BY <2>1 DEF Extends
<1>2. CASE RowResolved(row, h, res, row2, h2, res2)
  <2>1. row.attempt \in DOMAIN h
    BY <1>2, RowInFlight DEF RowResolved
  <2> QED
    BY <1>1, <1>2, <2>1 DEF RowResolved
<1>3. CASE ~RowResolved(row, h, res, row2, h2, res2)
  <2>1. res2 = res
    BY <1>3 DEF RowMoves, RowBegins, RowFinishes, RowAbandoned, RowRests
  <2> QED
    BY <1>1, <2>1
<1> QED
  BY <1>2, <1>3

DecisionsKnown ==
    /\ \A x \in Slot :
          \A d \in uploadResolutions[x] : d.attempt \in DOMAIN uploadAttempts[x]
    /\ \A s \in Session :
          \A d \in submissionResolutions[s] : d.attempt \in DOMAIN submissionAttempts[s]

LEMMA DecisionsStep ==
    ASSUME StoreTypeOK, StoreTypeOK', RowsInv, SentIsUsable, DecisionsKnown, [Next]_vars
    PROVE  DecisionsKnown'
<1>1. ASSUME NEW x \in Slot
      PROVE  \A d \in uploadResolutions'[x] : d.attempt \in DOMAIN uploadAttempts'[x]
  <2>1. /\ uploadAttempts[x] \in Seq(Outcome) /\ uploadAttempts'[x] \in Seq(Outcome)
        /\ RowInv(upload[x], uploadAttempts[x], uploadResolutions[x])
        /\ \A d \in uploadResolutions[x] : d.attempt \in DOMAIN uploadAttempts[x]
    BY DEF StoreTypeOK, RowsInv, DecisionsKnown
  <2>2. RowMoves(upload[x], uploadAttempts[x], uploadResolutions[x],
                 upload'[x], uploadAttempts'[x], uploadResolutions'[x])
    BY AllRowsMove DEF UploadMoves
  <2> QED BY <2>1, <2>2, DecisionsStayKnown
<1>2. ASSUME NEW s \in Session
      PROVE  \A d \in submissionResolutions'[s] : d.attempt \in DOMAIN submissionAttempts'[s]
  <2>1. /\ submissionAttempts[s] \in Seq(Outcome)
        /\ submissionAttempts'[s] \in Seq(Outcome)
        /\ RowInv(submission[s], submissionAttempts[s], submissionResolutions[s])
        /\ \A d \in submissionResolutions[s] : d.attempt \in DOMAIN submissionAttempts[s]
    BY DEF StoreTypeOK, RowsInv, DecisionsKnown
  <2>2. RowMoves(submission[s], submissionAttempts[s], submissionResolutions[s],
                 submission'[s], submissionAttempts'[s], submissionResolutions'[s])
    BY AllRowsMove DEF SubmissionMoves
  <2> QED BY <2>1, <2>2, DecisionsStayKnown
<1> QED
  BY <1>1, <1>2 DEF DecisionsKnown

(* Every row of the store always has its type, the program is in one of its *)
(* three phases, and every attempt that a row in flight or a decision names *)
(* was made (begin_upload, begin_submission, the resolve commands). *)
THEOREM TypeCorrect == Spec => []TypeOK
<1>1. Init => DecisionsKnown
  BY DEF Init, StoreInit, DecisionsKnown
<1>2. RowTypes /\ RowsInv /\ SentIsUsable /\ DecisionsKnown /\ [Next]_vars => DecisionsKnown'
  BY DecisionsStep, TypeStep DEF RowTypes, StoreTypeOK
<1>3. RowTypes /\ RowsInv /\ DecisionsKnown => TypeOK
  <2> SUFFICES ASSUME RowTypes, RowsInv, DecisionsKnown PROVE TypeOK
    OBVIOUS
  <2>1. ASSUME NEW x \in Slot
        PROVE  AttemptsAreKnown(upload[x], uploadAttempts[x], uploadResolutions[x])
    <3>1. /\ uploadAttempts[x] \in Seq(Outcome)
          /\ RowInv(upload[x], uploadAttempts[x], uploadResolutions[x])
      BY DEF RowTypes, RowsInv
    <3>2. Recoverable(upload[x]) => upload[x].attempt \in DOMAIN uploadAttempts[x]
      BY <3>1, RowInFlight DEF Recoverable
    <3> QED BY <3>2 DEF AttemptsAreKnown, DecisionsKnown
  <2>2. ASSUME NEW s \in Session
        PROVE  AttemptsAreKnown(submission[s], submissionAttempts[s], submissionResolutions[s])
    <3>1. /\ submissionAttempts[s] \in Seq(Outcome)
          /\ RowInv(submission[s], submissionAttempts[s], submissionResolutions[s])
      BY DEF RowTypes, RowsInv
    <3>2. Recoverable(submission[s]) => submission[s].attempt \in DOMAIN submissionAttempts[s]
      BY <3>1, RowInFlight DEF Recoverable
    <3> QED BY <3>2 DEF AttemptsAreKnown, DecisionsKnown
  <2> QED BY <2>1, <2>2 DEF TypeOK
<1> QED
  BY <1>1, <1>2, <1>3, RowsAlwaysHold, PTL DEF Spec

(* The row of every upload and submission says what its attempts say.       *)
THEOREM HistoriesMatchTheirRows == Spec => []AttemptHistoriesMatch
<1>1. RowsInv => AttemptHistoriesMatch
  BY DEF RowsInv, RowInv, AttemptHistoriesMatch
<1> QED
  BY <1>1, RowsAlwaysHold, PTL

(* However the program was interrupted, no attempt follows another that may *)
(* have reached the remote: BeginUpload and BeginSubmission only ever come  *)
(* after a retryable failure or an operator's word that nothing happened.   *)
THEOREM NothingIsSentBlindly == Spec => []NoBlindRetry
<1>1. RowsInv => NoBlindRetry
  BY DEF RowsInv, RowInv, NoBlindRetry
<1> QED
  BY <1>1, RowsAlwaysHold, PTL

(* No step of the program, of a restart or of an operator rewrites what a   *)
(* finished attempt recorded, or loses an attempt or a resolution.          *)
THEOREM EvidenceIsKept == Spec => HistoryIsAppendOnly
<1> DEFINE Kept == /\ \A x \in Slot : /\ Extends(uploadAttempts'[x], uploadAttempts[x])
                                    /\ uploadResolutions[x] \subseteq uploadResolutions'[x]
                   /\ \A s \in Session :
                         /\ Extends(submissionAttempts'[s], submissionAttempts[s])
                         /\ submissionResolutions[s] \subseteq submissionResolutions'[s]
<1>1. RowTypes /\ RowsInv /\ SentIsUsable /\ [Next]_vars => [Kept]_vars
  BY RowsStep DEF RowTypes, StoreTypeOK
<1> QED
  BY <1>1, RowsAlwaysHold, PTL DEF Spec, HistoryIsAppendOnly
=============================================================================

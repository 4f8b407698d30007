-------------------------- MODULE CommandQueueProofs --------------------------
(***************************************************************************)
(* For every set of requests, workers and bounds: no request is in the     *)
(* hands of two workers, what reaches the participant is in the table of   *)
(* attempts, a failed operation took no effect and cannot, and the queue   *)
(* implements CommandOnce.                                                 *)
(*                                                                         *)
(* The argument rests on the status of a row alone, as the code does: the  *)
(* row of a request that a worker holds is 'claimed', 'submitted' or       *)
(* 'failed' according to where the worker is (HeldRows), so a second       *)
(* worker, which locks only 'received' rows that nobody else has locked,   *)
(* cannot claim it.  A worker that still has to write an operation when    *)
(* its request is back in the queue (retryOp) does not hold it any more.   *)
(***************************************************************************)
EXTENDS CommandQueue, FiniteSetTheorems, SequenceTheorems, TLAPS

\* The requests of a batch, each of which is in it once.
Rows(b) == {b[i] : i \in DOMAIN b}

Distinct(b) == \A i, j \in DOMAIN b : b[i] = b[j] => i = j

\* The worker is at a request of its batch.
Busy(w) == pc[w] \notin {"idle", "selected", "take"}

AtLedger == {"build", "await", "retryRow"}

\* What the row says of the request a worker at this step is at.
RowAt(step) ==
  IF step \in AtLedger THEN "submitted"
  ELSE IF step = "failOp" THEN "failed" ELSE "claimed"

\* The attempt of the request at hand is written, or there will be none.
Tried == Steps \ {"idle", "selected", "take", "identify", "insert"}

WorkerShape ==
  \A w \in Worker :
    /\ Distinct(batch[w])
    /\ pc[w] \in {"idle", "selected"} => batch[w] = <<>>
    /\ pc[w] # "selected" => locked[w] = {}
    /\ Busy(w) => batch[w] # <<>>

\* The rows locked by open claims are claimable, each by one claim.
LocksApart ==
  /\ \A w \in Worker : \A r \in locked[w] : row[r] = "received"
  /\ \A v, w \in Worker : v # w => locked[v] \cap locked[w] = {}

\* The status of a row tells that a worker holds it.
HeldRows ==
  \A w \in Worker, r \in Request :
    Holds(w, r) => row[r] = IF r = Current(w) THEN RowAt(pc[w]) ELSE "claimed"

HeldApart ==
  \A v, w \in Worker, r \in Request : Holds(v, r) /\ Holds(w, r) => v = w

HeldInv == WorkerShape /\ LocksApart /\ HeldRows /\ HeldApart

\* The worker's own checks and its submission fit the request at hand.
CurrentFits ==
  \A w \in Worker : Busy(w) =>
    /\ pc[w] \in {"failRow", "failOp"} => Current(w) \in Mismatched
    /\ pc[w] \notin {"identify", "failRow", "failOp"} => Current(w) \notin Mismatched
    /\ pc[w] = "insert" => submission[w] = NewId(Current(w))
    /\ pc[w] \in {"markOp", "markRow", "build"} => submission[w] \in attempts[Current(w)]

\* A request that will be attempted has an attempt left.
RoomToTry ==
  /\ \A r \in Request : row[r] = "received" => Cardinality(attempts[r]) < MaxAttempts
  /\ \A w \in Worker, r \in Request :
       Holds(w, r) /\ ~(r = Current(w) /\ pc[w] \in Tried)
         => Cardinality(attempts[r]) < MaxAttempts

\* Only requests with another identity fail, and they are never attempted.
FailedMismatch ==
  \A r \in Request :
    /\ "failed" \in {row[r], op[r]} => r \in Mismatched
    /\ row[r] = "absent" \/ r \in Mismatched => attempts[r] = {}

\* A command id is executed once, by an attempt that is in the table.
ExecutedOnce ==
  /\ executed \subseteq Request
  /\ \A r \in Request : /\ effects[r] = (IF r \in executed THEN 1 ELSE 0)
                        /\ r \in executed => attempts[r] # {}

QueueInv ==
  /\ CommandTypeOK
  /\ HeldInv
  /\ CurrentFits
  /\ RoomToTry
  /\ FailedMismatch
  /\ AttemptsRecorded
  /\ ExecutedOnce

-----------------------------------------------------------------------------
(* Batches.                                                                *)

\* What Finish leaves of a batch.
LEMMA TailOfBatch ==
  ASSUME NEW b \in Seq(Request), b # <<>>, Distinct(b)
  PROVE  /\ Head(b) \in Request /\ Head(b) \in Rows(b)
         /\ Tail(b) \in Seq(Request) /\ Distinct(Tail(b))
         /\ Rows(Tail(b)) = Rows(b) \ {Head(b)}
<1>1. /\ Len(b) \in Nat \ {0} /\ DOMAIN b = 1..Len(b) /\ Head(b) = b[1]
  BY EmptySeq, LenProperties
<1>2. /\ Head(b) \in Request /\ Tail(b) \in Seq(Request)
      /\ Len(Tail(b)) = Len(b) - 1
      /\ \A i \in 1..Len(Tail(b)) : Tail(b)[i] = b[i + 1]
  BY HeadTailProperties
<1>3. DOMAIN Tail(b) = 1..(Len(b) - 1)
  BY <1>2, LenProperties
<1>4. Head(b) \in Rows(b)
  BY <1>1 DEF Rows
<1>5. Distinct(Tail(b))
  <2> SUFFICES ASSUME NEW i \in 1..(Len(b) - 1), NEW j \in 1..(Len(b) - 1),
                      Tail(b)[i] = Tail(b)[j]
               PROVE  i = j
    BY <1>3 DEF Distinct
  <2>1. b[i + 1] = b[j + 1] /\ i + 1 \in 1..Len(b) /\ j + 1 \in 1..Len(b)
    BY <1>1, <1>2
  <2>2. i + 1 = j + 1
    BY <1>1, <2>1 DEF Distinct
  <2> QED
    BY <2>2
<1>6. Rows(Tail(b)) = Rows(b) \ {Head(b)}
  <2>1. ASSUME NEW r \in Rows(Tail(b)) PROVE r \in Rows(b) \ {Head(b)}
    <3>1. PICK i \in 1..(Len(b) - 1) : r = b[i + 1]
      BY <1>2, <1>3 DEF Rows
    <3>2. i + 1 \in 1..Len(b) /\ 1 \in 1..Len(b) /\ i + 1 # 1
      BY <1>1
    <3> QED
      BY <1>1, <3>1, <3>2 DEF Rows, Distinct
  <2>2. ASSUME NEW r \in Rows(b) \ {Head(b)} PROVE r \in Rows(Tail(b))
    <3>1. PICK i \in 1..Len(b) : r = b[i]
      BY <1>1 DEF Rows
    <3>2. i # 1
      BY <1>1, <3>1
    <3>3. i - 1 \in 1..(Len(b) - 1) /\ (i - 1) + 1 = i
      BY <1>1, <3>2
    <3>4. Tail(b)[i - 1] = r
      BY <1>2, <3>1, <3>3
    <3> QED
      BY <1>3, <3>3, <3>4 DEF Rows
  <2> QED
    BY <2>1, <2>2
<1> QED
  BY <1>2, <1>4, <1>5, <1>6

\* An empty batch holds nothing.
LEMMA EmptyBatch == Rows(<<>>) = {} /\ Distinct(<<>>) /\ <<>> \in Seq(Request)
BY EmptySeq, LenProperties DEF Rows, Distinct

\* What a claim puts into a batch: the rows claimed, each once.
LEMMA ClaimedBatch ==
  ASSUME NEW S \in SUBSET Request, NEW n \in Nat, NEW s \in [1..n -> S], InOrder(s)
  PROVE  s \in Seq(Request) /\ Distinct(s) /\ Rows(s) \subseteq S
<1>1. s \in Seq(Request)
  BY SeqDef
<1>2. Rows(s) \subseteq S
  BY DEF Rows
<1>3. Distinct(s)
  <2> SUFFICES ASSUME NEW i \in 1..n, NEW j \in 1..n, s[i] = s[j], i # j
               PROVE  FALSE
    BY DEF Distinct
  <2>1. s[i] \in Nat /\ s[j] \in Nat
    BY QueueAssumption
  <2>2. i < j \/ j < i
    OBVIOUS
  <2> QED
    BY <2>1, <2>2 DEF InOrder
<1> QED
  BY <1>1, <1>2, <1>3

-----------------------------------------------------------------------------
(* Who holds what.                                                         *)

\* A worker that is at a request holds it, until it put it back.
LEMMA CurrentIsHeld ==
  ASSUME CommandTypeOK, HeldInv, NEW w \in Worker, Busy(w)
  PROVE  /\ Current(w) \in Request
         /\ Current(w) \in Rows(batch[w])
         /\ pc[w] # "retryOp" => Holds(w, Current(w)) /\ row[Current(w)] = RowAt(pc[w])
<1>1. batch[w] \in Seq(Request) /\ batch[w] # <<>> /\ Distinct(batch[w])
  BY DEF CommandTypeOK, HeldInv, WorkerShape
<1>2. Current(w) \in Request /\ Current(w) \in Rows(batch[w])
  BY <1>1, TailOfBatch DEF Current
<1>3. ASSUME pc[w] # "retryOp" PROVE Holds(w, Current(w)) /\ row[Current(w)] = RowAt(pc[w])
  <2>1. Holds(w, Current(w))
    BY <1>2, <1>3 DEF Holds, Rows
  <2> QED
    BY <1>2, <2>1 DEF HeldInv, HeldRows
<1> QED
  BY <1>2, <1>3

\* A worker goes on to the next statement for the request at hand, and may write
\* the row of that request, as the step it comes to expects it.
LEMMA AdvanceKeepsHeld ==
  ASSUME CommandTypeOK, HeldInv, NEW w \in Worker, Busy(w), pc[w] # "retryOp",
         NEW s \in Steps \ {"idle", "selected", "take"}, Goto(w, s),
         UNCHANGED <<locked, batch>>, NEW x, row' = [row EXCEPT ![Current(w)] = x],
         s = "retryOp" \/ x = RowAt(s)
  PROVE  HeldInv' /\ \A v \in Worker, r \in Request : Holds(v, r)' => Holds(v, r)
<1> DEFINE c == Current(w)
<1>0. /\ pc \in [Worker -> Steps] /\ row \in [Request -> RowStatus]
      /\ WorkerShape /\ LocksApart /\ HeldRows /\ HeldApart
  BY DEF CommandTypeOK, HeldInv
<1>1. c \in Request /\ c \in Rows(batch[w]) /\ Holds(w, c) /\ row[c] # "received"
  <2>1. RowAt(pc[w]) # "received"
    BY DEF RowAt
  <2> QED
    BY <2>1, CurrentIsHeld
<1>2. /\ \A v \in Worker : pc'[v] = IF v = w THEN s ELSE pc[v]
      /\ \A r \in Request : row'[r] = IF r = c THEN x ELSE row[r]
  BY <1>0 DEF Goto
<1>3. \A v \in Worker : Current(v)' = Current(v)
  BY DEF Current
<1>4. \A v \in Worker, r \in Request :
        Holds(v, r)' => Holds(v, r) /\ ~(v = w /\ r = c /\ s = "retryOp")
  BY <1>0, <1>2, <1>3 DEF Holds
<1>5. WorkerShape'
  BY <1>0, <1>2 DEF WorkerShape, Busy
<1>6. LocksApart'
  <2>1. \A v \in Worker : locked[v] \subseteq Request
    BY DEF CommandTypeOK
  <2> QED
    BY <1>0, <1>1, <1>2, <2>1 DEF LocksApart
<1>7. HeldApart'
  BY <1>0, <1>4 DEF HeldApart
<1>8. HeldRows'
  <2> SUFFICES ASSUME NEW v \in Worker, NEW r \in Request, Holds(v, r)'
               PROVE  row'[r] = IF r = Current(v) THEN RowAt(pc'[v]) ELSE "claimed"
    BY <1>3 DEF HeldRows
  <2>1. Holds(v, r) /\ row[r] = IF r = Current(v) THEN RowAt(pc[v]) ELSE "claimed"
    BY <1>0, <1>4 DEF HeldRows
  <2>2. CASE r = c
    <3>1. v = w
      BY <1>0, <1>1, <2>1, <2>2 DEF HeldApart
    <3> QED
      BY <1>2, <1>4, <2>2, <3>1
  <2>3. CASE r # c
    BY <1>2, <2>1, <2>3
  <2> QED
    BY <2>2, <2>3
<1> QED
  BY <1>4, <1>5, <1>6, <1>7, <1>8 DEF HeldInv

\* A worker is done with the request at hand.
LEMMA FinishKeepsHeld ==
  ASSUME CommandTypeOK, HeldInv, NEW w \in Worker, Busy(w), Finish(w), UNCHANGED row
  PROVE  HeldInv' /\ \A v \in Worker, r \in Request :
                       Holds(v, r)' => Holds(v, r) /\ (v = w => r # Current(w))
<1> DEFINE c == Current(w)
<1>0. /\ pc \in [Worker -> Steps] /\ batch \in [Worker -> Seq(Request)]
      /\ WorkerShape /\ LocksApart /\ HeldRows /\ HeldApart
  BY DEF CommandTypeOK, HeldInv
<1>1. /\ batch[w] \in Seq(Request) /\ batch[w] # <<>> /\ Distinct(batch[w])
  BY <1>0 DEF WorkerShape
<1>2. /\ Rows(Tail(batch[w])) = Rows(batch[w]) \ {c} /\ Distinct(Tail(batch[w]))
  BY <1>1, TailOfBatch DEF Current
<1>3. /\ \A v \in Worker : pc'[v] = IF v = w THEN "take" ELSE pc[v]
      /\ \A v \in Worker : batch'[v] = IF v = w THEN Tail(batch[w]) ELSE batch[v]
      /\ UNCHANGED locked
  BY <1>0 DEF Finish, Goto
<1>4. \A v \in Worker, r \in Request :
        Holds(v, r)' => Holds(v, r) /\ (v = w => r # c)
  <2> SUFFICES ASSUME NEW v \in Worker, NEW r \in Request, Holds(v, r)'
               PROVE  Holds(v, r) /\ (v = w => r # c)
    OBVIOUS
  <2>1. CASE v = w
    <3>1. r \in Rows(Tail(batch[w]))
      BY <1>3, <2>1 DEF Holds, Rows
    <3>2. r \in Rows(batch[w]) /\ r # c
      BY <1>2, <3>1
    <3> QED
      BY <2>1, <3>2 DEF Holds, Rows
  <2>2. CASE v # w
    BY <1>3, <2>2 DEF Holds, Current
  <2> QED
    BY <2>1, <2>2
<1>5. WorkerShape'
  BY <1>0, <1>2, <1>3 DEF WorkerShape, Busy
<1>6. LocksApart'
  BY <1>0, <1>3 DEF LocksApart
<1>7. HeldApart'
  BY <1>0, <1>4 DEF HeldApart
<1>8. HeldRows'
  <2> SUFFICES ASSUME NEW v \in Worker, NEW r \in Request, Holds(v, r)'
               PROVE  row'[r] = IF r = Current(v)' THEN RowAt(pc'[v]) ELSE "claimed"
    BY DEF HeldRows
  <2>1. row[r] = IF r = Current(v) THEN RowAt(pc[v]) ELSE "claimed"
    BY <1>0, <1>4 DEF HeldRows
  <2>2. CASE v = w
    <3>1. row[r] = "claimed" /\ pc'[v] = "take"
      BY <1>3, <1>4, <2>1, <2>2
    <3> QED
      BY <3>1 DEF RowAt, AtLedger
  <2>3. CASE v # w
    BY <1>3, <2>1, <2>3 DEF Current
  <2> QED
    BY <2>2, <2>3
<1> QED
  BY <1>4, <1>5, <1>6, <1>7, <1>8 DEF HeldInv

\* The end of a poll, or its next request.
LEMMA TakeKeepsHeld ==
  ASSUME CommandTypeOK, HeldInv, NEW w \in Worker, Take(w)
  PROVE  HeldInv' /\ \A v \in Worker, r \in Request : Holds(v, r)' <=> Holds(v, r)
<1>0. /\ pc \in [Worker -> Steps]
      /\ WorkerShape /\ LocksApart /\ HeldRows /\ HeldApart
  BY DEF CommandTypeOK, HeldInv
<1>1. /\ \A v \in Worker : v # w => pc'[v] = pc[v]
      /\ pc[w] = "take" /\ pc'[w] = IF batch[w] = <<>> THEN "idle" ELSE "identify"
      /\ UNCHANGED <<row, locked, batch>>
  BY <1>0 DEF Take, Goto, tables
<1>2. \A v \in Worker : Current(v)' = Current(v)
  BY <1>1 DEF Current
<1>3. \A v \in Worker, r \in Request : Holds(v, r)' <=> Holds(v, r)
  BY <1>1, <1>2 DEF Holds
<1>4. \A v \in Worker : RowAt(pc'[v]) = RowAt(pc[v])
  BY <1>1 DEF RowAt, AtLedger
<1>5. WorkerShape'
  BY <1>0, <1>1 DEF WorkerShape, Busy
<1>6. LocksApart'
  BY <1>0, <1>1 DEF LocksApart
<1>7. HeldApart'
  BY <1>0, <1>3 DEF HeldApart
<1>8. HeldRows'
  BY <1>0, <1>1, <1>2, <1>3, <1>4 DEF HeldRows
<1> QED
  BY <1>3, <1>5, <1>6, <1>7, <1>8 DEF HeldInv

\* A claim locks rows that no other claim has locked.
LEMMA SelectKeepsHeld ==
  ASSUME CommandTypeOK, HeldInv, NEW w \in Worker, SelectPending(w)
  PROVE  HeldInv' /\ \A v \in Worker, r \in Request : Holds(v, r)' <=> Holds(v, r)
<1>0. /\ pc \in [Worker -> Steps] /\ locked \in [Worker -> SUBSET Request]
      /\ WorkerShape /\ LocksApart /\ HeldRows /\ HeldApart
  BY DEF CommandTypeOK, HeldInv
<1>1. /\ \A v \in Worker : v # w => pc'[v] = pc[v] /\ locked'[v] = locked[v]
      /\ pc[w] = "idle" /\ pc'[w] = "selected" /\ locked'[w] \subseteq Claimable(w)
      /\ UNCHANGED <<row, batch>>
  BY <1>0 DEF SelectPending, Goto, tables, Oldest
<1>2. \A v \in Worker : Current(v)' = Current(v)
  BY <1>1 DEF Current
<1>3. \A v \in Worker, r \in Request : Holds(v, r)' <=> Holds(v, r)
  BY <1>1, <1>2 DEF Holds
<1>4. \A v \in Worker : RowAt(pc'[v]) = RowAt(pc[v])
  BY <1>1 DEF RowAt, AtLedger
<1>5. WorkerShape'
  BY <1>0, <1>1 DEF WorkerShape, Busy
<1>6. LocksApart'
  BY <1>0, <1>1 DEF LocksApart, Claimable
<1>7. HeldApart'
  BY <1>0, <1>3 DEF HeldApart
<1>8. HeldRows'
  BY <1>0, <1>1, <1>2, <1>3, <1>4 DEF HeldRows
<1> QED
  BY <1>3, <1>5, <1>6, <1>7, <1>8 DEF HeldInv

\* The rows claimed were 'received': nobody held them, and no other claim may
\* have locked them.
LEMMA CommitKeepsHeld ==
  ASSUME CommandTypeOK, HeldInv, NEW w \in Worker, CommitClaim(w)
  PROVE  /\ HeldInv'
         /\ batch' \in [Worker -> Seq(Request)]
         /\ \A v \in Worker, r \in Request :
              Holds(v, r)' => Holds(v, r) \/ (v = w /\ row[r] = "received")
<1> DEFINE claimed == Oldest(locked[w], Limit)
<1>0. /\ pc \in [Worker -> Steps] /\ locked \in [Worker -> SUBSET Request]
      /\ batch \in [Worker -> Seq(Request)] /\ row \in [Request -> RowStatus]
      /\ WorkerShape /\ LocksApart /\ HeldRows /\ HeldApart
  BY DEF CommandTypeOK, HeldInv
<1>1. claimed \in SUBSET Request /\ claimed \subseteq locked[w] /\ IsFiniteSet(claimed)
  <2>1. claimed \subseteq locked[w] /\ locked[w] \subseteq Request
    BY <1>0 DEF Oldest
  <2> QED
    BY <2>1, QueueAssumption, FS_Subset
<1>2. Cardinality(claimed) \in Nat
  BY <1>1, FS_CardinalityType
<1> HIDE DEF claimed
<1>3. PICK s \in [1..Cardinality(claimed) -> claimed] :
        InOrder(s) /\ batch' = [batch EXCEPT ![w] = s]
  BY DEF CommitClaim, claimed
<1>4. s \in Seq(Request) /\ Distinct(s) /\ Rows(s) \subseteq claimed
  BY <1>1, <1>2, <1>3, ClaimedBatch
<1>5. /\ \A v \in Worker : v # w => pc'[v] = pc[v] /\ locked'[v] = locked[v]
                                    /\ batch'[v] = batch[v]
      /\ pc[w] = "selected" /\ pc'[w] = "take" /\ locked'[w] = {} /\ batch'[w] = s
      /\ \A r \in Request : row'[r] = IF r \in claimed THEN "claimed" ELSE row[r]
  BY <1>0, <1>3 DEF CommitClaim, Goto, claimed
<1>6. \A r \in claimed : r \in Request /\ row[r] = "received"
  BY <1>0, <1>1 DEF LocksApart
<1>7. \A v \in Worker, r \in Request : Holds(v, r) => r \notin claimed
  <2>1. \A v \in Worker : RowAt(pc[v]) # "received"
    BY DEF RowAt
  <2> QED
    BY <1>0, <1>6, <2>1 DEF HeldRows
<1>8. \A v \in Worker, r \in Request :
        Holds(v, r)' => IF v = w THEN r \in claimed ELSE Holds(v, r)
  <2> SUFFICES ASSUME NEW v \in Worker, NEW r \in Request, Holds(v, r)'
               PROVE  IF v = w THEN r \in claimed ELSE Holds(v, r)
    OBVIOUS
  <2>1. CASE v = w
    <3>1. batch'[v] = s
      BY <1>5, <2>1
    <3>2. r \in Rows(s)
      BY <3>1 DEF Holds, Rows
    <3> QED
      BY <1>4, <2>1, <3>2
  <2>2. CASE v # w
    BY <1>5, <2>2 DEF Holds, Current
  <2> QED
    BY <2>1, <2>2
<1>9. WorkerShape'
  BY <1>0, <1>4, <1>5 DEF WorkerShape, Busy
<1>10. LocksApart'
  <2>1. ASSUME NEW v \in Worker, NEW r \in locked'[v] PROVE row'[r] = "received"
    <3>1. v # w /\ r \in locked[v]
      BY <1>5, <2>1
    <3>2. r \in Request /\ row[r] = "received" /\ r \notin locked[w]
      BY <1>0, <3>1 DEF LocksApart
    <3> QED
      BY <1>1, <1>5, <3>2
  <2> QED
    BY <1>0, <1>5, <2>1 DEF LocksApart
<1>11. HeldApart'
  BY <1>0, <1>7, <1>8 DEF HeldApart
<1>12. HeldRows'
  <2> SUFFICES ASSUME NEW v \in Worker, NEW r \in Request, Holds(v, r)'
               PROVE  row'[r] = IF r = Current(v)' THEN RowAt(pc'[v]) ELSE "claimed"
    BY DEF HeldRows
  <2>1. CASE v = w
    <3>1. row'[r] = "claimed" /\ pc'[v] = "take"
      BY <1>5, <1>8, <2>1
    <3> QED
      BY <3>1 DEF RowAt, AtLedger
  <2>2. CASE v # w
    <3>1. Holds(v, r) /\ r \notin claimed
      BY <1>7, <1>8, <2>2
    <3> QED
      BY <1>0, <1>5, <2>2, <3>1 DEF HeldRows, Current
  <2> QED
    BY <2>1, <2>2
<1> QED
  BY <1>0, <1>3, <1>4, <1>6, <1>8, <1>9, <1>10, <1>11, <1>12 DEF HeldInv

\* A worker that crashes holds nothing any more.
LEMMA CrashKeepsHeld ==
  ASSUME CommandTypeOK, HeldInv, NEW w \in Worker, Crash(w)
  PROVE  HeldInv' /\ \A v \in Worker, r \in Request : Holds(v, r)' => v # w /\ Holds(v, r)
<1>0. /\ pc \in [Worker -> Steps] /\ locked \in [Worker -> SUBSET Request]
      /\ batch \in [Worker -> Seq(Request)]
      /\ WorkerShape /\ LocksApart /\ HeldRows /\ HeldApart
  BY DEF CommandTypeOK, HeldInv
<1>1. /\ \A v \in Worker : v # w => pc'[v] = pc[v] /\ locked'[v] = locked[v]
                                    /\ batch'[v] = batch[v]
      /\ pc'[w] = "idle" /\ locked'[w] = {} /\ batch'[w] = <<>>
      /\ UNCHANGED row
  BY <1>0 DEF Crash, Goto, tables
<1>2. \A v \in Worker, r \in Request : Holds(v, r)' => v # w /\ Holds(v, r)
  <2>1. \A r : ~Holds(w, r)'
    BY <1>1, EmptyBatch DEF Holds, Rows
  <2>2. ASSUME NEW v \in Worker, v # w, NEW r \in Request PROVE Holds(v, r)' => Holds(v, r)
    BY <1>1, <2>2 DEF Holds, Current
  <2> QED
    BY <2>1, <2>2
<1>3. WorkerShape'
  BY <1>0, <1>1, EmptyBatch DEF WorkerShape, Busy
<1>4. LocksApart'
  BY <1>0, <1>1 DEF LocksApart
<1>5. HeldApart'
  BY <1>0, <1>2 DEF HeldApart
<1>6. HeldRows'
  <2>1. \A v \in Worker : v # w => Current(v)' = Current(v)
    BY <1>1 DEF Current
  <2> QED
    BY <1>0, <1>1, <1>2, <2>1 DEF HeldRows
<1> QED
  BY <1>2, <1>3, <1>4, <1>5, <1>6 DEF HeldInv

\* A row that nobody holds or has locked may change.
LEMMA FreeRowKeepsHeld ==
  ASSUME CommandTypeOK, HeldInv, NEW r \in Request, row[r] \in {"absent", "waiting"},
         row' = [row EXCEPT ![r] = "received"], UNCHANGED workers
  PROVE  HeldInv' /\ \A v \in Worker, q \in Request : Holds(v, q)' <=> Holds(v, q)
<1>0. /\ row \in [Request -> RowStatus] /\ locked \in [Worker -> SUBSET Request]
      /\ WorkerShape /\ LocksApart /\ HeldRows /\ HeldApart
  BY DEF CommandTypeOK, HeldInv
<1>1. /\ UNCHANGED <<pc, locked, batch>>
      /\ \A q \in Request : row'[q] = IF q = r THEN "received" ELSE row[q]
  BY <1>0 DEF workers
<1>2. \A v \in Worker : Current(v)' = Current(v)
  BY <1>1 DEF Current
<1>3. \A v \in Worker, q \in Request : Holds(v, q)' <=> Holds(v, q)
  BY <1>1, <1>2 DEF Holds
<1>4. \A v \in Worker : ~Holds(v, r)
  <2>1. \A v \in Worker : RowAt(pc[v]) \notin {"absent", "waiting"}
    BY DEF RowAt
  <2> QED
    BY <1>0, <2>1 DEF HeldRows
<1>5. WorkerShape'
  BY <1>0, <1>1 DEF WorkerShape, Busy
<1>6. LocksApart'
  BY <1>0, <1>1 DEF LocksApart
<1>7. HeldApart'
  BY <1>0, <1>3 DEF HeldApart
<1>8. HeldRows'
  BY <1>0, <1>1, <1>2, <1>3, <1>4 DEF HeldRows
<1> QED
  BY <1>3, <1>5, <1>6, <1>7, <1>8 DEF HeldInv

\* A step that leaves rows and workers alone.
LEMMA SameKeepsHeld ==
  ASSUME HeldInv, UNCHANGED <<row, pc, locked, batch>>
  PROVE  HeldInv' /\ \A v \in Worker, q \in Request : Holds(v, q)' <=> Holds(v, q)
<1>1. \A v : Current(v)' = Current(v) /\ (Busy(v)' <=> Busy(v))
  BY DEF Current, Busy
<1>2. \A v, q : Holds(v, q)' <=> Holds(v, q)
  BY <1>1 DEF Holds
<1>3. WorkerShape' /\ LocksApart'
  BY <1>1 DEF HeldInv, WorkerShape, LocksApart
<1>4. HeldRows' /\ HeldApart'
  BY <1>1, <1>2 DEF HeldInv, HeldRows, HeldApart
<1> QED
  BY <1>2, <1>3, <1>4 DEF HeldInv

-----------------------------------------------------------------------------
(* Each step keeps the invariant.                                          *)

\* How many attempts a request has is a number, and they leave room for another.
LEMMA AttemptsAreCounted ==
  ASSUME CommandTypeOK, NEW r \in Request
  PROVE  /\ IsFiniteSet(attempts[r]) /\ Cardinality(attempts[r]) \in Nat
         /\ Cardinality(attempts[r]) < MaxAttempts => NewId(r) \in Submission
<1>1. attempts[r] \subseteq Submission /\ MaxAttempts \in Nat
  BY QueueAssumption DEF CommandTypeOK
<1>2. IsFiniteSet(Submission)
  BY <1>1, FS_Interval DEF Submission
<1>3. IsFiniteSet(attempts[r]) /\ Cardinality(attempts[r]) \in Nat
  BY <1>1, <1>2, FS_Subset, FS_CardinalityType
<1> QED
  BY <1>1, <1>3 DEF NewId, Submission

\* Two workers are never at the same request, beside one that put it back.
LEMMA WorkersApart ==
  ASSUME CommandTypeOK, HeldInv, NEW v \in Worker, NEW w \in Worker, v # w,
         Busy(v), Busy(w), pc[v] # "retryOp", pc[w] # "retryOp"
  PROVE  Current(v) # Current(w)
BY CurrentIsHeld DEF HeldInv, HeldApart

\* The worker goes on to step s, with status x in the row and submission y in hand.
Advances(w, s, x, y) ==
  /\ Goto(w, s)
  /\ row' = [row EXCEPT ![Current(w)] = x]
  /\ submission' = [submission EXCEPT ![w] = y]

\* A statement for the request at hand that writes no attempt.
LEMMA AdvanceKeepsQueue ==
  ASSUME QueueInv, NEW w \in Worker, Busy(w), pc[w] # "retryOp",
         NEW s \in Steps \ {"idle", "selected", "take"},
         NEW x \in RowStatus \ {"absent", "received"}, NEW y \in Submission \cup {0},
         Advances(w, s, x, y),
         UNCHANGED <<locked, batch, attempts, executed, effects, crashes>>,
         s = "retryOp" \/ x = RowAt(s), pc[w] \in Tried => s \in Tried,
         x = "failed" \/ s \in {"failRow", "failOp"} => Current(w) \in Mismatched,
         s \notin {"identify", "failRow", "failOp"} => Current(w) \notin Mismatched,
         s = "insert" => y = NewId(Current(w)),
         s \in {"markOp", "markRow", "build"} => y \in attempts[Current(w)],
         op' \in [Request -> OpStatus],
         \A r \in Request : op'[r] = "failed" => op[r] = "failed",
         wire' \subseteq Message, \A m \in wire' : m.submission \in attempts[m.request],
         reply' \in [Worker -> {"none", "ok", "duplicate", "rejected"}]
  PROVE  QueueInv'
<1> DEFINE c == Current(w)
<1>0. /\ CommandTypeOK /\ HeldInv /\ CurrentFits /\ RoomToTry /\ FailedMismatch
      /\ ExecutedOnce
  BY DEF QueueInv
<1> USE DEF Advances
<1>1. c \in Request
  BY <1>0, CurrentIsHeld
<1>2. HeldInv' /\ \A v \in Worker, r \in Request : Holds(v, r)' => Holds(v, r)
  BY <1>0, AdvanceKeepsHeld
<1>3. /\ \A v \in Worker : pc'[v] = IF v = w THEN s ELSE pc[v]
      /\ \A r \in Request : row'[r] = IF r = c THEN x ELSE row[r]
      /\ \A v \in Worker : submission'[v] = IF v = w THEN y ELSE submission[v]
      /\ \A v \in Worker : Current(v)' = Current(v)
      /\ \A r : NewId(r)' = NewId(r)
  BY <1>0 DEF CommandTypeOK, Goto, Current, NewId
<1>4. CommandTypeOK'
  BY <1>0, <1>1 DEF CommandTypeOK, Goto
<1>5. CurrentFits'
  <2> SUFFICES ASSUME NEW v \in Worker, Busy(v)'
               PROVE  /\ pc'[v] \in {"failRow", "failOp"} => Current(v) \in Mismatched
                      /\ pc'[v] \notin {"identify", "failRow", "failOp"}
                           => Current(v) \notin Mismatched
                      /\ pc'[v] = "insert" => submission'[v] = NewId(Current(v))
                      /\ pc'[v] \in {"markOp", "markRow", "build"}
                           => submission'[v] \in attempts[Current(v)]
    BY <1>3 DEF CurrentFits
  <2>1. CASE v = w
    BY <1>3, <2>1
  <2>2. CASE v # w
    BY <1>0, <1>3, <2>2 DEF CurrentFits, Busy
  <2> QED
    BY <2>1, <2>2
<1>6. RoomToTry'
  BY <1>0, <1>2, <1>3 DEF RoomToTry
<1>7. FailedMismatch'
  BY <1>0, <1>1, <1>3 DEF FailedMismatch
<1>8. AttemptsRecorded' /\ ExecutedOnce'
  BY <1>0 DEF AttemptsRecorded, ExecutedOnce
<1> QED
  BY <1>2, <1>4, <1>5, <1>6, <1>7, <1>8 DEF QueueInv

\* The worker is done with the request at hand, and may write its operation.
LEMMA FinishKeepsQueue ==
  ASSUME QueueInv, NEW w \in Worker, Busy(w), Finish(w),
         UNCHANGED <<row, attempts, ledger, crashes>>,
         op' \in [Request -> OpStatus],
         \A r \in Request : op'[r] = "failed" => r \in Mismatched
  PROVE  QueueInv'
<1>0. /\ CommandTypeOK /\ HeldInv /\ CurrentFits /\ RoomToTry /\ FailedMismatch
      /\ ExecutedOnce /\ AttemptsRecorded /\ UNCHANGED <<wire, reply, executed, effects>>
  BY DEF QueueInv, ledger
<1>1. HeldInv' /\ \A v \in Worker, r \in Request :
                     Holds(v, r)' => Holds(v, r) /\ (v = w => r # Current(w))
  BY <1>0, FinishKeepsHeld
<1>2. /\ \A v \in Worker : pc'[v] = IF v = w THEN "take" ELSE pc[v]
      /\ \A v \in Worker : v # w => Current(v)' = Current(v)
      /\ \A r : NewId(r)' = NewId(r)
      /\ UNCHANGED <<locked, submission>>
  BY <1>0 DEF CommandTypeOK, Finish, Goto, Current, NewId
<1>3. CommandTypeOK'
  <2>1. batch[w] \in Seq(Request) /\ batch[w] # <<>> /\ Distinct(batch[w])
    BY <1>0 DEF CommandTypeOK, HeldInv, WorkerShape
  <2>2. batch' = [batch EXCEPT ![w] = Tail(batch[w])] /\ Tail(batch[w]) \in Seq(Request)
    BY <2>1, TailOfBatch DEF Finish
  <2>3. pc' = [pc EXCEPT ![w] = "take"] /\ "take" \in Steps
    BY DEF Finish, Goto, Steps
  <2> QED
    BY <1>0, <1>2, <2>2, <2>3 DEF CommandTypeOK
<1>4. CurrentFits'
  BY <1>0, <1>2 DEF CurrentFits, Busy
<1>5. RoomToTry'
  <2>1. ASSUME NEW v \in Worker, NEW r \in Request, Holds(v, r)',
               ~(r = Current(v)' /\ pc'[v] \in Tried)
        PROVE  Cardinality(attempts[r]) < MaxAttempts
    BY <1>0, <1>1, <1>2, <2>1 DEF RoomToTry
  <2> QED
    BY <1>0, <2>1 DEF RoomToTry
<1>6. FailedMismatch'
  BY <1>0 DEF FailedMismatch
<1>7. AttemptsRecorded' /\ ExecutedOnce'
  BY <1>0 DEF AttemptsRecorded, ExecutedOnce
<1> QED
  BY <1>1, <1>3, <1>4, <1>5, <1>6, <1>7 DEF QueueInv

\* The update of the operation succeeds or not, and leaves a status.
LEMMA OperationUpdated ==
  ASSUME CommandTypeOK, NEW r \in Request, NEW status \in OpStatus,
         UpdateOperation(r, status)
  PROVE  /\ op' \in [Request -> OpStatus]
         /\ \A q \in Request : op'[q] = op[q] \/ (q = r /\ op'[q] = status)
BY DEF UpdateOperation, CommandTypeOK

\* The API writes a row, and the delay of a retry ends.
LEMMA QueueingKeepsQueue ==
  ASSUME QueueInv, NEW r \in Request, EnqueueIntent(r) \/ Elapse(r)
  PROVE  QueueInv'
<1>0. /\ CommandTypeOK /\ HeldInv /\ CurrentFits /\ RoomToTry /\ FailedMismatch
      /\ ExecutedOnce /\ AttemptsRecorded
      /\ UNCHANGED <<attempts, pc, locked, batch, submission, wire, reply, executed,
                     effects, crashes>>
      /\ row' = [row EXCEPT ![r] = "received"] /\ row[r] \in {"absent", "waiting"}
      /\ op' = op \/ op' = [op EXCEPT ![r] = "received"]
  BY DEF QueueInv, EnqueueIntent, Elapse, workers, ledger
<1>1. HeldInv' /\ \A v \in Worker, q \in Request : Holds(v, q)' <=> Holds(v, q)
  BY <1>0, FreeRowKeepsHeld DEF workers
<1>2. /\ \A q \in Request : row'[q] = IF q = r THEN "received" ELSE row[q]
      /\ \A v : Current(v)' = Current(v) /\ (Busy(v)' <=> Busy(v))
      /\ \A q : NewId(q)' = NewId(q)
  BY <1>0 DEF CommandTypeOK, Current, Busy, NewId
<1>3. CommandTypeOK'
  BY <1>0 DEF CommandTypeOK, RowStatus, OpStatus
<1>4. CurrentFits'
  BY <1>0, <1>2 DEF CurrentFits
<1>5. RoomToTry'
  <2>1. Cardinality(attempts[r]) < MaxAttempts
    <3>1. CASE row[r] = "absent"
      <4>1. attempts[r] = {}
        BY <1>0, <3>1 DEF FailedMismatch
      <4>2. Cardinality({}) = 0
        BY FS_EmptySet
      <4> QED
        BY <4>1, <4>2, QueueAssumption
    <3>2. CASE row[r] = "waiting"
      BY <3>2 DEF EnqueueIntent, Elapse
    <3> QED
      BY <1>0, <3>1, <3>2
  <2> QED
    BY <1>0, <1>1, <1>2, <2>1 DEF RoomToTry
<1>6. FailedMismatch'
  BY <1>0, <1>2 DEF FailedMismatch, CommandTypeOK
<1>7. AttemptsRecorded' /\ ExecutedOnce'
  BY <1>0 DEF AttemptsRecorded, ExecutedOnce
<1> QED
  BY <1>1, <1>3, <1>4, <1>5, <1>6, <1>7 DEF QueueInv

\* A poll selects, claims and goes on to its next request.
LEMMA ClaimingKeepsQueue ==
  ASSUME QueueInv, NEW w \in Worker, SelectPending(w) \/ CommitClaim(w) \/ Take(w)
  PROVE  QueueInv'
<1>0. /\ CommandTypeOK /\ HeldInv /\ CurrentFits /\ RoomToTry /\ FailedMismatch
      /\ ExecutedOnce /\ AttemptsRecorded
      /\ UNCHANGED <<op, attempts, submission, wire, reply, executed, effects, crashes>>
  BY DEF QueueInv, SelectPending, CommitClaim, Take, tables, ledger
<1>1. /\ HeldInv'
      /\ \A v \in Worker, r \in Request :
           Holds(v, r)' => Holds(v, r) \/ (v = w /\ row[r] = "received")
  BY <1>0, SelectKeepsHeld, CommitKeepsHeld, TakeKeepsHeld
<1>2. /\ \A v \in Worker : v # w => pc'[v] = pc[v] /\ batch'[v] = batch[v]
      /\ pc'[w] \in {"idle", "selected", "take", "identify"} /\ pc[w] \notin Tried
      /\ pc' \in [Worker -> Steps]
      /\ locked' \in [Worker -> SUBSET Request]
  <2>1. pc \in [Worker -> Steps] /\ locked \in [Worker -> SUBSET Request]
    BY <1>0 DEF CommandTypeOK
  <2>2. CASE SelectPending(w)
    BY <2>1, <2>2 DEF SelectPending, Goto, Steps, Tried, Oldest, Claimable
  <2>3. CASE CommitClaim(w)
    BY <2>1, <2>3 DEF CommitClaim, Goto, Steps, Tried
  <2>4. CASE Take(w)
    BY <2>1, <2>4 DEF Take, Goto, Steps, Tried
  <2> QED
    BY <2>2, <2>3, <2>4
<1>3. /\ row' \in [Request -> RowStatus]
      /\ \A r \in Request : row'[r] = row[r] \/ (row[r] = "received" /\ row'[r] = "claimed")
  <2>1. CASE CommitClaim(w)
    <3>1. \A r \in Oldest(locked[w], Limit) : row[r] = "received"
      BY <1>0 DEF HeldInv, LocksApart, Oldest
    <3> QED
      BY <1>0, <2>1, <3>1 DEF CommandTypeOK, RowStatus, CommitClaim
  <2>2. CASE SelectPending(w) \/ Take(w)
    BY <1>0, <2>2 DEF CommandTypeOK, SelectPending, Take, tables
  <2> QED
    BY <2>1, <2>2
<1>4. batch' \in [Worker -> Seq(Request)]
  BY <1>0, CommitKeepsHeld DEF CommandTypeOK, SelectPending, Take
<1>5. CommandTypeOK'
  BY <1>0, <1>2, <1>3, <1>4 DEF CommandTypeOK
<1>6. CurrentFits'
  <2>1. \A r : NewId(r)' = NewId(r)
    BY <1>0 DEF NewId
  <2> QED
    BY <1>0, <1>2, <2>1 DEF CurrentFits, Busy, Current
<1>7. RoomToTry'
  <2>1. ASSUME NEW v \in Worker, NEW r \in Request, Holds(v, r)',
               ~(r = Current(v)' /\ pc'[v] \in Tried)
        PROVE  Cardinality(attempts[r]) < MaxAttempts
    <3>1. CASE v = w
      BY <1>0, <1>1, <1>2, <2>1, <3>1 DEF RoomToTry
    <3>2. CASE v # w
      <4>1. Current(v)' = Current(v) /\ pc'[v] = pc[v]
        BY <1>2, <3>2 DEF Current
      <4> QED
        BY <1>0, <1>1, <2>1, <3>2, <4>1 DEF RoomToTry
    <3> QED
      BY <3>1, <3>2
  <2> QED
    BY <1>0, <1>3, <2>1 DEF RoomToTry
<1>8. FailedMismatch'
  BY <1>0, <1>3 DEF FailedMismatch
<1>9. AttemptsRecorded' /\ ExecutedOnce'
  BY <1>0 DEF AttemptsRecorded, ExecutedOnce
<1> QED
  BY <1>1, <1>5, <1>6, <1>7, <1>8, <1>9 DEF QueueInv

\* An attempt is written: nobody else is about to write one for this request.
LEMMA InsertKeepsQueue ==
  ASSUME QueueInv, NEW w \in Worker, InsertAttempt(w)
  PROVE  QueueInv'
<1> DEFINE c == Current(w)
<1>0. /\ CommandTypeOK /\ HeldInv /\ CurrentFits /\ RoomToTry /\ FailedMismatch
      /\ ExecutedOnce /\ AttemptsRecorded
      /\ UNCHANGED <<row, op, locked, batch, submission, wire, reply, executed,
                     effects, crashes>>
      /\ pc[w] = "insert" /\ Goto(w, "markOp") /\ Busy(w)
  BY DEF QueueInv, InsertAttempt, ledger, Busy
<1>1. c \in Request /\ Holds(w, c) /\ row[c] = "claimed"
  BY <1>0, CurrentIsHeld DEF RowAt, AtLedger
<1>2. HeldInv' /\ \A v \in Worker, r \in Request : Holds(v, r)' => Holds(v, r)
  <2>1. row' = [row EXCEPT ![c] = "claimed"]
    BY <1>0, <1>1 DEF CommandTypeOK
  <2>2. "markOp" \in Steps \ {"idle", "selected", "take"} /\ RowAt("markOp") = "claimed"
    BY DEF Steps, RowAt, AtLedger
  <2> QED
    BY <1>0, <2>1, <2>2, AdvanceKeepsHeld
<1>3. /\ submission[w] = NewId(c) /\ submission[w] \in Submission /\ c \notin Mismatched
  <2>1. Cardinality(attempts[c]) < MaxAttempts
    BY <1>0, <1>1 DEF RoomToTry, Tried
  <2> QED
    BY <1>0, <1>1, <2>1, AttemptsAreCounted DEF CurrentFits
<1>4. /\ \A v \in Worker : pc'[v] = IF v = w THEN "markOp" ELSE pc[v]
      /\ attempts' = [attempts EXCEPT ![c] = @ \cup {submission[w]}]
      /\ \A r \in Request : attempts'[r] = IF r = c THEN attempts[c] \cup {submission[w]}
                                                     ELSE attempts[r]
      /\ \A v \in Worker : Current(v)' = Current(v)
  BY <1>0 DEF CommandTypeOK, Goto, InsertAttempt, Current
<1>5. CommandTypeOK'
  BY <1>0, <1>1, <1>3, <1>4 DEF CommandTypeOK, Goto, Steps
<1>6. CurrentFits'
  <2> SUFFICES ASSUME NEW v \in Worker, Busy(v)'
               PROVE  /\ pc'[v] \in {"failRow", "failOp"} => Current(v) \in Mismatched
                      /\ pc'[v] \notin {"identify", "failRow", "failOp"}
                           => Current(v) \notin Mismatched
                      /\ pc'[v] = "insert" => submission[v] = NewId(Current(v))'
                      /\ pc'[v] \in {"markOp", "markRow", "build"}
                           => submission[v] \in attempts'[Current(v)]
    BY <1>0, <1>4 DEF CurrentFits, NewId
  <2>1. CASE v = w
    BY <1>1, <1>3, <1>4, <2>1
  <2>2. CASE v # w
    <3>1. Busy(v) /\ pc'[v] = pc[v] /\ Current(v) \in Request
      BY <1>0, <1>4, <2>2, CurrentIsHeld DEF Busy
    <3>2. pc'[v] = "insert" => NewId(Current(v))' = NewId(Current(v))
      BY <1>0, <1>4, <2>2, <3>1, WorkersApart DEF NewId
    <3> QED
      BY <1>0, <1>4, <3>1, <3>2 DEF CurrentFits
  <2> QED
    BY <2>1, <2>2
<1>7. RoomToTry'
  <2>1. ASSUME NEW v \in Worker, NEW r \in Request, Holds(v, r)',
               ~(r = Current(v)' /\ pc'[v] \in Tried)
        PROVE  Cardinality(attempts'[r]) < MaxAttempts
    <3>1. r # c
      <4>1. v = w => pc'[v] \in Tried
        BY <1>4 DEF Tried, Steps
      <4> QED
        BY <1>0, <1>1, <1>2, <1>4, <2>1, <4>1 DEF HeldInv, HeldApart
    <3>2. pc'[v] = pc[v] \/ pc[v] \notin Tried
      BY <1>0, <1>4 DEF Tried
    <3> QED
      BY <1>0, <1>2, <1>4, <2>1, <3>1, <3>2 DEF RoomToTry
  <2>2. ASSUME NEW r \in Request, row'[r] = "received"
        PROVE  Cardinality(attempts'[r]) < MaxAttempts
    BY <1>0, <1>1, <1>4, <2>2 DEF RoomToTry
  <2> QED
    BY <2>1, <2>2 DEF RoomToTry
<1>8. FailedMismatch'
  BY <1>0, <1>1, <1>3, <1>4 DEF FailedMismatch
<1>9. AttemptsRecorded'
  BY <1>0, <1>4 DEF AttemptsRecorded, CommandTypeOK, Message
<1>10. ExecutedOnce'
  BY <1>0, <1>4 DEF ExecutedOnce
<1> QED
  BY <1>2, <1>5, <1>6, <1>7, <1>8, <1>9, <1>10 DEF QueueInv

\* A statement of processClaim for the request at hand, beside the insert.
LEMMA ProcessingKeepsQueue ==
  ASSUME QueueInv, NEW w \in Worker,
         \/ EnsureCommandIdentity(w) \/ MarkOperationSubmitted(w)
         \/ MarkRequestSubmitted(w) \/ BuildAndSend(w) \/ Thrown(w) \/ CallBreaks(w)
         \/ RetryRow(w) \/ FailRow(w)
  PROVE  QueueInv'
<1> DEFINE c == Current(w)
<1>0. /\ CommandTypeOK /\ HeldInv /\ CurrentFits /\ RoomToTry /\ FailedMismatch
      /\ AttemptsRecorded
      /\ UNCHANGED <<locked, batch, attempts, executed, effects, crashes>>
  BY DEF QueueInv, EnsureCommandIdentity, MarkOperationSubmitted, MarkRequestSubmitted,
         BuildAndSend, Thrown, CallBreaks, RetryRow, FailRow, tables, ledger
<1>1. /\ Busy(w) /\ pc[w] # "retryOp"
  BY DEF Busy, EnsureCommandIdentity, MarkOperationSubmitted, MarkRequestSubmitted,
         BuildAndSend, Thrown, CallBreaks, RetryRow, FailRow
<1>2. c \in Request /\ Holds(w, c) /\ row[c] = RowAt(pc[w])
  BY <1>0, <1>1, CurrentIsHeld
<1>3. /\ submission = [submission EXCEPT ![w] = submission[w]]
      /\ submission[w] \in Submission \cup {0}
      /\ row = [row EXCEPT ![c] = row[c]] /\ row[c] \in RowStatus
      /\ op \in [Request -> OpStatus] /\ wire \subseteq Message
      /\ reply \in [Worker -> {"none", "ok", "duplicate", "rejected"}]
      /\ \A m \in wire : m.submission \in attempts[m.request]
  BY <1>0, <1>2 DEF CommandTypeOK, AttemptsRecorded
<1>4. CASE EnsureCommandIdentity(w)
  <2>1. /\ UNCHANGED <<row, op, wire, reply>> /\ row[c] = "claimed"
        /\ pc[w] = "identify"
    BY <1>2, <1>4 DEF EnsureCommandIdentity, tables, ledger, RowAt, AtLedger
  <2>2. CASE IdentityMatches(c)
    <3>1. NewId(c) \in Submission
      <4>1. Cardinality(attempts[c]) < MaxAttempts
        BY <1>0, <1>2, <2>1 DEF RoomToTry, Tried
      <4> QED
        BY <1>0, <1>2, <4>1, AttemptsAreCounted
    <3>2. Advances(w, "insert", "claimed", NewId(c))
      BY <1>3, <1>4, <2>1, <2>2 DEF EnsureCommandIdentity, Advances
    <3>3. /\ "insert" \in Steps \ {"idle", "selected", "take"} /\ "identify" \notin Tried
          /\ RowAt("insert") = "claimed" /\ "claimed" \in RowStatus \ {"absent", "received"}
          /\ c \notin Mismatched
      BY <2>2 DEF IdentityMatches, RowAt, AtLedger, Steps, RowStatus, Tried
    <3> QED
      BY <1>0, <1>1, <1>3, <2>1, <3>1, <3>2, <3>3, AdvanceKeepsQueue
  <2>3. CASE ~IdentityMatches(c)
    <3>1. Advances(w, "failRow", "claimed", submission[w])
      BY <1>3, <1>4, <2>1, <2>3 DEF EnsureCommandIdentity, Advances
    <3> QED
      BY <1>0, <1>1, <1>2, <1>3, <2>1, <2>3, <3>1, AdvanceKeepsQueue
      DEF IdentityMatches, RowAt, AtLedger, Steps, RowStatus, Tried
  <2> QED
    BY <2>2, <2>3
<1>5. CASE MarkOperationSubmitted(w)
  <2>1. /\ UNCHANGED <<wire, reply>> /\ pc[w] = "markOp"
        /\ Advances(w, "markRow", "claimed", submission[w])
        /\ UpdateOperation(c, "submitted")
    BY <1>2, <1>3, <1>5 DEF MarkOperationSubmitted, ledger, RowAt, AtLedger, Advances
  <2>2. op' \in [Request -> OpStatus] /\ \A r \in Request : op'[r] = "failed" => op[r] = "failed"
    BY <1>0, <1>2, <2>1, OperationUpdated DEF OpStatus
  <2>3. c \notin Mismatched /\ submission[w] \in attempts[c]
    BY <1>0, <1>1, <2>1 DEF CurrentFits
  <2> QED
    BY <1>0, <1>1, <1>2, <1>3, <2>1, <2>2, <2>3, AdvanceKeepsQueue
    DEF RowAt, AtLedger, Steps, RowStatus, Tried
<1>6. CASE MarkRequestSubmitted(w)
  <2>1. /\ UNCHANGED <<op, wire, reply>> /\ pc[w] = "markRow"
        /\ Advances(w, "build", "submitted", submission[w])
    BY <1>3, <1>6 DEF MarkRequestSubmitted, ledger, Advances
  <2>2. c \notin Mismatched /\ submission[w] \in attempts[c]
    BY <1>0, <1>1, <2>1 DEF CurrentFits
  <2>3. /\ "build" \in Steps \ {"idle", "selected", "take"} /\ "build" \in Tried
        /\ RowAt("build") = "submitted" /\ "submitted" \in RowStatus \ {"absent", "received"}
    BY DEF RowAt, AtLedger, Steps, RowStatus, Tried
  <2> QED
    BY <1>0, <1>1, <1>3, <2>1, <2>2, <2>3, AdvanceKeepsQueue
<1>7. CASE BuildAndSend(w)
  <2>1. /\ UNCHANGED <<row, op, submission>> /\ row[c] = "submitted"
        /\ pc[w] = "build"
    BY <1>2, <1>7 DEF BuildAndSend, tables, RowAt, AtLedger
  <2>2. c \notin Mismatched /\ submission[w] \in attempts[c]
    BY <1>0, <1>1, <2>1 DEF CurrentFits
  <2>3. CASE HasProfile(c)
    <3>1. /\ wire' = wire \cup {BuildCommands(w)}
          /\ reply' = [reply EXCEPT ![w] = "none"]
          /\ Advances(w, "await", "submitted", submission[w])
      BY <1>3, <1>7, <2>1, <2>3 DEF BuildAndSend, Advances
    <3>2. submission[w] \in Submission
      BY <1>0, <1>2, <2>2 DEF CommandTypeOK
    <3>3. /\ BuildCommands(w) \in Message
          /\ BuildCommands(w).request = c /\ BuildCommands(w).submission = submission[w]
      BY <1>2, <3>2 DEF BuildCommands, Message
    <3>4. /\ wire' \subseteq Message
          /\ \A m \in wire' : m.submission \in attempts[m.request]
          /\ reply' \in [Worker -> {"none", "ok", "duplicate", "rejected"}]
      BY <1>3, <2>2, <3>1, <3>3
    <3> QED
      BY <1>0, <1>1, <1>2, <1>3, <2>1, <2>2, <3>1, <3>4, AdvanceKeepsQueue
      DEF RowAt, AtLedger, Steps, RowStatus, Tried
  <2>4. CASE ~HasProfile(c)
    <3>1. /\ UNCHANGED <<wire, reply>>
          /\ Advances(w, "retryRow", "submitted", submission[w])
      BY <1>3, <1>7, <2>1, <2>4 DEF BuildAndSend, Advances
    <3> QED
      BY <1>0, <1>1, <1>2, <1>3, <2>1, <2>2, <3>1, AdvanceKeepsQueue
      DEF RowAt, AtLedger, Steps, RowStatus, Tried
  <2> QED
    BY <2>3, <2>4
<1>8. CASE Thrown(w) \/ CallBreaks(w)
  <2>1. /\ UNCHANGED <<op, wire, reply>> /\ pc[w] = "await"
        /\ Advances(w, "retryRow", "submitted", submission[w])
    BY <1>2, <1>3, <1>8 DEF Thrown, CallBreaks, tables, ledger, RowAt, AtLedger, Advances
  <2>2. c \notin Mismatched
    BY <1>0, <1>1, <2>1 DEF CurrentFits
  <2> QED
    BY <1>0, <1>1, <1>2, <1>3, <2>1, <2>2, AdvanceKeepsQueue
    DEF RowAt, AtLedger, Steps, RowStatus, Tried
<1>9. CASE RetryRow(w)
  <2>1. UNCHANGED <<op, wire, reply>> /\ pc[w] = "retryRow"
    BY <1>9 DEF RetryRow, ledger
  <2>2. PICK s \in {"waiting", "unknown"} : Advances(w, "retryOp", s, submission[w])
    BY <1>3, <1>9 DEF RetryRow, Advances
  <2>3. c \notin Mismatched
    BY <1>0, <1>1, <2>1 DEF CurrentFits
  <2>4. /\ "retryOp" \in Steps \ {"idle", "selected", "take"} /\ "retryOp" \in Tried
        /\ s \in RowStatus \ {"absent", "received"} /\ s # "failed"
    BY DEF Steps, RowStatus, Tried
  <2> QED
    BY <1>0, <1>1, <1>3, <2>1, <2>2, <2>3, <2>4, AdvanceKeepsQueue
<1>10. CASE FailRow(w)
  <2>1. /\ UNCHANGED <<op, wire, reply>> /\ pc[w] = "failRow"
        /\ Advances(w, "failOp", "failed", submission[w])
    BY <1>3, <1>10 DEF FailRow, ledger, Advances
  <2>2. c \in Mismatched
    BY <1>0, <1>1, <2>1 DEF CurrentFits
  <2>3. /\ "failOp" \in Steps \ {"idle", "selected", "take"} /\ "failOp" \in Tried
        /\ RowAt("failOp") = "failed" /\ "failed" \in RowStatus \ {"absent", "received"}
    BY DEF RowAt, AtLedger, Steps, RowStatus, Tried
  <2> QED
    BY <1>0, <1>1, <1>3, <2>1, <2>2, <2>3, AdvanceKeepsQueue
<1> QED
  BY <1>4, <1>5, <1>6, <1>7, <1>8, <1>9, <1>10

\* The worker is done with the request at hand.
LEMMA FinishingKeepsQueue ==
  ASSUME QueueInv, NEW w \in Worker,
         Accepted(w) \/ RetryOperation(w) \/ FailOperation(w)
  PROVE  QueueInv'
<1> DEFINE c == Current(w)
<1>1. /\ CommandTypeOK /\ HeldInv /\ CurrentFits /\ FailedMismatch
      /\ Busy(w) /\ Finish(w) /\ UNCHANGED <<row, attempts, ledger, crashes>>
  BY DEF QueueInv, Busy, Accepted, RetryOperation, FailOperation, tables
<1>2. c \in Request
  BY <1>1, CurrentIsHeld
<1>3. \/ UNCHANGED op
      \/ UpdateOperation(c, "unknown")
      \/ UpdateOperation(c, "failed") /\ c \in Mismatched
  BY <1>1 DEF Accepted, RetryOperation, FailOperation, tables, CurrentFits
<1>4. /\ op' \in [Request -> OpStatus]
      /\ \A r \in Request : op'[r] = "failed" => r \in Mismatched
  <2>1. op \in [Request -> OpStatus] /\ "unknown" \in OpStatus /\ "failed" \in OpStatus
    BY <1>1 DEF CommandTypeOK, OpStatus
  <2> QED
    BY <1>1, <1>2, <1>3, <2>1, OperationUpdated DEF FailedMismatch
<1> QED
  BY <1>1, <1>4, FinishKeepsQueue

\* A worker crashes: the rows it held stay as they are.
LEMMA CrashKeepsQueue ==
  ASSUME QueueInv, NEW w \in Worker, Crash(w)
  PROVE  QueueInv'
<1>0. /\ CommandTypeOK /\ HeldInv /\ CurrentFits /\ RoomToTry /\ FailedMismatch
      /\ ExecutedOnce /\ AttemptsRecorded
      /\ UNCHANGED <<row, op, attempts, submission, wire, reply, executed, effects>>
  BY DEF QueueInv, Crash, tables, ledger
<1>1. HeldInv' /\ \A v \in Worker, r \in Request : Holds(v, r)' => v # w /\ Holds(v, r)
  BY <1>0, CrashKeepsHeld
<1>2. /\ \A v \in Worker : v # w => pc'[v] = pc[v] /\ Current(v)' = Current(v)
      /\ pc'[w] = "idle"
      /\ \A r : NewId(r)' = NewId(r)
  BY <1>0 DEF CommandTypeOK, Crash, Goto, Current, NewId
<1>3. CommandTypeOK'
  BY <1>0, EmptyBatch, QueueAssumption DEF CommandTypeOK, Crash, Goto, Steps
<1>4. CurrentFits'
  BY <1>0, <1>2 DEF CurrentFits, Busy
<1>5. RoomToTry'
  BY <1>0, <1>1, <1>2 DEF RoomToTry
<1>6. FailedMismatch' /\ AttemptsRecorded' /\ ExecutedOnce'
  BY <1>0 DEF FailedMismatch, AttemptsRecorded, ExecutedOnce
<1> QED
  BY <1>1, <1>3, <1>4, <1>5, <1>6 DEF QueueInv

\* The participant deals with a submission.
LEMMA ParticipantKeepsQueue ==
  ASSUME QueueInv, NEW m \in wire, Participant(m)
  PROVE  QueueInv'
<1>0. /\ CommandTypeOK /\ HeldInv /\ CurrentFits /\ RoomToTry /\ FailedMismatch
      /\ ExecutedOnce /\ AttemptsRecorded
      /\ UNCHANGED <<row, op, attempts, pc, locked, batch, submission, crashes>>
      /\ wire' = wire \ {m}
  BY DEF QueueInv, Participant, tables, workers
<1>1. m.request \in Request /\ m.submission \in attempts[m.request]
  BY <1>0 DEF CommandTypeOK, Message, AttemptsRecorded
<1>2. HeldInv' /\ \A v \in Worker, r \in Request : Holds(v, r)' <=> Holds(v, r)
  BY <1>0, SameKeepsHeld
<1>3. /\ \A v : Current(v)' = Current(v) /\ (Busy(v)' <=> Busy(v))
      /\ \A r : NewId(r)' = NewId(r)
  BY <1>0 DEF Current, Busy, NewId
<1>4. reply' \in [Worker -> {"none", "ok", "duplicate", "rejected"}]
  BY <1>0 DEF CommandTypeOK, Participant, Execute, Reject, Deduplicate, Lose, Answer
<1>5. effects' \in [Request -> Nat] /\ ExecutedOnce'
  <2>1. effects \in [Request -> Nat]
    BY <1>0 DEF CommandTypeOK
  <2>2. CASE UNCHANGED <<executed, effects>>
    BY <1>0, <2>1, <2>2 DEF ExecutedOnce
  <2>3. CASE Execute(m)
    BY <1>0, <1>1, <2>1, <2>3 DEF ExecutedOnce, Execute, CommandId
  <2> QED
    BY <2>2, <2>3 DEF Participant, Reject, Deduplicate, Lose
<1>6. CommandTypeOK'
  BY <1>0, <1>4, <1>5 DEF CommandTypeOK
<1>7. CurrentFits' /\ RoomToTry'
  BY <1>0, <1>2, <1>3 DEF CurrentFits, RoomToTry
<1>8. FailedMismatch' /\ AttemptsRecorded'
  BY <1>0 DEF FailedMismatch, AttemptsRecorded
<1> QED
  BY <1>2, <1>5, <1>6, <1>7, <1>8 DEF QueueInv

\* Nothing is queued, held or sent before the first intent.
LEMMA QueueInitInvariant == QueueInit => QueueInv
<1> SUFFICES ASSUME QueueInit PROVE QueueInv
  OBVIOUS
<1>1. CommandTypeOK
  BY EmptyBatch, QueueAssumption
  DEF QueueInit, CommandTypeOK, RowStatus, OpStatus, Steps
<1>2. \A w \in Worker : /\ pc[w] = "idle" /\ locked[w] = {} /\ batch[w] = <<>>
                         /\ ~Busy(w) /\ \A r : ~Holds(w, r)
  BY EmptyBatch DEF QueueInit, Busy, Holds, Rows
<1>3. HeldInv
  BY <1>2, EmptyBatch DEF HeldInv, WorkerShape, LocksApart, HeldRows, HeldApart
<1>4. CurrentFits /\ RoomToTry
  BY <1>2 DEF QueueInit, CurrentFits, RoomToTry
<1>5. FailedMismatch /\ AttemptsRecorded /\ ExecutedOnce
  BY DEF QueueInit, FailedMismatch, AttemptsRecorded, ExecutedOnce
<1> QED
  BY <1>1, <1>3, <1>4, <1>5 DEF QueueInv

\* Every step of the API, a worker or the participant keeps the invariant.
LEMMA QueueStepInvariant == QueueInv /\ [QueueNext]_queueVars => QueueInv'
<1> SUFFICES ASSUME QueueInv, [QueueNext]_queueVars PROVE QueueInv'
  OBVIOUS
<1>1. ASSUME NEW r \in Request, EnqueueIntent(r) \/ Elapse(r) PROVE QueueInv'
  BY <1>1, QueueingKeepsQueue
<1>2. ASSUME NEW w \in Worker, Work(w) PROVE QueueInv'
  BY <1>2, ClaimingKeepsQueue, InsertKeepsQueue, ProcessingKeepsQueue,
     FinishingKeepsQueue DEF Work
<1>3. ASSUME NEW w \in Worker, Crash(w) PROVE QueueInv'
  BY <1>3, CrashKeepsQueue
<1>4. ASSUME NEW m \in wire, Participant(m) PROVE QueueInv'
  BY <1>4, ParticipantKeepsQueue
<1>5. CASE UNCHANGED queueVars
  <2>1. UNCHANGED <<row, op, attempts, pc, locked, batch, submission, wire, reply,
                    executed, effects, crashes>>
    BY <1>5 DEF queueVars, tables, workers, ledger
  <2>2. HeldInv'
    BY <2>1, SameKeepsHeld DEF QueueInv
  <2>3. \A v : Current(v)' = Current(v) /\ (Busy(v)' <=> Busy(v))
    BY <2>1 DEF Current, Busy
  <2>4. /\ \A v, r : Holds(v, r)' <=> Holds(v, r)
        /\ \A r : NewId(r)' = NewId(r)
    BY <2>1, <2>3 DEF Holds, NewId
  <2>5. CommandTypeOK' /\ CurrentFits' /\ RoomToTry'
    BY <2>1, <2>3, <2>4 DEF QueueInv, CommandTypeOK, CurrentFits, RoomToTry
  <2>6. FailedMismatch' /\ AttemptsRecorded' /\ ExecutedOnce'
    BY <2>1 DEF QueueInv, FailedMismatch, AttemptsRecorded, ExecutedOnce
  <2> QED
    BY <2>2, <2>5, <2>6 DEF QueueInv
<1> QED
  BY <1>1, <1>2, <1>3, <1>4, <1>5 DEF QueueNext

\* The inductive invariant of the queue.
THEOREM QueueInvariantHolds == QueueSpec => []QueueInv
BY QueueInitInvariant, QueueStepInvariant, PTL DEF QueueSpec

-----------------------------------------------------------------------------
(* What the invariant says of the code.                                    *)

\* Rows, claims and attempts have their types: overlapping claims and crashes do
\* not let a request exceed its attempts (ledger_command_attempts).
THEOREM QueueTypesHold == QueueSpec => []CommandTypeOK
<1>1. QueueInv => CommandTypeOK
  BY DEF QueueInv
<1> QED
  BY <1>1, QueueInvariantHolds, PTL

\* Any number of workers, claims, retries and crashes: no request is in the hands
\* of two workers (claimPending with SKIP LOCKED and the status 'claimed').
THEOREM OneWorkerSubmits == QueueSpec => []OneSubmitter
<1>1. ASSUME HeldApart PROVE OneSubmitter
  <2> SUFFICES ASSUME NEW r \in Request
               PROVE  Cardinality({w \in Worker : Holds(w, r)}) <= 1
    BY DEF OneSubmitter
  <2> DEFINE H == {w \in Worker : Holds(w, r)}
  <2>1. CASE H = {}
    BY <2>1, FS_EmptySet
  <2>2. ASSUME NEW w \in H PROVE Cardinality(H) <= 1
    <3>1. H = {w}
      BY <1>1 DEF HeldApart
    <3>2. Cardinality({w}) = 1
      BY FS_Singleton
    <3> QED
      BY <3>1, <3>2
  <2> QED
    BY <2>1, <2>2
<1>2. QueueInv => OneSubmitter
  BY <1>1 DEF QueueInv, HeldInv
<1> QED
  BY <1>2, QueueInvariantHolds, PTL

\* What reaches the participant is in the table of attempts, whatever crashed
\* (insertAttempt before submitAsync).
THEOREM SentIsRecorded == QueueSpec => []AttemptsRecorded
<1>1. QueueInv => AttemptsRecorded
  BY DEF QueueInv
<1> QED
  BY <1>1, QueueInvariantHolds, PTL

\* A request or operation that is reported failed took no effect, and nothing on its
\* way can give it one (processClaim fails a request only before its first attempt).
THEOREM FailedTookNoEffect == QueueSpec => []FailedWithoutEffect
<1>1. ASSUME FailedMismatch, AttemptsRecorded, ExecutedOnce
      PROVE  FailedWithoutEffect
  <2> SUFFICES ASSUME NEW r \in Request, "failed" \in {row[r], op[r]}
               PROVE  effects[r] = 0 /\ \A m \in wire : m.request # r
    BY DEF FailedWithoutEffect
  <2>1. attempts[r] = {}
    BY <1>1 DEF FailedMismatch
  <2>2. effects[r] = 0
    BY <1>1, <2>1 DEF ExecutedOnce
  <2>3. \A m \in wire : m.request # r
    BY <1>1, <2>1 DEF AttemptsRecorded
  <2> QED
    BY <2>2, <2>3
<1>2. QueueInv => FailedWithoutEffect
  BY <1>1 DEF QueueInv
<1> QED
  BY <1>2, QueueInvariantHolds, PTL

-----------------------------------------------------------------------------
(* The queue implements CommandOnce.                                       *)

\* What a caller sees of a request.
Phase(r) == IF row[r] \in {"absent", "failed"} THEN row[r] ELSE "open"

\* The empty tables are the abstract initial state.
LEMMA OnceInitMaps == QueueInit => Once!OnceInit
BY DEF QueueInit, Once!OnceInit

\* A step that shows neither in the phase nor in the effects is a stutter.
LEMMA OnceStutters ==
  ASSUME \A r \in Request : Phase(r)' = Phase(r), UNCHANGED effects
  PROVE  UNCHANGED Once!onceVars
BY DEF Phase, Once!onceVars

\* An update of the row of a request that is queued or worked on, to another such
\* status, does not show.
LEMMA RowUpdateStutters ==
  ASSUME CommandTypeOK, NEW r \in Request, row[r] \notin {"absent", "failed"},
         NEW x \in RowStatus \ {"absent", "failed"}, row' = [row EXCEPT ![r] = x],
         UNCHANGED effects
  PROVE  UNCHANGED Once!onceVars
BY OnceStutters DEF Phase, CommandTypeOK

\* EnqueueIntent opens a request, FailRow gives it up, Execute takes effect, and
\* no other step shows.
LEMMA OnceStepMaps ==
  QueueInv /\ [QueueNext]_queueVars => [Once!OnceNext]_(Once!onceVars)
<1> SUFFICES ASSUME QueueInv, [QueueNext]_queueVars
             PROVE  Once!OnceNext \/ UNCHANGED Once!onceVars
  OBVIOUS
<1>0. CommandTypeOK /\ HeldInv /\ CurrentFits /\ FailedMismatch /\ ExecutedOnce
  BY DEF QueueInv
<1>1. ASSUME NEW r \in Request, EnqueueIntent(r) PROVE Once!OnceNext
  <2>1. Once!Open(r)
    BY <1>0, <1>1 DEF EnqueueIntent, ledger, Once!Open, CommandTypeOK
  <2> QED
    BY <2>1 DEF Once!OnceNext
<1>2. ASSUME NEW r \in Request, Elapse(r) PROVE UNCHANGED Once!onceVars
  BY <1>0, <1>2, RowUpdateStutters DEF Elapse, ledger, RowStatus
<1>3. ASSUME NEW w \in Worker, CommitClaim(w) PROVE UNCHANGED Once!onceVars
  <2>1. \A r \in Oldest(locked[w], Limit) : row[r] = "received"
    BY <1>0 DEF HeldInv, LocksApart, Oldest
  <2> QED
    BY <1>0, <1>3, <2>1, OnceStutters DEF CommitClaim, ledger, Phase
<1>4. ASSUME NEW w \in Worker, MarkRequestSubmitted(w) \/ RetryRow(w)
      PROVE  UNCHANGED Once!onceVars
  <2>1. Busy(w) /\ pc[w] \in {"markRow", "retryRow"} /\ UNCHANGED effects
    BY <1>4 DEF Busy, MarkRequestSubmitted, RetryRow, ledger
  <2>2. Current(w) \in Request /\ row[Current(w)] \notin {"absent", "failed"}
    BY <1>0, <2>1, CurrentIsHeld DEF RowAt, AtLedger
  <2>3. PICK x \in RowStatus \ {"absent", "failed"} : row' = [row EXCEPT ![Current(w)] = x]
    BY <1>4 DEF MarkRequestSubmitted, RetryRow, RowStatus
  <2> QED
    BY <1>0, <2>1, <2>2, <2>3, RowUpdateStutters
<1>5. ASSUME NEW w \in Worker, FailRow(w) PROVE Once!OnceNext
  <2>1. Busy(w) /\ pc[w] = "failRow" /\ UNCHANGED effects
        /\ row' = [row EXCEPT ![Current(w)] = "failed"]
    BY <1>5 DEF Busy, FailRow, ledger
  <2>2. PICK c \in Request : c = Current(w) /\ row[c] = "claimed" /\ c \in Mismatched
    BY <1>0, <2>1, CurrentIsHeld DEF RowAt, AtLedger, CurrentFits
  <2>3. effects[c] = 0
    BY <1>0, <2>2 DEF FailedMismatch, ExecutedOnce
  <2>4. Once!GiveUp(c)
    BY <1>0, <2>1, <2>2, <2>3 DEF Once!GiveUp, CommandTypeOK
  <2> QED
    BY <2>2, <2>4 DEF Once!OnceNext
<1>6. ASSUME NEW w \in Worker,
             \/ SelectPending(w) \/ Take(w) \/ EnsureCommandIdentity(w)
             \/ InsertAttempt(w) \/ MarkOperationSubmitted(w) \/ BuildAndSend(w)
             \/ Accepted(w) \/ Thrown(w) \/ CallBreaks(w) \/ RetryOperation(w)
             \/ FailOperation(w) \/ Crash(w)
      PROVE  UNCHANGED Once!onceVars
  <2>1. UNCHANGED <<row, effects>>
    BY <1>6 DEF SelectPending, Take, EnsureCommandIdentity, InsertAttempt,
       MarkOperationSubmitted, BuildAndSend, Accepted, Thrown, CallBreaks,
       RetryOperation, FailOperation, Crash, tables, ledger
  <2> QED
    BY <2>1, OnceStutters DEF Phase
<1>7. ASSUME NEW m \in wire, Participant(m)
      PROVE  Once!OnceNext \/ UNCHANGED Once!onceVars
  <2>1. UNCHANGED row /\ m.request \in Request /\ m.submission \in attempts[m.request]
    BY <1>0, <1>7 DEF Participant, tables, CommandTypeOK, Message, QueueInv, AttemptsRecorded
  <2>2. CASE Execute(m)
    <3>1. row[m.request] \notin {"absent", "failed"}
      BY <1>0, <2>1 DEF FailedMismatch
    <3>2. effects[m.request] = 0
      BY <1>0, <2>1, <2>2 DEF Execute, CommandId, ExecutedOnce
    <3>3. Once!TakeEffect(m.request)
      BY <2>1, <2>2, <3>1, <3>2 DEF Execute, Once!TakeEffect
    <3> QED
      BY <2>1, <3>3 DEF Once!OnceNext
  <2>3. CASE UNCHANGED effects
    BY <2>1, <2>3, OnceStutters DEF Phase
  <2> QED
    BY <1>7, <2>2, <2>3 DEF Participant, Reject, Deduplicate, Lose
<1>8. CASE UNCHANGED queueVars
  <2>1. UNCHANGED <<row, effects>>
    BY <1>8 DEF queueVars, tables, ledger
  <2> QED
    BY <2>1, OnceStutters DEF Phase
<1> QED
  BY <1>1, <1>2, <1>3, <1>4, <1>5, <1>6, <1>7, <1>8 DEF QueueNext, Work

\* Claims, retries, crashes and the participant implement CommandOnce: a command
\* takes effect at most once, and not after its request failed.
THEOREM QueueImplementsOnce == QueueSpec => ImplementsCommandOnce
BY QueueInvariantHolds, OnceInitMaps, OnceStepMaps, PTL
DEF QueueSpec, ImplementsCommandOnce, Once!OnceSpec

===============================================================================

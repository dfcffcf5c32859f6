------------------------- MODULE SmokeClientProofs -------------------------
(***************************************************************************)
(* Proofs about the client of the smoke test, for any number of nodes,     *)
(* journeys, blocks and nonces.  The argument has three parts on top of    *)
(* the types: the high-water mark is above whatever was confirmed or seen; *)
(* the counter is above whatever the journey signed; and while nothing has *)
(* failed, no nonce below the counter is missing from chain and mempool.   *)
(***************************************************************************)
EXTENDS SmokeClient, SequenceTheorems, TLAPS

(* The mark covers what was confirmed and seen, once a head is known. *)
MarkInv ==
  /\ confirmed <= readBlock /\ seen <= readBlock
  /\ pc # "fresh" => readBlock # NoBlock

(* The counter is above the signed nonces, the nonce in hand just below it. *)
Numbered == pc \in {"estimating", "built"}

NonceInv ==
  /\ \A n \in 0..MaxNonce : <<journey, n>> \in signed => n < counter
  /\ Numbered => \A n \in 0..MaxNonce : <<journey, n>> \in signed => n < nonce
  /\ Numbered \/ pc = "sent" => counter = nonce + 1

(* Without a failure nothing is missing below the next nonce. *)
GapInv ==
  /\ pc = "raised" => journey \in failed
  /\ journey \notin failed =>
       IF Numbered THEN Gapless(nonce) ELSE Gapless(counter)

(* The inductive invariant. *)
SInv == SmokeTypeOK /\ MarkInv /\ NonceInv /\ GapInv

(* It holds initially. *)
LEMMA InitSInv == SmokeInit => SInv
  <1> SUFFICES ASSUME SmokeInit PROVE SInv
    OBVIOUS
  <1> USE SmokeAssumption
  <1>1. count \in Seq(0..MaxNonce + 1) /\ Tip = 1 /\ count[1] = 0
    BY DEF SmokeInit, Tip
  <1>2. PoolTypeOK
    BY <1>1 DEF SmokeInit, PoolTypeOK
  <1>3. ClientTypeOK
    <2>1. readBlock \in NoBlock..Tip /\ counter \in 0..MaxNonce + 1 /\ nonce \in 0..MaxNonce
      BY <1>1 DEF SmokeInit, NoBlock
    <2>2. journey \in 1..MaxJourneys
      BY DEF SmokeInit
    <2> QED
      BY <2>1, <2>2 DEF SmokeInit, ClientTypeOK, Places
  <1>4. HistoryTypeOK
    BY <1>1 DEF SmokeInit, HistoryTypeOK, NoBlock
  <1>5. MarkInv /\ NonceInv
    BY DEF SmokeInit, MarkInv, NonceInv, Numbered, NoBlock
  <1>6. GapInv
    BY <1>1 DEF SmokeInit, GapInv, Gapless, Numbered
  <1> QED
    BY <1>2, <1>3, <1>4, <1>5, <1>6 DEF SInv, SmokeTypeOK

(* Mining moves the chain on, and leaves the client as it was.             *)
LEMMA MineSInv == SInv /\ Mine => SInv'
  <1> SUFFICES ASSUME SInv, Mine PROVE SInv'
    OBVIOUS
  <1> USE SmokeAssumption DEF SInv, SmokeTypeOK
  <1>1. PICK mined \in count[Tip]..MaxNonce + 1 :
          /\ Gapless(mined)
          /\ count' = Append(count, mined)
          /\ mempool' = mempool \ (0..mined - 1)
    BY DEF Mine
  <1>2. UNCHANGED <<height, conn, readBlock, expired, counter, nonce, pc, journey,
                    signed, confirmed, seen, failed>>
    BY DEF Mine, history
  <1>3. /\ count[Tip] \in 0..MaxNonce + 1
        /\ count[Tip] <= mined /\ mined \in 0..MaxNonce + 1
    BY <1>1 DEF PoolTypeOK, Tip
  <1>4. /\ count' \in Seq(0..MaxNonce + 1)
        /\ Tip' = Tip + 1 /\ Tip' \in 1..MaxBlocks
        /\ (count[Tip])' = mined
    BY <1>1, <1>3, AppendProperties DEF Mine, PoolTypeOK, Tip
  <1>5. PoolTypeOK'
    <2>1. height' \in [Backends -> 1..Tip']
      BY <1>2, <1>4 DEF PoolTypeOK
    <2>2. ASSUME NEW m \in mempool' PROVE m \in mined..MaxNonce
      BY <2>2, <1>1, <1>3 DEF PoolTypeOK
    <2> QED
      BY <1>4, <2>1, <2>2 DEF PoolTypeOK
  <1>6. ClientTypeOK' /\ HistoryTypeOK'
    BY <1>2, <1>4 DEF PoolTypeOK, ClientTypeOK, HistoryTypeOK, NoBlock
  <1>7. MarkInv' /\ NonceInv'
    BY <1>2 DEF MarkInv, NonceInv, Numbered
  <1>8. ASSUME NEW n \in Nat, Gapless(n) PROVE Gapless(n)'
    BY <1>1, <1>3, <1>4, <1>8 DEF Gapless, PoolTypeOK
  <1>9. GapInv'
    BY <1>2, <1>8 DEF ClientTypeOK, GapInv, Numbered
  <1> QED
    BY <1>5, <1>6, <1>7, <1>9

(* Imports and reconnections do not touch what the client knows.           *)
LEMMA PoolSInv ==
  SInv /\ ((\E b \in Backends : Import(b)) \/ Reconnect) => SInv'
  <1> SUFFICES ASSUME SInv, (\E b \in Backends : Import(b)) \/ Reconnect PROVE SInv'
    OBVIOUS
  <1> USE SmokeAssumption DEF SInv, SmokeTypeOK
  <1>1. UNCHANGED <<count, mempool, readBlock, expired, counter, nonce, pc, journey,
                    signed, confirmed, seen, failed>>
    BY DEF Import, Reconnect, history, pool
  <1>2. height' \in [Backends -> 1..Tip]
    BY DEF Import, Reconnect, pool, PoolTypeOK, Tip
  <1>3. conn' \in Backends
    BY DEF Import, Reconnect, ClientTypeOK
  <1>4. Tip' = Tip
    BY <1>1 DEF Tip
  <1>5. PoolTypeOK' /\ ClientTypeOK' /\ HistoryTypeOK'
    BY <1>1, <1>2, <1>3, <1>4 DEF PoolTypeOK, ClientTypeOK, HistoryTypeOK
  <1>6. MarkInv' /\ NonceInv' /\ GapInv'
    BY <1>1, <1>4 DEF MarkInv, NonceInv, GapInv, Gapless, Numbered
  <1> QED
    BY <1>5, <1>6
-----------------------------------------------------------------------------
(* The provider's steps.                                                   *)

(* The mark is at least what it was and what was observed, and a block.    *)
LEMMA RatchetGoesUp ==
  ASSUME PoolTypeOK, ClientTypeOK, NEW block \in 1..Tip
  PROVE  /\ Ratchet(block) \in 1..Tip
         /\ Ratchet(block) >= block /\ Ratchet(block) >= readBlock
  BY SmokeAssumption DEF PoolTypeOK, ClientTypeOK, Ratchet, NoBlock

(* What does not touch the pool keeps its types and every nonce's place.   *)
LEMMA PoolKept ==
  ASSUME PoolTypeOK, UNCHANGED pool
  PROVE  PoolTypeOK' /\ Tip' = Tip /\ \A n : Gapless(n)' <=> Gapless(n)
  BY DEF PoolTypeOK, Tip, pool, Gapless

(* Heads and receipts raise the mark, and a read observes it.              *)
LEMMA ReadSInv == SInv /\ (HeadQuery \/ StartRead \/ AnswerRead) => SInv'
  <1> SUFFICES ASSUME SInv, HeadQuery \/ StartRead \/ AnswerRead PROVE SInv'
    OBVIOUS
  <1> USE SmokeAssumption DEF SInv, SmokeTypeOK
  <1>1. /\ UNCHANGED <<pool, conn, counter, nonce, journey, signed, confirmed, failed>>
        /\ pc' \in {"idle", "reading"} /\ pc \in {"fresh", "idle", "reading"}
    BY DEF HeadQuery, StartRead, AnswerRead, history
  <1>2. PoolTypeOK' /\ Tip' = Tip /\ \A n : Gapless(n)' <=> Gapless(n)
    BY <1>1, PoolKept
  <1>3. height[conn] \in 1..Tip
    BY DEF PoolTypeOK, ClientTypeOK
  <1>4. /\ readBlock' \in NoBlock..Tip /\ readBlock' >= readBlock
        /\ readBlock' # NoBlock
    BY <1>3, RatchetGoesUp
       DEF HeadQuery, StartRead, AnswerRead, MarkInv, ClientTypeOK, PoolTypeOK, NoBlock
  <1>5. seen' \in NoBlock..Tip /\ seen' <= readBlock'
    BY <1>3, <1>4
       DEF HeadQuery, StartRead, AnswerRead, history, MarkInv, ReadAt, ClientTypeOK,
           PoolTypeOK, HistoryTypeOK, NoBlock
  <1>6. expired' \in BOOLEAN
    BY DEF HeadQuery, StartRead, AnswerRead, ClientTypeOK
  <1>7. ClientTypeOK' /\ HistoryTypeOK'
    BY <1>1, <1>2, <1>4, <1>5, <1>6 DEF ClientTypeOK, HistoryTypeOK, Places
  <1>8. MarkInv'
    BY <1>1, <1>4, <1>5 DEF MarkInv, ClientTypeOK, PoolTypeOK, HistoryTypeOK, NoBlock
  <1>9. NonceInv' /\ GapInv'
    BY <1>1, <1>2 DEF NonceInv, GapInv, Numbered
  <1> QED
    BY <1>2, <1>7, <1>8, <1>9

(* Whatever is raised marks its journey as failed.                         *)
LEMMA RaiseSInv == SInv /\ pc # "fresh" /\ Raise /\ UNCHANGED pool => SInv'
  <1> SUFFICES ASSUME SInv, pc # "fresh", Raise, UNCHANGED pool PROVE SInv'
    OBVIOUS
  <1> USE SmokeAssumption DEF SInv, SmokeTypeOK
  <1>1. PoolTypeOK' /\ Tip' = Tip
    BY PoolKept
  <1>2. /\ UNCHANGED <<conn, readBlock, expired, counter, nonce, journey,
                       signed, confirmed, seen>>
        /\ pc' = "raised" /\ failed' = failed \union {journey}
    BY DEF Raise
  <1>3. ClientTypeOK'
    BY <1>1, <1>2 DEF ClientTypeOK, Places
  <1>4. HistoryTypeOK'
    BY <1>1, <1>2 DEF ClientTypeOK, HistoryTypeOK
  <1>5. MarkInv' /\ NonceInv' /\ GapInv'
    BY <1>2 DEF MarkInv, NonceInv, GapInv, Numbered
  <1> QED
    BY <1>1, <1>3, <1>4, <1>5

(* Asking again, the passing of time and the next check change little.     *)
LEMMA WaitSInv == SInv /\ (Retry \/ Deadline \/ NextCheck) => SInv'
  <1> SUFFICES ASSUME SInv, Retry \/ Deadline \/ NextCheck PROVE SInv'
    OBVIOUS
  <1> USE SmokeAssumption DEF SInv, SmokeTypeOK
  <1>1. /\ UNCHANGED <<pool, readBlock, counter, nonce, journey,
                       signed, confirmed, seen, failed>>
        /\ conn' \in Backends /\ expired' \in BOOLEAN
        /\ pc' = pc \/ (pc = "raised" /\ pc' = "idle")
    BY DEF Retry, Deadline, NextCheck, history, ClientTypeOK
  <1>2. PoolTypeOK' /\ Tip' = Tip /\ \A n : Gapless(n)' <=> Gapless(n)
    BY <1>1, PoolKept
  <1>3. ClientTypeOK' /\ HistoryTypeOK'
    BY <1>1, <1>2 DEF ClientTypeOK, HistoryTypeOK, Places
  <1>4. MarkInv' /\ NonceInv' /\ GapInv'
    BY <1>1, <1>2 DEF MarkInv, NonceInv, GapInv, Numbered
  <1> QED
    BY <1>2, <1>3, <1>4

-----------------------------------------------------------------------------
(* The steps of Chain and of the runner.                                   *)

(* A number is above every signed one, and nothing below it is missing.    *)
LEMMA NextNonceSInv == SInv /\ NextNonce => SInv'
  <1> SUFFICES ASSUME SInv, NextNonce PROVE SInv'
    OBVIOUS
  <1> USE SmokeAssumption DEF SInv, SmokeTypeOK
  <1>1. PICK pending \in PendingCounts :
          /\ NumberAfter(pending) <= MaxNonce
          /\ nonce' = NumberAfter(pending)
          /\ counter' = nonce' + 1
    BY DEF NextNonce
  <1>2. /\ UNCHANGED <<pool, conn, readBlock, journey, signed, confirmed, seen, failed>>
        /\ pc = "idle" /\ pc' \in {"estimating", "built"} /\ expired' = FALSE
    BY DEF NextNonce, history
  <1>3. PoolTypeOK' /\ Tip' = Tip /\ \A n : Gapless(n)' <=> Gapless(n)
    BY <1>2, PoolKept
  <1>4. /\ pending \in 0..MaxNonce + 1 /\ Gapless(pending)
        /\ counter \in 0..MaxNonce + 1
    <2>1. height[conn] \in 1..Tip
      BY DEF PoolTypeOK, ClientTypeOK
    <2>2. count[height[conn]] \in 0..MaxNonce + 1
      BY <2>1 DEF PoolTypeOK, Tip
    <2> QED
      BY <1>1, <2>2 DEF PendingCounts, ClientTypeOK
  <1>5. /\ nonce' \in 0..MaxNonce /\ nonce' >= counter /\ counter' \in 0..MaxNonce + 1
        /\ nonce' = counter \/ nonce' = pending
    BY <1>1, <1>4 DEF NumberAfter
  <1>6. ClientTypeOK' /\ HistoryTypeOK'
    BY <1>2, <1>3, <1>5 DEF ClientTypeOK, HistoryTypeOK, Places
  <1>7. MarkInv'
    BY <1>2 DEF MarkInv
  <1>8. NonceInv'
    BY <1>1, <1>2, <1>4, <1>5 DEF NonceInv, Numbered
  <1>9. GapInv'
    BY <1>2, <1>3, <1>4, <1>5 DEF GapInv, Numbered
  <1> QED
    BY <1>3, <1>6, <1>7, <1>8, <1>9

(* An estimate that succeeds leaves the number in hand.                    *)
LEMMA EstimateSInv == SInv /\ AnswerEstimate => SInv'
  <1> SUFFICES ASSUME SInv, AnswerEstimate PROVE SInv'
    OBVIOUS
  <1>1. CASE Raise
    BY <1>1, RaiseSInv DEF AnswerEstimate
  <1>2. CASE ~Raise
    <2> USE SmokeAssumption DEF SInv, SmokeTypeOK
    <2>1. /\ UNCHANGED <<pool, conn, readBlock, expired, counter, nonce, journey,
                         signed, confirmed, seen, failed>>
          /\ pc = "estimating" /\ pc' = "built"
      BY <1>2 DEF AnswerEstimate, history
    <2>2. PoolTypeOK' /\ Tip' = Tip /\ \A n : Gapless(n)' <=> Gapless(n)
      BY <2>1, PoolKept
    <2>3. ClientTypeOK' /\ HistoryTypeOK'
      BY <2>1, <2>2 DEF ClientTypeOK, HistoryTypeOK, Places
    <2>4. MarkInv' /\ NonceInv' /\ GapInv'
      BY <2>1, <2>2 DEF MarkInv, NonceInv, GapInv, Numbered
    <2> QED
      BY <2>2, <2>3, <2>4
  <1> QED
    BY <1>1, <1>2

(* A broadcast fills the place of its nonce, or marks the journey failed.  *)
LEMMA BroadcastSInv == SInv /\ Broadcast => SInv'
  <1> SUFFICES ASSUME SInv, Broadcast PROVE SInv'
    OBVIOUS
  <1> USE SmokeAssumption DEF SInv, SmokeTypeOK
  <1>1. /\ UNCHANGED <<count, height, conn, readBlock, expired, counter, nonce,
                       journey, confirmed, seen>>
        /\ pc = "built" /\ signed' = signed \union {<<journey, nonce>>}
    BY DEF Broadcast
  <1>2. \/ /\ Fresh /\ mempool' = mempool \union {nonce}
           /\ pc' = "sent" /\ failed' = failed
        \/ /\ mempool' = mempool \/ (Fresh /\ mempool' = mempool \union {nonce})
           /\ pc' = "raised" /\ failed' = failed \union {journey}
    BY DEF Broadcast
  <1>3. Tip' = Tip /\ count[Tip] \in 0..MaxNonce + 1
    BY <1>1 DEF Tip, PoolTypeOK
  <1>4. PoolTypeOK'
    <2>1. mempool \subseteq count[Tip]..MaxNonce /\ nonce \in 0..MaxNonce
      BY DEF PoolTypeOK, ClientTypeOK
    <2>2. Fresh => nonce \in count[Tip]..MaxNonce
      BY <1>3, <2>1 DEF Fresh
    <2>3. CASE mempool' = mempool
      BY <1>1, <1>3, <2>1, <2>3 DEF PoolTypeOK
    <2>4. CASE Fresh /\ mempool' = mempool \union {nonce}
      BY <1>1, <1>3, <2>1, <2>2, <2>4 DEF PoolTypeOK
    <2> QED
      BY <1>2, <2>3, <2>4
  <1>5. ClientTypeOK'
    BY <1>1, <1>2, <1>3 DEF ClientTypeOK, Places
  <1>6. HistoryTypeOK'
    <2>1. journey \in 1..journey /\ nonce \in 0..MaxNonce
      BY DEF ClientTypeOK
    <2>2. signed' \subseteq (1..journey') \X (0..MaxNonce)
      BY <1>1, <2>1 DEF HistoryTypeOK
    <2>3. failed' \subseteq 1..journey'
      BY <1>1, <1>2, <2>1 DEF HistoryTypeOK
    <2> QED
      BY <1>1, <1>3, <2>2, <2>3 DEF HistoryTypeOK
  <1>7. MarkInv'
    BY <1>1, <1>2 DEF MarkInv
  <1>8. NonceInv'
    BY <1>1, <1>2 DEF ClientTypeOK, NonceInv, Numbered
  <1>9. GapInv'
    <2>1. CASE pc' = "sent"
      <3>1. ASSUME Gapless(nonce) PROVE Gapless(nonce + 1)'
        BY <1>1, <1>2, <1>3, <2>1, <3>1 DEF Gapless, ClientTypeOK
      <3>2. counter' = nonce + 1
        BY <1>1 DEF NonceInv, Numbered
      <3> QED
        BY <1>1, <1>2, <2>1, <3>1, <3>2 DEF GapInv, Numbered
    <2>2. CASE pc' = "raised"
      BY <1>1, <1>2, <2>2 DEF GapInv, Numbered
    <2> QED
      BY <1>2, <2>1, <2>2
  <1> QED
    BY <1>4, <1>5, <1>6, <1>7, <1>8, <1>9

(* A receipt raises the mark to its block.                                 *)
LEMMA ReceiptSInv == SInv /\ ReceiptFound => SInv'
  <1> SUFFICES ASSUME SInv, ReceiptFound PROVE SInv'
    OBVIOUS
  <1> USE SmokeAssumption DEF SInv, SmokeTypeOK
  <1>1. PICK block \in 1..height[conn] :
          readBlock' = Ratchet(block) /\ confirmed' = block
    BY DEF ReceiptFound
  <1>2. /\ UNCHANGED <<pool, conn, expired, counter, nonce, journey, signed, seen>>
        /\ pc = "sent"
        /\ \/ pc' = "idle" /\ failed' = failed
           \/ pc' = "raised" /\ failed' = failed \union {journey}
    BY DEF ReceiptFound
  <1>3. PoolTypeOK' /\ Tip' = Tip /\ \A n : Gapless(n)' <=> Gapless(n)
    BY <1>2, PoolKept
  <1>4. block \in 1..Tip
    BY DEF PoolTypeOK, ClientTypeOK
  <1>5. readBlock' \in 1..Tip /\ readBlock' >= block /\ readBlock' >= readBlock
    BY <1>1, <1>4, RatchetGoesUp
  <1>6. ClientTypeOK'
    BY <1>2, <1>3, <1>5 DEF ClientTypeOK, PoolTypeOK, NoBlock, Places
  <1>7. HistoryTypeOK'
    <2>1. confirmed' \in NoBlock..Tip'
      BY <1>1, <1>3, <1>4 DEF PoolTypeOK, NoBlock
    <2>2. journey \in 1..journey
      BY DEF ClientTypeOK
    <2>3. failed' \subseteq 1..journey'
      BY <1>2, <2>2 DEF HistoryTypeOK
    <2> QED
      BY <1>2, <1>3, <2>1, <2>3 DEF HistoryTypeOK
  <1>8. MarkInv'
    BY <1>1, <1>2, <1>4, <1>5
       DEF MarkInv, ClientTypeOK, HistoryTypeOK, PoolTypeOK, NoBlock
  <1>9. NonceInv' /\ GapInv'
    BY <1>2, <1>3 DEF NonceInv, GapInv, Numbered
  <1> QED
    BY <1>3, <1>6, <1>7, <1>8, <1>9

(* A new journey has signed nothing, confirmed nothing and not failed.     *)
LEMMA JourneySInv == SInv /\ NextJourney => SInv'
  <1> SUFFICES ASSUME SInv, NextJourney PROVE SInv'
    OBVIOUS
  <1> USE SmokeAssumption DEF SInv, SmokeTypeOK, NextJourney
  <1>1. PoolTypeOK' /\ Tip' = Tip /\ \A n : Gapless(n)' <=> Gapless(n)
    BY PoolKept
  <1>2. journey' \in 1..MaxJourneys /\ journey' \notin 1..journey
    BY DEF ClientTypeOK
  <1>3. ClientTypeOK'
    BY <1>1, <1>2 DEF ClientTypeOK, PoolTypeOK, NoBlock, Places
  <1>4. HistoryTypeOK'
    <2>1. 1..journey \subseteq 1..journey'
      BY DEF ClientTypeOK
    <2>2. signed' \subseteq (1..journey') \X (0..MaxNonce) /\ failed' \subseteq 1..journey'
      BY <2>1 DEF HistoryTypeOK
    <2>3. NoBlock \in NoBlock..Tip'
      BY <1>1 DEF PoolTypeOK, NoBlock
    <2> QED
      BY <2>2, <2>3 DEF HistoryTypeOK
  <1>5. MarkInv'
    BY DEF MarkInv, NoBlock
  <1>6. NonceInv'
    BY <1>2 DEF NonceInv, HistoryTypeOK, Numbered
  <1>7. Gapless(0)
    <2>1. count[Tip] \in 0..MaxNonce + 1
      BY DEF PoolTypeOK, Tip
    <2> QED
      BY <2>1 DEF Gapless
  <1>8. GapInv'
    BY <1>1, <1>2, <1>7 DEF GapInv, Numbered, HistoryTypeOK
  <1> QED
    BY <1>1, <1>3, <1>4, <1>5, <1>6, <1>8

-----------------------------------------------------------------------------
(* The theorems.                                                           *)

(* Every step keeps the invariant.                                         *)
LEMMA NextSInv == SInv /\ [SmokeNext]_vars => SInv'
  <1> SUFFICES ASSUME SInv, [SmokeNext]_vars PROVE SInv'
    OBVIOUS
  <1>1. CASE Mine
    BY <1>1, MineSInv
  <1>2. CASE (\E b \in Backends : Import(b)) \/ Reconnect
    BY <1>2, PoolSInv
  <1>3. CASE HeadQuery \/ StartRead \/ AnswerRead
    BY <1>3, ReadSInv
  <1>4. CASE Retry \/ Deadline \/ NextCheck
    BY <1>4, WaitSInv
  <1>5. CASE Surface \/ GiveUp
    BY <1>5, RaiseSInv DEF Surface, GiveUp, Requesting
  <1>6. CASE NextNonce \/ AnswerEstimate \/ Broadcast
    BY <1>6, NextNonceSInv, EstimateSInv, BroadcastSInv
  <1>7. CASE ReceiptFound \/ NextJourney
    BY <1>7, ReceiptSInv, JourneySInv
  <1>8. CASE UNCHANGED vars
    <2>1. UNCHANGED pool /\ UNCHANGED <<conn, readBlock, expired, counter, nonce, pc,
                             journey, signed, confirmed, seen, failed>>
      BY <1>8 DEF vars, history
    <2>2. PoolTypeOK' /\ Tip' = Tip /\ \A n : Gapless(n)' <=> Gapless(n)
      BY <2>1, PoolKept DEF SInv, SmokeTypeOK
    <2> QED
      BY <2>1, <2>2 DEF SInv, SmokeTypeOK, ClientTypeOK, HistoryTypeOK, MarkInv,
                        NonceInv, GapInv, Numbered
  <1> QED
    BY <1>1, <1>2, <1>3, <1>4, <1>5, <1>6, <1>7, <1>8 DEF SmokeNext, Request

(* The invariant holds throughout every run of the smoke test.             *)
THEOREM SInvHolds == SmokeSpec => []SInv
  BY InitSInv, NextSInv, PTL DEF SmokeSpec

(***************************************************************************)
(* Type correctness of provider, chain object and runner (provider.py,     *)
(* chain.py, __main__.py): in particular the mark, when there is one, is   *)
(* the number of a block that exists.                                      *)
(***************************************************************************)
THEOREM TypesHold == SmokeSpec => []SmokeTypeOK
  <1>1. SInv => SmokeTypeOK
    BY DEF SInv
  <1> QED
    BY <1>1, SInvHolds, PTL

(***************************************************************************)
(* While nothing has failed in a journey, a transaction that was sent can  *)
(* be mined (Chain.next_nonce takes the maximum of the node's pending      *)
(* count and its own counter, and neither has a gap below it).             *)
(***************************************************************************)
THEOREM SentAlwaysMinable == SmokeSpec => []SentCanBeMined
  <1>1. ASSUME SInv PROVE SentCanBeMined
    BY <1>1 DEF SInv, SmokeTypeOK, ClientTypeOK, NonceInv, GapInv, Numbered,
                SentCanBeMined, Gapless
  <1> QED
    BY <1>1, SInvHolds, PTL

(***************************************************************************)
(* Every answered read observes the writes this journey has confirmed and  *)
(* whatever an earlier read saw (ConsistentHTTPProvider._pin and _observe).*)
(***************************************************************************)
THEOREM ReadsObserveWrites == SmokeSpec => ReadYourWrites
  <1>1. ASSUME SInv, [SmokeNext]_vars
        PROVE  [(pc = "reading" /\ pc' = "idle")
                  => seen' >= confirmed /\ seen' >= seen]_vars
    <2> SUFFICES ASSUME pc = "reading", pc' = "idle", SmokeNext
                 PROVE  seen' >= confirmed /\ seen' >= seen
      BY <1>1 DEF vars
    <2>1. seen' = ReadAt
      BY DEF SmokeNext, Mine, Import, Reconnect, Deadline, HeadQuery, StartRead,
             Request, AnswerRead, AnswerEstimate, Retry, Surface, Raise, NextNonce,
             Broadcast, ReceiptFound, GiveUp, NextCheck, NextJourney
    <2>2. ReadAt = readBlock
      BY <1>1 DEF SInv, MarkInv, ReadAt
    <2> QED
      BY <1>1, <2>1, <2>2
         DEF SInv, SmokeTypeOK, PoolTypeOK, ClientTypeOK, HistoryTypeOK, MarkInv, NoBlock
  <1> QED
    BY <1>1, SInvHolds, PTL DEF SmokeSpec, ReadYourWrites

(***************************************************************************)
(* Within a journey the signed nonces only go up, whatever the nodes count *)
(* as pending and whatever was raised in between (Chain.next_nonce).       *)
(***************************************************************************)
THEOREM SignedNoncesGoUp == SmokeSpec => NoncesGoUp
  <1>1. ASSUME SInv
        PROVE  [(pc = "built" /\ pc' # "built") =>
                  \A n \in 0..MaxNonce : <<journey, n>> \in signed => n < nonce]_vars
    BY <1>1 DEF SInv, NonceInv, Numbered
  <1> QED
    BY <1>1, SInvHolds, PTL DEF NoncesGoUp
=============================================================================

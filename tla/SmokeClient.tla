---------------------------- MODULE SmokeClient ----------------------------
(***************************************************************************)
(* The live smoke test's client (src/script/smoke): one serial program     *)
(* that writes to a chain and reads it back through a load balancer, whose *)
(* nodes have imported different prefixes of the chain.                    *)
(*                                                                         *)
(* ConsistentHTTPProvider keeps to one connection, remembers the highest   *)
(* block it has seen and pins every state read to it; Chain numbers the    *)
(* transactions; the runner makes a new Chain, with a new provider, for    *)
(* every journey.  The nodes, the mempool and the network are external:    *)
(* the connection may drop at any time and come up at any node.            *)
(***************************************************************************)
EXTENDS Integers, Sequences

CONSTANTS
  Backends,      \* the nodes of the pool
  MaxJourneys,   \* bound: journeys of one run
  MaxBlocks,     \* bound: length of the chain
  MaxNonce       \* bound: nonces 0..MaxNonce are used

ASSUME SmokeAssumption ==
  MaxJourneys \in Nat \ {0} /\ MaxBlocks \in Nat \ {0} /\ MaxNonce \in Nat

VARIABLES
  count,      \* external: block -> the sender's transactions up to that block
  height,     \* external: node -> the last block it has imported
  mempool,    \* external: the nonces that wait to be mined
  conn,       \* the node at the other end of the sticky connection
  readBlock,  \* the high-water mark (_read_block), or NoBlock
  expired,    \* whether the deadline of the current request has passed
  counter,    \* Chain._nonces of the sender
  nonce,      \* the nonce of the transaction being sent
  pc,         \* where the client is
  journey,    \* which journey of the run this is
  signed,     \* history: <<journey, nonce>> of every signed transaction
  confirmed,  \* history: the last block a receipt showed in this journey
  seen,       \* history: the block that the latest state read observed
  failed      \* history: the journeys in which something was raised

pool    == <<count, height, mempool>>
history == <<signed, confirmed, seen, failed>>
vars    == <<pool, conn, readBlock, expired, counter, nonce, pc, journey, history>>

NoBlock == 0
Places  == {"fresh", "idle", "reading", "estimating", "built", "sent", "raised"}
Tip     == Len(count)

(* No nonce below n is missing: each is mined or waits in the mempool. *)
Gapless(n) == \A m \in count[Tip]..n - 1 : m \in mempool

PoolTypeOK ==
  /\ count \in Seq(0..MaxNonce + 1) /\ Tip \in 1..MaxBlocks
  /\ height \in [Backends -> 1..Tip]
  /\ mempool \subseteq count[Tip]..MaxNonce

ClientTypeOK ==
  /\ conn \in Backends
  /\ readBlock \in NoBlock..Tip
  /\ expired \in BOOLEAN
  /\ counter \in 0..MaxNonce + 1
  /\ nonce \in 0..MaxNonce
  /\ pc \in Places
  /\ journey \in 1..MaxJourneys

HistoryTypeOK ==
  /\ signed \subseteq (1..journey) \X (0..MaxNonce)
  /\ confirmed \in NoBlock..Tip /\ seen \in NoBlock..Tip
  /\ failed \subseteq 1..journey

SmokeTypeOK == PoolTypeOK /\ ClientTypeOK /\ HistoryTypeOK

(* The account has sent nothing yet, and every node knows it. *)
SmokeInit ==
  /\ count = <<0>>
  /\ height = [b \in Backends |-> 1]
  /\ mempool = {}
  /\ conn \in Backends
  /\ readBlock = NoBlock /\ expired = FALSE
  /\ counter = 0 /\ nonce = 0
  /\ pc = "fresh" /\ journey = 1
  /\ signed = {} /\ confirmed = NoBlock /\ seen = NoBlock /\ failed = {}

-----------------------------------------------------------------------------
(* The pool and the network.                                               *)

(* A block is empty or takes the next transactions in order of nonce. *)
Mine ==
  /\ Tip < MaxBlocks
  /\ \E mined \in count[Tip]..MaxNonce + 1 :
       /\ Gapless(mined)
       /\ count' = Append(count, mined)
       /\ mempool' = mempool \ (0..mined - 1)
  /\ UNCHANGED <<height, conn, readBlock, expired, counter, nonce, pc, journey, history>>

Import(b) ==
  /\ height[b] < Tip
  /\ height' = [height EXCEPT ![b] = @ + 1]
  /\ UNCHANGED <<count, mempool, conn, readBlock, expired, counter, nonce, pc, journey, history>>

Reconnect ==
  /\ conn' \in Backends
  /\ UNCHANGED <<pool, readBlock, expired, counter, nonce, pc, journey, history>>

-----------------------------------------------------------------------------
(* The provider.                                                           *)

\* Mutants of Ratchet: the mark follows the latest answer, also downwards; it
\* is the block after the one seen.
Ratchet_follows(block) == block
Ratchet_ahead(block) == IF block > readBlock THEN block + 1 ELSE readBlock

Ratchet(block) == IF block > readBlock THEN block ELSE readBlock

(* The node the connection ends at has not imported the pinned block. *)
Stale == height[conn] < readBlock

(* What a state read observes: the pinned block, or a node's own head. *)
ReadAt == IF readBlock = NoBlock THEN height[conn] ELSE readBlock

Requesting == pc \in {"reading", "estimating"}

(* eth_blockNumber and eth_getBlockByNumber: not pinned, but observed. *)
HeadQuery ==
  /\ pc \in {"fresh", "idle"}
  /\ readBlock' = Ratchet(height[conn])
  /\ pc' = "idle"
  /\ UNCHANGED <<pool, conn, expired, counter, nonce, journey, history>>

StartRead ==
  /\ pc = "idle"
  /\ pc' = "reading"
  /\ expired' = FALSE
  /\ UNCHANGED <<pool, conn, readBlock, counter, nonce, journey, history>>

AnswerRead ==
  /\ pc = "reading" /\ ~Stale
  /\ pc' = "idle"
  /\ seen' = ReadAt
  /\ UNCHANGED <<pool, conn, readBlock, expired, counter, nonce, journey,
                 signed, confirmed, failed>>

\* Mutant of Retry: the deadline is not looked at.
Retry_forever ==
  /\ Requesting /\ Stale
  /\ conn' \in Backends
  /\ UNCHANGED <<pool, readBlock, expired, counter, nonce, pc, journey, history>>

(* A stale answer before the deadline: drop the connection and ask again. *)
Retry ==
  /\ Requesting /\ Stale /\ ~expired
  /\ conn' \in Backends
  /\ UNCHANGED <<pool, readBlock, expired, counter, nonce, pc, journey, history>>

(* sync_timeout seconds have passed since the request started. *)
Deadline ==
  /\ Requesting /\ ~expired
  /\ expired' = TRUE
  /\ UNCHANGED <<pool, conn, readBlock, counter, nonce, pc, journey, history>>

Raise ==
  /\ pc' = "raised"
  /\ failed' = failed \union {journey}
  /\ UNCHANGED <<conn, readBlock, expired, counter, nonce, journey,
                 signed, confirmed, seen>>

(* A stale answer after the deadline: the node's error is surfaced. *)
Surface ==
  /\ Requesting /\ Stale /\ expired
  /\ Raise /\ UNCHANGED pool

-----------------------------------------------------------------------------
(* Chain: numbering, sending and waiting for the receipt.                  *)

(* A node answers a pending count between what it has imported and what    *)
(* the whole mempool would make of it.                                     *)
PendingCounts == {n \in count[height[conn]]..MaxNonce + 1 : Gapless(n)}

\* Mutant of NumberAfter: only the node is asked.
NumberAfter_nodeOnly(pending) == pending

NumberAfter(pending) == IF counter > pending THEN counter ELSE pending

(* next_nonce is evaluated first, then build_transaction estimates the gas *)
(* by a pinned request, except where the caller gives the gas.             *)
NextNonce ==
  /\ pc = "idle"
  /\ \E pending \in PendingCounts :
       /\ NumberAfter(pending) <= MaxNonce
       /\ nonce' = NumberAfter(pending)
       /\ counter' = nonce' + 1
  /\ pc' \in {"estimating", "built"}
  /\ expired' = FALSE
  /\ UNCHANGED <<pool, conn, readBlock, journey, history>>

(* The estimated call succeeds, or it reverts and its nonce stays unused. *)
AnswerEstimate ==
  /\ pc = "estimating" /\ ~Stale
  /\ \/ /\ pc' = "built"
        /\ UNCHANGED <<conn, readBlock, expired, counter, nonce, journey, history>>
     \/ Raise
  /\ UNCHANGED pool

Fresh == nonce >= count[Tip] /\ nonce \notin mempool

(* Sign and send.  A used nonce is refused; a connection that breaks hides *)
(* whether the node got the transaction.                                   *)
Broadcast ==
  /\ pc = "built"
  /\ signed' = signed \union {<<journey, nonce>>}
  /\ \/ /\ Fresh
        /\ mempool' = mempool \union {nonce}
        /\ pc' = "sent" /\ UNCHANGED failed
     \/ /\ mempool' \in {mempool} \union IF Fresh THEN {mempool \union {nonce}} ELSE {}
        /\ pc' = "raised" /\ failed' = failed \union {journey}
  /\ UNCHANGED <<count, height, conn, readBlock, expired, counter, nonce,
                 journey, confirmed, seen>>

MinedIn(block) == nonce < count[block] /\ (block = 1 \/ count[block - 1] <= nonce)

(* The receipt is observed before its status is asserted. *)
ReceiptFound ==
  /\ pc = "sent"
  /\ \E block \in 1..height[conn] :
       /\ MinedIn(block)
       /\ readBlock' = Ratchet(block)
       /\ confirmed' = block
  /\ \/ pc' = "idle" /\ UNCHANGED failed
     \/ pc' = "raised" /\ failed' = failed \union {journey}
  /\ UNCHANGED <<pool, conn, expired, counter, nonce, journey, signed, seen>>

(* wait_for_transaction_receipt has its own timeout. *)
GiveUp == pc = "sent" /\ Raise /\ UNCHANGED pool

-----------------------------------------------------------------------------
(* The runner.                                                             *)

(* run_collected records the failure and runs the next check. *)
NextCheck ==
  /\ pc = "raised"
  /\ pc' = "idle"
  /\ UNCHANGED <<pool, conn, readBlock, expired, counter, nonce, journey, history>>

\* Mutant of NextJourney: the counter outlives the journey.
NextJourney_keepsCounter ==
  /\ pc \in {"idle", "raised"} /\ journey < MaxJourneys
  /\ journey' = journey + 1
  /\ conn' \in Backends
  /\ readBlock' = NoBlock
  /\ pc' = "fresh"
  /\ confirmed' = NoBlock /\ seen' = NoBlock
  /\ UNCHANGED <<pool, counter, expired, nonce, signed, failed>>

(* The next journey of the run, after a failure too with --keep-going. *)
NextJourney ==
  /\ pc \in {"idle", "raised"} /\ journey < MaxJourneys
  /\ journey' = journey + 1
  /\ conn' \in Backends
  /\ readBlock' = NoBlock
  /\ counter' = 0
  /\ pc' = "fresh"
  /\ confirmed' = NoBlock /\ seen' = NoBlock
  /\ UNCHANGED <<pool, expired, nonce, signed, failed>>

Request == AnswerRead \/ AnswerEstimate \/ Retry \/ Surface

SmokeNext ==
  \/ Mine \/ (\E b \in Backends : Import(b)) \/ Reconnect \/ Deadline
  \/ HeadQuery \/ StartRead \/ Request
  \/ NextNonce \/ Broadcast \/ ReceiptFound \/ GiveUp
  \/ NextCheck \/ NextJourney

(* A running client goes on with its request, and time goes on; the pool   *)
(* need not.                                                               *)
SmokeSpec == SmokeInit /\ [][SmokeNext]_vars /\ WF_vars(Request) /\ WF_vars(Deadline)

-----------------------------------------------------------------------------
(* Properties.                                                             *)

(***************************************************************************)
(* Read-your-writes and monotonic reads: an answered state read observes   *)
(* every block in which this journey has confirmed a write, and nothing    *)
(* older than an earlier read saw, whichever nodes the connection met in   *)
(* between and whatever they had imported.                                 *)
(***************************************************************************)
ReadYourWrites ==
  [][(pc = "reading" /\ pc' = "idle") => seen' >= confirmed /\ seen' >= seen]_vars

(***************************************************************************)
(* The nonces a journey signs with only go up, although a node's pending   *)
(* count may be stale and although sends fail in between.                  *)
(***************************************************************************)
NoncesGoUp ==
  [][(pc = "built" /\ pc' # "built") =>
       \A n \in 0..MaxNonce : <<journey, n>> \in signed => n < nonce]_vars

(***************************************************************************)
(* While nothing has failed in a journey, a transaction that was sent can  *)
(* be mined: no lower nonce is missing from chain and mempool, so the wait *)
(* for its receipt is not in vain.                                         *)
(***************************************************************************)
SentCanBeMined ==
  (pc = "sent" /\ journey \notin failed) => Gapless(nonce)

(***************************************************************************)
(* A pinned request comes to an end, even if no node ever imports the      *)
(* pinned block: it is answered, or the node's error is surfaced.          *)
(***************************************************************************)
RequestsEnd == Requesting ~> ~Requesting

(***************************************************************************)
(* What Chain.next_nonce and the README of the smoke test say: nonces      *)
(* never collide or regress, in the whole run, so in a run without failure *)
(* no broadcast has a nonce that is mined already.  The run makes a new    *)
(* Chain for every journey.                                                *)
(***************************************************************************)
NeverTooLow == (pc = "built" /\ failed = {}) => nonce >= count[Tip]
=============================================================================
